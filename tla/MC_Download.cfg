\* Two builds, three sites, no hash for it at the first, any file at the start;
\* and check-hash alone, on .hash files of up to two lines.
SPECIFICATION MCSpec
CONSTANTS
    Builds = {b1, b2}
    genuine = genuine
    corrupt = corrupt
    NoArg = NoArg
    Missing = Missing
    NoFile = NoFile
    Partial = Partial
    Contents <- MCContents
    Delivered <- MCContents
    InitialOutput <- MCAnyOutput
    hfile <- MixedHash
    NoCheckFor = FALSE
    PrimarySite = TRUE
    PrimarySiteOnly = FALSE
    BackupSite = TRUE
    MaxLines = 2
    HashFiles <- MCHashFiles
    Inputs <- MCAnyOutput
CHECK_DEADLOCK FALSE
INVARIANTS ZeroMatchesAllHashes AllOkMeansVerified
PROPERTIES OutputVerified CacheSpec UnrefutedIsKept
