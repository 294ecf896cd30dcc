\* Two builds that find the same refuted file: each removes it, and the second
\* removes what the first has put in its place.
SPECIFICATION MCSpec
CONSTANTS
    Builds = {b1, b2}
    genuine = genuine
    corrupt = corrupt
    NoArg = NoArg
    Missing = Missing
    NoFile = NoFile
    Partial = Partial
    Contents <- MCContents
    Delivered <- MCContents
    InitialOutput <- MCAnyOutput
    hfile <- MixedHash
    NoCheckFor = FALSE
    PrimarySite = TRUE
    PrimarySiteOnly = FALSE
    BackupSite = TRUE
    MaxLines = 2
    HashFiles <- MCHashFiles
    Inputs <- MCAnyOutput
CHECK_DEADLOCK FALSE
PROPERTY NoConflict
