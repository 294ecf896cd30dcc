SPECIFICATION Spec
CONSTANTS
    Retries = 4
    OffReads = {0}
    Kills = TRUE
INVARIANT ResumeMeansAwake
