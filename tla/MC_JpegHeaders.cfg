\* Tables and scans of every kind, two scans; and twenty-five streams, whole or
\* cut, two per instance.
SPECIFICATION MCSpec
CONSTANTS
    Markers <- MCMarkers
    AcLengths = {160, 162}
    TableIds <- MCTableIds
    QuantChoices <- MCQuantChoices
    Modes <- MCModes
    Fuses = {TRUE, FALSE}
    MaxScans = 2
    Streams <- MCStreams
    Near = {0, 1, 2, 3, 9}
    MaxPictures = 2
INVARIANTS
    TablesAgree
    WritesApart
    OwnTables
    InfoIsRight
    WalksAgree
PROPERTY WalksEnd
CHECK_DEADLOCK FALSE
