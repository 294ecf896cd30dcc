SPECIFICATION Spec
CONSTANTS
    Retries = 4
    OffReads = {0}
    Kills = TRUE
INVARIANTS RailsInOrder PowerUpWorks ResumeWakes
PROPERTY TakenDownOnPurpose
