SPECIFICATION MigrationSpec
CONSTANTS
    Apps = {a1}
    Last = 1
    Nobody = none
    MaxStarts = 2
CHECK_DEADLOCK FALSE
PROPERTY DownUndoes
