CONSTANTS
    MaxPushes = 3
    Unknown = {2}
SPECIFICATION Spec
INVARIANT TypeOK SingleConnection
PROPERTY StreamSafety
