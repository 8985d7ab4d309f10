CONSTANTS
    MaxPushes = 3
    Unknown = {2}
SPECIFICATION Spec
PROPERTY StreamSpec
