CONSTANTS
    e = e  a = a  b = b  p = p  q = q  s = s
    Texts = {e, a, b}
    Empty = e
    Unset = Unset
    MaxRequests = 2
    MaxEdits = 2
    MaxRevision = 3
    Keys = {p, q, s}
    LiveKeys = {p}
    MaxRegistrations = 2
    PreprocessConcurrency = 1
    TransferConcurrency = 1
    MaxFaults = 2
    MaxSwitches = 2
    MaxCommands = 2
    Scenes = {"saving"}
SPECIFICATION MCSpec
SYMMETRY Symmetric
CHECK_DEADLOCK FALSE
PROPERTY ConflictIsNeverOverwritten
