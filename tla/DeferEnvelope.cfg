CONSTANTS
    pushes = pushes
    fills = fills
    guards = guards
    plain = plain
    None = None
    Host = Host
    Unset = Unset
    Functions = {pushes, fills, guards, plain}
    Recovering = {guards, plain}
    Panics = {p, q}
    Storage <- StorageOf
    Slots <- SlotsOf
    Uses <- UsesOf
    MaxCalls = 5
    MaxDefers = 2
SYMMETRY Interchangeable
SPECIFICATION Spec
PROPERTIES
    ImplementsGoUnwinding
    HostExceptionsPass
