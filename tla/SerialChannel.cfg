CONSTANTS
    chan = chan
    tick = tick
    v1 = v1
    v2 = v2
    Nil = Nil
    NoValue = NoValue
    Nothing = Nothing
    Nowhere = Nowhere
    Channels = {chan, tick}
    Providers = {tick}
    Values = {v1, v2}
    Capacity <- CapacityOf
    CompactAt = 1
    Usable <- Used
    MaxCases = 2
    Observers = {o1, o2}
SYMMETRY Interchangeable
SPECIFICATION Spec
INVARIANTS
    RetentionIsBounded
    ObserversAreServed
PROPERTIES
    ImplementsGoChannel
