CONSTANTS
    a = a
    b = b
    lib = lib
    sig = sig
    v1 = v1
    Absent = Absent
    Owners = {a, b, lib}
    Facets = {sig}
    Values = {v1}
    Certified = {lib}
    Subscribable <- CertifiedSubscribable
CHECK_DEADLOCK FALSE
SPECIFICATION Spec
INVARIANTS
    TypeOK
    ReverseIndexExact
    CleanConsumersAreCurrent
    AuthorityOnlyWhileDirty
    QueueStaysOrdered
    BatchesComeInOrder
    OldContractsAreKnown
PROPERTIES
    OnlySubscribersInvalidated
    RevisitsHandAuthorityOn
