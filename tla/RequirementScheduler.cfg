CONSTANTS
    a = a
    b = b
    copy = copy
    convert = convert
    adapt = adapt
    copyLeaf = copyLeaf
    copyLeaf2 = copyLeaf2
    convertLeaf = convertLeaf
    adaptLeaf = adaptLeaf
    inner = inner
    outer = outer
    Owners = {a, b}
    Requirements = {copy, convert, adapt}
    OwnerOf <- OwnerOfRequirement
    Requests = {copyLeaf, copyLeaf2, convertLeaf, adaptLeaf, inner, outer}
    Children <- ChildrenOfRequest
    Demand <- DemandOfLeaf
    Selections <- SelectedSets
    CertifiedSets = {{copy}}
    Nobody = Nobody
SPECIFICATION Spec
INVARIANTS
    CountsExact
    OrphansAreTheDead
    LiveIsActive
    RemovedIsPending
    SettledAppliesLive
PROPERTIES
    ImplementsLiveness
