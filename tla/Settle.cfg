CONSTANTS
    a = a
    b = b
    c = c
    g = g
    p = p
    q = q
    h = h
    i = i
    j = j
    x = x
    needA = needA
    needB = needB
    needG = needG
    needI = needI
    needP = needP
    needQ = needQ
    needH = needH
    surface = surface
    v1 = v1
    v2 = v2
    Absent = Absent
    NoOwner = NoOwner
    Declarations = {a, b, c, p, q}
    Initializers = {i, j}
    Generated = {g, h}
    Assemblies = {x}
    Facets = {surface}
    Values <- SurfacesAndExports
    Requirements = {needA, needB, needG, needI, needP, needQ, needH}
    OwnerOf <- OwnerOfNeed
    Programs <- BothFamilies
    RootObjects <- RootsOfProgram
    RootRequirements = {}
    Brings <- BringsInitializer
    InitOrder <- OneInitOrder
    ExportedBy <- ExportedByPackage
    Revise <- ReviseByRule
    ReviseExports <- ReviseMembers
    Reflects <- ReflectsAssembly
CHECK_DEADLOCK FALSE
SPECIFICATION FairSpec
INVARIANTS
    NeverRefused
    SettledIsFixpoint
    SettledIsClosed
PROPERTIES
    WithdrawnForGood
    EndsOnceAuthorityIsSpent
