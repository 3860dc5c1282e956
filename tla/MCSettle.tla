------------------------------ MODULE MCSettle ------------------------------
(***************************************************************************)
(* Instances of Settle for TLC.  A program gives each owner a rule: the    *)
(* owner whose facet its build reads, what it makes of what it reads, and  *)
(* when it asks which requirement.  The rules combine into families of     *)
(* programs, each compiled in every order the queues allow.                *)
(***************************************************************************)
EXTENDS Settle, TLC

CONSTANTS a, b, c, g,                   \* owners of the cyclic programs
          p, q, h, i, j, x,               \* owners of the package programs
          needA, needB, needG, needI,   \* requirements, named for their owner
          needP, needQ, needH,
          surface, v1, v2

None == NoOwner

OwnerOfNeed ==
    [r \in Requirements |-> CASE r = needA -> a [] r = needB -> b
                              [] r = needG -> g [] r = needI -> i
                              [] r = needP -> p [] r = needQ -> q
                              [] r = needH -> h]

Other(v) == IF v = v1 THEN v2 ELSE v1

\* The content of the facet a build produces.
ContentOf(rule, selected, seen) ==
    CASE rule.makes = "constant" -> v1
      [] rule.makes = "copies" -> IF seen = Absent THEN v1 ELSE seen
      [] rule.makes = "negates" -> Other(seen)
      [] rule.makes = "selects" -> IF selected # {} THEN v2 ELSE v1
      [] rule.makes = "selectsOrNegates" ->
            IF selected # {} THEN v1 ELSE Other(seen)

Asks(rule, seen) ==
    CASE rule.when = "never" -> {}
      [] rule.when = "always" -> {rule.asks}
      [] rule.when = "untilV2" -> IF seen = v2 THEN {} ELSE {rule.asks}
      [] rule.when = "onceV2" -> IF seen = v2 THEN {rule.asks} ELSE {}

ReviseByRule(program, o, selected, view) ==
    LET rule == program[o]
        seen == IF rule.reads = None THEN Absent ELSE view[<<rule.reads, surface>>]
    IN  [contract |-> [f \in {surface} |-> ContentOf(rule, selected, seen)],
         dependencies |-> IF rule.reads = None THEN {} ELSE {<<rule.reads, surface>>},
         requests |-> Asks(rule, seen)]

ReviseMembers(program, members, view) ==
    [contract |-> [f \in {surface} |->
                      [m \in members |-> view[<<m, surface>>]]],
     dependencies |-> members \X {surface},
     requests |-> {}]

Rules(reads, makes, asks, when) ==
    [reads : reads, makes : makes, asks : asks, when : when]

Still == Rules({None}, {"constant", "selects"}, {None}, {"never"})

\* Two declarations that may read each other, request each other's or the
\* generated artifact's requirement, and stop requesting it; and a third that
\* may be dirty together with one of them and then demand it.
Asking(reads, asks) ==
    Still
    \cup Rules({None}, {"constant", "selects"}, asks, {"always"})
    \cup Rules({reads}, {"copies", "negates", "selects", "selectsOrNegates"},
               {None}, {"never"})
    \cup Rules({reads}, {"constant", "copies", "negates", "selects", "selectsOrNegates"},
               asks, {"always", "untilV2"})

AtRest == [reads |-> None, makes |-> "constant", asks |-> None, when |-> "never"]
\* The owners a program does not name are never built.
Extend(rules) == rules @@ [o \in Declarations \cup Initializers \cup Generated |-> AtRest]

CyclicPrograms ==
    {Extend(a :> ra @@ b :> rb @@ c :> rc @@ g :> rg) :
        ra \in Asking(b, {needB, needG}), rb \in Asking(a, {needA}),
        rc \in Rules({None}, {"constant"}, {None}, {"never"})
               \cup Rules({a}, {"copies"}, {needB}, {"onceV2"}),
        rg \in Rules({None}, {"constant"}, {None}, {"never"})
               \cup Rules({a}, {"copies"}, {needA}, {"always", "untilV2"})}

\* Mutually recursive declarations: what a reads of b settles its demand on
\* b, whose surface then goes back, and with it the demand returns.
SelfDefeating ==
    {Extend(a :> [reads |-> b, makes |-> "copies", asks |-> needB, when |-> "untilV2"]
            @@ b :> [reads |-> a, makes |-> "selects", asks |-> None, when |-> "never"])}

\* A package that exports p, and q once something reaches it, with two variable
\* initializers: i, and j, which may read i.  Reflection demands h when the exports of p are published,
\* and h reaches q.
PackagePrograms ==
    {Extend(p :> rp @@ q :> rq @@ h :> rh @@ i :> ri @@ j :> rj) :
        rp \in Still \cup Rules({None}, {"selects"}, {needH}, {"always"})
                 \cup Rules({q}, {"copies", "selects"}, {needQ}, {"always", "untilV2"}),
        rq \in Still \cup Rules({p}, {"copies", "negates", "selects"}, {None}, {"never"})
                 \cup Rules({p}, {"copies"}, {needP}, {"always", "untilV2"}),
        rh \in Rules({q}, {"constant", "copies"}, {needP, needQ}, {"always", "untilV2"}),
        ri \in Rules({p}, {"copies", "selects"}, {needI}, {"always", "untilV2"}),
        rj \in {AtRest} \cup Rules({i}, {"copies"}, {needP}, {"onceV2"})}

\* One of them: q joins the exports while h, which reads it and makes the
\* surface of a change, has yet to be rebuilt.
LateMember ==
    {Extend(p :> [reads |-> None, makes |-> "selects", asks |-> None, when |-> "never"]
            @@ h :> [reads |-> q, makes |-> "constant", asks |-> needP, when |-> "always"]
            @@ i :> [reads |-> p, makes |-> "selects", asks |-> needI, when |-> "always"])}

BothFamilies == CyclicPrograms \cup PackagePrograms

\* A package program is one whose initializer asks for something.
IsPackage(program) == program[i].asks # None
RootsOfProgram(program) ==
    IF IsPackage(program) THEN {p}
    ELSE {a, c}

ExportedByPackage == [d \in {p, q} |-> x]
BringsInitializer(o) ==
    IF o \in DOMAIN ExportedByPackage THEN {o, i, j}
    ELSE IF o \in Initializers THEN Initializers
    ELSE IF o \in Declarations THEN {o} ELSE {}
OneInitOrder(o) == Initializers
ReflectsAssembly(program, published) ==
    IF x \in published /\ program[p].makes = "selects" THEN {needH} ELSE {}
SurfacesAndExports ==
    {v1, v2} \cup UNION {[members -> {v1, v2, Absent}] : members \in SUBSET {p, q}}
=============================================================================
