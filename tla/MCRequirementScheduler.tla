----------------------- MODULE MCRequirementScheduler -----------------------
(***************************************************************************)
(* An instance of RequirementScheduler for TLC: three requirements of two  *)
(* owners, one of them carried by two leaves; a sequence that names a leaf *)
(* twice, and a sequence that holds that sequence.  Both consumers may     *)
(* select any of the listed sets, so requests are shared between           *)
(* consumers, between sequences, and within one, and a batch of the first  *)
(* owner may carry an addition and a removal.                              *)
(***************************************************************************)
EXTENDS RequirementScheduler, TLC

CONSTANTS a, b, copy, convert, adapt,
          copyLeaf, copyLeaf2, convertLeaf, adaptLeaf, inner, outer

OwnerOfRequirement == copy :> a @@ convert :> a @@ adapt :> b

ChildrenOfRequest ==
    copyLeaf :> <<>> @@ copyLeaf2 :> <<>> @@ convertLeaf :> <<>> @@ adaptLeaf :> <<>>
    @@ inner :> <<copyLeaf, adaptLeaf, copyLeaf>>
    @@ outer :> <<inner, copyLeaf2>>

DemandOfLeaf ==
    copyLeaf :> copy @@ copyLeaf2 :> copy @@ convertLeaf :> convert
    @@ adaptLeaf :> adapt

SelectedSets ==
    {{}, {copyLeaf}, {convertLeaf}, {inner}, {outer}, {copyLeaf2, inner},
     {copyLeaf, adaptLeaf, outer}}
=============================================================================
