-------------------------- MODULE MCDeferEnvelope --------------------------
(***************************************************************************)
(* An instance of DeferEnvelope for TLC: a function with a defer stack and *)
(* one with two defer slots; each calls and defers a third, which has one  *)
(* slot, and a plain one, and both of those contain recover.               *)
(***************************************************************************)
EXTENDS DeferEnvelope, TLC

CONSTANTS pushes, fills, guards, plain

StorageOf == pushes :> "dynamic" @@ fills :> "static" @@ guards :> "static"
                @@ plain :> "none"
SlotsOf == pushes :> 0 @@ fills :> 2 @@ guards :> 1 @@ plain :> 0
UsesOf == pushes :> {guards, plain} @@ fills :> {guards, plain}
                @@ guards :> {guards, plain} @@ plain :> {}
Interchangeable == Permutations(Panics)
=============================================================================
