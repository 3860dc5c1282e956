-------------------------- MODULE MCArtifactGraph --------------------------
(***************************************************************************)
(* An instance of ArtifactGraph for TLC.  Two revisable owners may         *)
(* subscribe to each other (a cycle), to themselves and to a certified     *)
(* owner.  A facet that is present or absent gives two contents, enough    *)
(* for an artifact to come back to a contract it had.  The structures the  *)
(* graph keeps its sets in are checked on every input up to a size.        *)
(***************************************************************************)
EXTENDS ArtifactStorage

CONSTANTS a, b, lib, sig, v1

CertifiedSubscribable ==
    {{}, {<<a, sig>>}, {<<b, sig>>}, {<<a, sig>>, <<b, sig>>}, {<<lib, sig>>, <<b, sig>>}}
=============================================================================
