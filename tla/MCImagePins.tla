---------------------------- MODULE MCImagePins ----------------------------
(***************************************************************************)
(* Two artifacts of one team: with a name each, or an application and a    *)
(* resource that share one.  Nothing in the model orders repositories,     *)
(* digests or artifacts, and the properties treat them alike, so states    *)
(* that differ by a permutation of them count as one.                      *)
(***************************************************************************)
EXTENDS ImagePins, TLC

CONSTANTS app, other, web, api

AppNames == app :> web @@ other :> api
Namesakes == [a \in Artifact |-> web]

SwapArtifacts == (app :> other) @@ (other :> app) @@ (web :> api) @@ (api :> web)
Symmetric == Permutations(Repo) \cup Permutations(Digest) \cup {SwapArtifacts}

=============================================================================
