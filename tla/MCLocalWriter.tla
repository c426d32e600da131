---------------------------- MODULE MCLocalWriter ----------------------------
(* Finite instances of LocalWriter. *)
EXTENDS LocalWriter, TLC

CONSTANTS w1, w2

\* One writer syncs the directory as well, which may fail after the rename.
MixedSync == w1 :> "none" @@ w2 :> "all"
NoSync == [w \in Writers |-> "none"]
=============================================================================
