---------------------------- MODULE MCBlockStore ----------------------------
(***************************************************************************)
(* Two threads put one native block at the same time; no crash, no damage. *)
(***************************************************************************)
EXTENDS BlockStore, TLC

BlockKinds == ("n" :> "native")
Duplicates == {[duplicates |-> TRUE, lateMarks |-> FALSE, restarts |-> 0, crashes |-> 0, failures |-> 0, corruptions |-> 0]}
=============================================================================
