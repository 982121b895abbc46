---------------------------- MODULE CommittedLog ----------------------------
(***************************************************************************)
(* What a partition promises its consumers: one sequence of committed      *)
(* records that only ever grows at its end.  No record of it is changed,   *)
(* reordered or lost by a failover, a reassignment or a recovery.          *)
(***************************************************************************)
EXTENDS Sequences, SequencesExt

VARIABLE prefix     \* the committed records, in offset order

Init == prefix = <<>>

Extend == prefix # prefix' /\ IsPrefix(prefix, prefix')

Spec == Init /\ [][Extend]_prefix
=============================================================================
