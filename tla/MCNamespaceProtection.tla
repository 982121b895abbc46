----------------------- MODULE MCNamespaceProtection -----------------------
(* Instances of NamespaceProtection small enough to explore.              *)
EXTENDS NamespaceProtection, TLC

\* A window of one revision, which a lagging state record outlasts, and one
\* that reaches as far back as the record may lag.
Window(k) == [keep |-> k, cadence |-> 2, client |-> "puts", faults |-> 1]
ShortRetention == {Window(1)}
LongRetention == {Window(2)}
Contents == Permutations(Roots)
=============================================================================
