------------------------------ MODULE MCRuntime ------------------------------
(***************************************************************************)
(* Model checking of the primitives on which the services wait: the read   *)
(* gate, the lazy batcher and the durability scheduler.  They share no     *)
(* state; the initial states choose which of them runs, so that one run    *)
(* explores each by itself.                                                *)
(***************************************************************************)
EXTENDS ReadGate, LazyBatcher, DurabilityScheduler

VARIABLE component

\* Calls of submit(): one with two devices, one that fills a batch, one that
\* wants no barrier, one of another ordering with a deadline.
Request(c, devices, order, size, kind) ==
    [by |-> c, targets |-> devices, ordering |-> order, bytes |-> size, class |-> kind, deadline |-> order = 2]
SubmitCalls == <<Request("a", {1, 2}, 1, 1, "LocalDurable"), Request("b", {1}, 1, 2, "LocalDurable"),
                 Request("a", {}, 1, 1, "LocalBuffered"), Request("c", {1}, 2, 1, "LocalDurable")>>

RuntimeInit ==
    /\ Init /\ BatcherInit /\ SchedulerInit
    /\ component \in {"gate", "batcher", "scheduler"}

runtimeVars == <<vars, batcherVars, schedulerVars, component>>

RuntimeNext ==
    \/ component = "gate" /\ Next /\ UNCHANGED <<batcherVars, schedulerVars, component>>
    \/ component = "batcher" /\ BatcherNext /\ UNCHANGED <<vars, schedulerVars, component>>
    \/ component = "scheduler" /\ SchedulerNext /\ UNCHANGED <<vars, batcherVars, component>>

RuntimeSpec ==
    RuntimeInit /\ [][RuntimeNext]_runtimeVars /\ Fairness /\ BatcherFairness /\ SchedulerFairness
=============================================================================
