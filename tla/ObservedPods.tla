---------------------------- MODULE ObservedPods ----------------------------
(***************************************************************************)
(* What the solve loop may assume of the pods it reads (watch_state.rs): a *)
(* set that shows the cluster as it was at one moment, that never goes     *)
(* back to an earlier moment, and that catches up.  How a watch with       *)
(* relists, buffers and errors provides it is the matter of WatchState.    *)
(***************************************************************************)
EXTENDS Integers, Sequences

CONSTANTS Pod,          \* pods by key: a recreated pod is another one
          MaxChanges    \* bound: changes of the cluster

VARIABLES history,      \* the pods after each change, the first before any
          moment,       \* the element of history that is shown; 0 is none yet
          observed      \* the pods shown

vars == <<history, moment, observed>>

\* A pod is created in scope (pending, unbound, ours) or not; it leaves the scope
\* when it is bound or terminates, and stays out of it.
Status == {"unborn", "scoped", "other", "gone"}

InScope(pods) == {p \in Pod : pods[p] = "scoped"}

Successors(status) ==
    CASE status = "unborn" -> {"scoped", "other"}
      [] status = "scoped" -> {"other", "gone"}
      [] status = "other"  -> {"gone"}
      [] status = "gone"   -> {}

Latest == Len(history)

Init ==
    /\ history \in {<<pods>> : pods \in [Pod -> {"unborn", "scoped"}]}
    /\ moment = 0
    /\ observed = {}

Change ==
    /\ Latest <= MaxChanges
    /\ \E p \in Pod : \E status \in Successors(history[Latest][p]) :
           history' = Append(history, [history[Latest] EXCEPT ![p] = status])
    /\ UNCHANGED <<moment, observed>>

Show(m) ==
    /\ moment' = m
    /\ observed' = InScope(history[m])
    /\ UNCHANGED history

ShowLatest == moment < Latest /\ Show(Latest)

Next == Change \/ \E m \in 1..Latest : m >= moment /\ Show(m)

Safety == Init /\ [][Next]_vars

Spec == Safety /\ WF_vars(ShowLatest)
=============================================================================
