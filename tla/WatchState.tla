----------------------------- MODULE WatchState -----------------------------
(***************************************************************************)
(* The set of pending pods the shadow loop solves for (watch_state.rs) and *)
(* the task that feeds it from a pod watch (shadow.rs).  The watch is      *)
(* kube-runtime's: it lists, follows the changes after the list, and lists *)
(* again when it lost track.  It is modelled as the task sees it.          *)
(***************************************************************************)
EXTENDS Integers, Sequences

CONSTANTS Pod, MaxChanges,
          NoPod,        \* no key of a pod
          MaxErrors     \* bound: errors and ends of the stream

ASSUME NoPodAssumption == NoPod \notin Pod

VARIABLES history,      \* the cluster, as in ObservedPods
          stream,       \* where the watch stands
          version,      \* the element of history it has reached
          pending,      \* listed pods not delivered yet
          observed,     \* WatchState.observed
          initBuffer,   \* WatchState.init_buffer
          healthy,      \* watch_healthy
          shown,        \* history: the element of history observed shows
          started,      \* history: Latest when the stream was created
          errors

state == <<observed, initBuffer, healthy, shown>>
watch == <<stream, version, pending, started, errors>>
vars  == <<history, state, watch>>

View == INSTANCE ObservedPods WITH moment <- shown

NoBuffer == {NoPod}     \* init_buffer when it is None

InScope(pods) == View!InScope(pods)
Latest        == Len(history)

-----------------------------------------------------------------------------
\* WatchState::apply, one operator for each kind of event.
OnInit_KeepsBuffer ==           \* continues the list that was broken off
    initBuffer' = IF initBuffer = NoBuffer THEN {} ELSE initBuffer

OnInit == initBuffer' = {}

Buffered == IF initBuffer = NoBuffer THEN {} ELSE initBuffer

OnInitApply(p, pods) ==
    initBuffer' = IF p \in InScope(pods) THEN Buffered \cup {p} ELSE initBuffer

OnInitDone_Copies ==            \* the buffer stays
    /\ observed' = IF initBuffer = NoBuffer THEN observed ELSE initBuffer
    /\ UNCHANGED initBuffer

OnInitDone ==
    /\ observed' = IF initBuffer = NoBuffer THEN observed ELSE initBuffer
    /\ initBuffer' = NoBuffer

\* A pod that left the scope is removed, whatever it was before.
OnApply(p, pods) ==
    observed' = IF p \in InScope(pods) THEN observed \cup {p} ELSE observed \ {p}

OnDelete(p) == observed' = observed \ {p}

-----------------------------------------------------------------------------
\* The watch task: the flag is lowered, then a new watch is created.
Restart ==
    /\ stream = "none"
    /\ healthy' = FALSE
    /\ stream' = "empty"
    /\ started' = Latest
    /\ UNCHANGED <<history, version, pending, errors, observed, initBuffer,
                   shown>>

InitArrives_RaisesFlag ==       \* healthy when the list begins
    /\ stream = "empty"
    /\ OnInit
    /\ healthy' = TRUE
    /\ stream' = "listing"
    /\ UNCHANGED <<history, version, pending, started, errors, observed,
                   shown>>

InitArrives ==
    /\ stream = "empty"
    /\ OnInit
    /\ stream' = "listing"
    /\ UNCHANGED <<history, version, pending, started, errors, observed,
                   healthy, shown>>

\* The API server lists the pods as they are now.
Listed ==
    /\ stream = "listing"
    /\ version' = Latest
    /\ pending' = {p \in Pod : history[Latest][p] \in {"scoped", "other"}}
    /\ stream' = "paging"
    /\ UNCHANGED <<history, started, errors, state>>

InitApplyArrives ==
    /\ stream = "paging"
    /\ \E p \in pending :
          /\ OnInitApply(p, history[version])
          /\ pending' = pending \ {p}
    /\ UNCHANGED <<history, stream, version, started, errors, observed,
                   healthy, shown>>

\* InitDone raises the flag before the buffer becomes the observed set.
InitDoneArrives ==
    /\ stream = "paging" /\ pending = {}
    /\ healthy' = TRUE
    /\ stream' = "finishing"
    /\ UNCHANGED <<history, version, pending, started, errors, observed,
                   initBuffer, shown>>

ApplyInitDone ==
    /\ stream = "finishing"
    /\ OnInitDone
    /\ shown' = version
    /\ stream' = "watching"
    /\ UNCHANGED <<history, version, pending, started, errors, healthy>>

ChangeArrives ==
    /\ stream = "watching"
    /\ version < Latest
    /\ version' = version + 1
    /\ \E p \in Pod :
          /\ history[version][p] # history[version + 1][p]
          /\ IF history[version + 1][p] = "gone"
             THEN OnDelete(p)
             ELSE OnApply(p, history[version + 1])
    /\ shown' = version + 1
    /\ UNCHANGED <<history, stream, pending, started, errors, initBuffer,
                   healthy>>

CanFail == errors < MaxErrors /\ stream # "finishing" /\ errors' = errors + 1

\* An error is only noted: neither the flag nor the pods change.  The watch lists
\* again when a list failed or its version is too old, else it goes on.
ErrorArrives ==
    /\ CanFail
    /\ \/ stream \in {"listing", "paging", "watching"} /\ stream' = "empty"
       \/ stream = "watching" /\ UNCHANGED stream
    /\ UNCHANGED <<history, version, pending, started, state>>

StreamEnds ==
    /\ CanFail
    /\ stream # "none"
    /\ healthy' = FALSE
    /\ stream' = "none"
    /\ UNCHANGED <<history, version, pending, started, observed, initBuffer,
                   shown>>

Change ==
    /\ View!Change
    /\ UNCHANGED <<initBuffer, healthy, watch>>

-----------------------------------------------------------------------------
Init ==
    /\ View!Init
    /\ stream = "none" /\ version = 0 /\ pending = {} /\ started = 0
    /\ initBuffer = NoBuffer
    /\ healthy = FALSE
    /\ errors = 0

Task == Restart \/ InitArrives \/ Listed \/ InitApplyArrives \/ InitDoneArrives
        \/ ApplyInitDone \/ ChangeArrives

Next == Task \/ ErrorArrives \/ StreamEnds \/ Change

\* The task is always polling, and the API server answers in the end.
Spec == Init /\ [][Next]_vars /\ WF_vars(Task)

-----------------------------------------------------------------------------
TypeOK ==
    /\ history \in Seq([Pod -> View!Status])
    /\ stream \in {"none", "empty", "listing", "paging", "finishing", "watching"}
    /\ version \in 0..Latest /\ started \in 0..Latest /\ shown \in 0..version
    /\ pending \subseteq Pod
    /\ observed \subseteq Pod
    /\ initBuffer = NoBuffer \/ (initBuffer \subseteq Pod /\ stream # "watching")
    /\ healthy \in BOOLEAN
    /\ errors \in Nat

\* The loop reads the pods of one moment, moments follow each other, and the last
\* one is shown in the end: relists, broken lists and restarts do not mix events.
ShowsMoments == View!Spec

\* Once the flag is up and the list applied, the pods shown are not older than the
\* watch that shows them: a restart is not healthy on what the last watch left.
HealthyIsListed == healthy /\ stream # "finishing" => shown >= started /\ shown > 0
=============================================================================
