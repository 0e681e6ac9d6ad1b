-------------------------- MODULE WatchStateProofs --------------------------
(***************************************************************************)
(* The watch task shows moments of the cluster in their order, for any     *)
(* pods, changes, errors and restarts.  That the last moment is shown in   *)
(* the end is liveness and stays with TLC.                                 *)
(***************************************************************************)
EXTENDS WatchState, TLAPS

\* Two successive elements of history differ in one pod.
OneChange(old, new) ==
    \E p \in Pod : \E status \in View!Status : new = [old EXCEPT ![p] = status]

HistoryOk ==
    /\ Latest >= 1
    /\ \A v \in 1..(Latest - 1) : OneChange(history[v], history[v + 1])

\* What is shown is a moment of the cluster.
ShownOk ==
    /\ shown = 0 => observed = {}
    /\ shown > 0 => observed = InScope(history[shown])

\* How far the watch is with the list or the changes it has reached.
StreamOk ==
    /\ stream = "finishing" => pending = {}
    /\ stream = "listing" => initBuffer = {}
    /\ stream \in {"paging", "finishing"} =>
           /\ version >= 1 /\ version >= started
           /\ initBuffer = InScope(history[version]) \ pending
    /\ stream = "watching" =>
           /\ version >= 1 /\ version >= started
           /\ shown = version

\* The flag is up only for what the current watch has listed.
FlagOk ==
    healthy => /\ stream # "none"
               /\ stream = "finishing" \/ (shown >= started /\ shown > 0)

IInv == TypeOK /\ HistoryOk /\ ShownOk /\ StreamOk /\ FlagOk

-----------------------------------------------------------------------------
(* What is in scope is a set of pods, never the mark of a missing buffer. *)
LEMMA ScopeIsPods == \A pods : InScope(pods) \subseteq Pod /\ InScope(pods) # NoBuffer
BY NoPodAssumption DEF InScope, View!InScope, NoBuffer

(* The watch starts within the invariant, showing what the view may show
   first. *)
LEMMA InitInv == Init => IInv /\ View!Init
<1> SUFFICES ASSUME Init PROVE IInv /\ View!Init
    OBVIOUS
<1>1. PICK pods \in [Pod -> {"unborn", "scoped"}] : history = <<pods>>
    BY DEF Init, View!Init
<1> shown = 0 /\ observed = {}
    BY DEF Init, View!Init
<1>2. history \in Seq([Pod -> View!Status]) /\ Len(history) = 1
    BY <1>1 DEF View!Status
<1>3. healthy \in BOOLEAN /\ ~ healthy
    BY DEF Init
<1>4. /\ stream = "none" /\ version = 0 /\ pending = {} /\ started = 0
      /\ initBuffer = NoBuffer /\ errors = 0
    BY DEF Init
<1>5. TypeOK
    BY <1>2, <1>3, <1>4 DEF TypeOK, Latest
<1>6. View!Init
    BY DEF Init
<1> QED BY <1>2, <1>3, <1>4, <1>5, <1>6 DEF IInv, HistoryOk, ShownOk, StreamOk, FlagOk, Latest

\* A change of the cluster adds an element and leaves those before it.
LEMMA ChangeExtends ==
    ASSUME IInv, Change
    PROVE  /\ history' \in Seq([Pod -> View!Status])
           /\ Len(history') = Latest + 1
           /\ \A v \in 1..Latest : history'[v] = history[v]
           /\ OneChange(history[Latest], history'[Latest + 1])
<1>1. /\ history \in Seq([Pod -> View!Status]) /\ Latest \in Nat /\ Latest >= 1
    BY DEF IInv, TypeOK, HistoryOk, Latest
<1>2. PICK p \in Pod : \E status \in View!Successors(history[Latest][p]) :
         history' = Append(history, [history[Latest] EXCEPT ![p] = status])
    BY DEF Change, View!Change, View!Latest, Latest
<1>3. history[Latest] \in [Pod -> View!Status]
    BY <1>1 DEF Latest
<1>4. PICK status \in View!Status :
         history' = Append(history, [history[Latest] EXCEPT ![p] = status])
    BY <1>2, <1>3 DEF View!Successors, View!Status
<1>5. [history[Latest] EXCEPT ![p] = status] \in [Pod -> View!Status]
    BY <1>3, <1>4
<1>6. /\ history' \in Seq([Pod -> View!Status]) /\ Len(history') = Latest + 1
      /\ \A v \in 1..Latest : history'[v] = history[v]
      /\ history'[Latest + 1] = [history[Latest] EXCEPT ![p] = status]
    BY <1>1, <1>4, <1>5 DEF Latest
<1> QED BY <1>4, <1>6 DEF OneChange

(* A change of the cluster keeps the invariant and is a step of the view. *)
LEMMA ChangeInv ==
    ASSUME IInv, Change
    PROVE  IInv' /\ View!Next
<1>1. /\ UNCHANGED <<initBuffer, healthy, shown, observed, watch>>
      /\ View!Change
    BY DEF Change, View!Change
<1>2. /\ history' \in Seq([Pod -> View!Status])
      /\ Latest' = Latest + 1 /\ Latest \in Nat
      /\ \A v \in 1..Latest : history'[v] = history[v]
      /\ OneChange(history[Latest], history'[Latest + 1])
    BY ChangeExtends DEF Latest, IInv, TypeOK
<1>3. TypeOK'
    BY <1>1, <1>2 DEF IInv, TypeOK, watch
<1>4. HistoryOk'
  <2>1. ASSUME NEW v \in 1..(Latest' - 1)
        PROVE  OneChange(history'[v], history'[v + 1])
    <3>1. CASE v = Latest
      BY <1>2, <3>1 DEF IInv, HistoryOk
    <3>2. CASE v # Latest
      <4>1. v \in 1..(Latest - 1) /\ v \in 1..Latest /\ v + 1 \in 1..Latest
        BY <1>2, <3>2
      <4> QED BY <1>2, <4>1 DEF IInv, HistoryOk
    <3> QED BY <3>1, <3>2
  <2> QED BY <1>2, <2>1 DEF IInv, HistoryOk
<1>5. ShownOk' /\ StreamOk' /\ FlagOk'
    BY <1>1, <1>2 DEF IInv, TypeOK, ShownOk, StreamOk, FlagOk, watch
<1> QED BY <1>1, <1>3, <1>4, <1>5 DEF IInv, View!Next

-----------------------------------------------------------------------------
\* Steps of the task that show nothing new.
LEMMA QuietInv ==
    ASSUME IInv, Restart \/ InitArrives \/ Listed \/ InitApplyArrives
                   \/ InitDoneArrives \/ ErrorArrives \/ StreamEnds
    PROVE  IInv' /\ UNCHANGED View!vars
<1> USE DEF IInv, TypeOK, HistoryOk, ShownOk, StreamOk, FlagOk, Latest
<1>1. UNCHANGED <<history, observed, shown>>
    BY DEF Restart, InitArrives, Listed, InitApplyArrives, InitDoneArrives,
       ErrorArrives, StreamEnds, CanFail, state
<1>2. ASSUME Restart PROVE IInv'
  <2>1. healthy' \in BOOLEAN /\ ~ healthy'
    BY <1>2, Zenon DEF Restart
  <2>2. /\ stream' = "empty" /\ started' = Latest
        /\ UNCHANGED <<version, pending, errors, initBuffer>>
    BY <1>2 DEF Restart
  <2> QED BY <1>1, <2>1, <2>2
<1>3. ASSUME InitArrives PROVE IInv'
    BY <1>1, <1>3 DEF InitArrives, OnInit
<1>4. ASSUME Listed PROVE IInv'
    BY <1>1, <1>4 DEF Listed, state, InScope, View!InScope
<1>5. ASSUME InitApplyArrives PROVE IInv'
  <2>1. /\ stream = "paging" /\ stream' = stream
        /\ UNCHANGED <<version, started, errors, healthy>>
    BY <1>5 DEF InitApplyArrives
  <2>2. PICK p \in pending : /\ OnInitApply(p, history[version])
                             /\ pending' = pending \ {p}
    BY <1>5 DEF InitApplyArrives
  <2>3. /\ InScope(history[version]) \subseteq Pod
        /\ InScope(history[version]) \ pending # NoBuffer
    BY NoPodAssumption DEF InScope, View!InScope, NoBuffer
  <2>4. initBuffer = InScope(history[version]) \ pending
    BY <2>1
  <2>5. initBuffer' = InScope(history[version]) \ pending'
    BY <2>2, <2>3, <2>4 DEF OnInitApply, Buffered
  <2> QED BY <1>1, <2>1, <2>2, <2>3, <2>5
<1>6. ASSUME InitDoneArrives PROVE IInv'
    BY <1>1, <1>6 DEF InitDoneArrives
<1>7. ASSUME ErrorArrives PROVE IInv'
    BY <1>1, <1>7 DEF ErrorArrives, CanFail, state
<1>8. ASSUME StreamEnds PROVE IInv'
  <2>1. healthy' \in BOOLEAN /\ ~ healthy'
    BY <1>8, Zenon DEF StreamEnds
  <2>2. /\ stream' = "none" /\ errors' = errors + 1
        /\ UNCHANGED <<version, pending, started, initBuffer>>
    BY <1>8 DEF StreamEnds, CanFail
  <2> QED BY <1>1, <2>1, <2>2
<1>9. IInv'
    BY <1>2, <1>3, <1>4, <1>5, <1>6, <1>7, <1>8
<1> QED BY <1>1, <1>9 DEF View!vars

\* The list becomes visible at once, whole and of one moment.
LEMMA ApplyInitDoneInv ==
    ASSUME IInv, ApplyInitDone
    PROVE  IInv' /\ View!Next
<1>1. stream = "finishing" /\ pending = {} /\ version >= 1 /\ version >= started
    BY DEF ApplyInitDone, IInv, StreamOk
<1>2. /\ version \in 1..Latest /\ started \in Nat /\ Latest \in Nat
      /\ shown <= version /\ shown \in Nat
    BY <1>1 DEF IInv, TypeOK, Latest
<1>3. /\ initBuffer = InScope(history[version]) \ pending
      /\ InScope(history[version]) \subseteq Pod
      /\ InScope(history[version]) # NoBuffer
    BY <1>1, ScopeIsPods DEF IInv, StreamOk
<1>4. initBuffer = InScope(history[version]) /\ initBuffer # NoBuffer
    BY <1>1, <1>3
<1>5. /\ observed' = InScope(history[version]) /\ shown' = version
      /\ initBuffer' = NoBuffer /\ stream' = "watching"
      /\ UNCHANGED <<history, version, pending, started, errors, healthy>>
    BY <1>4 DEF ApplyInitDone, OnInitDone
<1>6. IInv'
    BY <1>1, <1>2, <1>3, <1>5
       DEF IInv, TypeOK, HistoryOk, ShownOk, StreamOk, FlagOk, Latest
<1> QED BY <1>2, <1>5, <1>6 DEF View!Next, View!Show, View!Latest, Latest, InScope

\* One change takes the pods shown from one moment to the next.
LEMMA ChangeArrivesInv ==
    ASSUME IInv, ChangeArrives
    PROVE  IInv' /\ View!Next
<1>1. /\ stream = "watching" /\ version \in 1..(Latest - 1) /\ shown = version
      /\ version \in Nat /\ Latest \in Nat /\ started \in Nat /\ version >= started
      /\ observed = InScope(history[version])
      /\ history \in Seq([Pod -> View!Status])
    BY DEF ChangeArrives, IInv, StreamOk, ShownOk, TypeOK, Latest
<1>2. /\ history[version] \in [Pod -> View!Status]
      /\ history[version + 1] \in [Pod -> View!Status]
    BY <1>1 DEF Latest
<1>3. PICK q \in Pod, status \in View!Status :
         history[version + 1] = [history[version] EXCEPT ![q] = status]
    BY <1>1 DEF IInv, HistoryOk, OneChange
<1>4. PICK p \in Pod : /\ history[version][p] # history[version + 1][p]
                       /\ IF history[version + 1][p] = "gone"
                          THEN OnDelete(p)
                          ELSE OnApply(p, history[version + 1])
    BY DEF ChangeArrives
<1>5. p = q
    BY <1>2, <1>3, <1>4
<1>6. observed' = InScope(history[version + 1])
    BY <1>1, <1>2, <1>3, <1>4, <1>5
       DEF OnDelete, OnApply, InScope, View!InScope
<1>7. /\ version' = version + 1 /\ shown' = version + 1
      /\ UNCHANGED <<history, stream, pending, started, errors, initBuffer,
                     healthy>>
    BY DEF ChangeArrives
<1>8. IInv'
    BY <1>1, <1>6, <1>7, ScopeIsPods
       DEF IInv, TypeOK, HistoryOk, ShownOk, StreamOk, FlagOk, Latest
<1> QED BY <1>1, <1>6, <1>7, <1>8 DEF View!Next, View!Show, View!Latest, Latest, InScope

(* Every step keeps the invariant and is a step of the view or none. *)
LEMMA NextInv == IInv /\ [Next]_vars => IInv' /\ [View!Next]_View!vars
<1> SUFFICES ASSUME IInv, [Next]_vars PROVE IInv' /\ [View!Next]_View!vars
    OBVIOUS
<1>1. CASE UNCHANGED vars
    BY <1>1 DEF vars, state, watch, View!vars, IInv, TypeOK, HistoryOk, ShownOk,
                StreamOk, FlagOk, Latest
<1>2. CASE Next
    BY <1>2, QuietInv, ApplyInitDoneInv, ChangeArrivesInv, ChangeInv DEF Next, Task
<1> QED BY <1>1, <1>2

(* watch_state.rs: the watch task's state stays well formed. *)
THEOREM TypeCorrect == Spec => []TypeOK
<1>1. IInv => TypeOK
    BY DEF IInv
<1> QED BY <1>1, InitInv, NextInv, PTL DEF Spec

\* A restarted watch is not reported healthy before its own list was complete.
THEOREM FlagIsHonest == Spec => []HealthyIsListed
<1>1. IInv => HealthyIsListed
    BY DEF IInv, FlagOk, HealthyIsListed
<1> QED BY <1>1, InitInv, NextInv, PTL DEF Spec

\* The watch task implements the view the solve loop relies on: what it reads is
\* the cluster of one moment, never an earlier one than before.
THEOREM ShowsMomentsInOrder == Spec => View!Safety
BY InitInv, NextInv, PTL DEF Spec, View!Safety
=============================================================================
