---------------------------- MODULE BinderProofs ----------------------------
(***************************************************************************)
(* The binder's safety for any plan, pods, groups and limits, and however  *)
(* many calls fail or land late (BinderPass); and, from there, that of the *)
(* loop that solves, reserves and runs it (ShadowPass), for any placement  *)
(* the solver may return.                                                  *)
(*                                                                         *)
(* In the loop the invariant is LoopInv, further down: what a node runs    *)
(* and what reservations may still bring to it fit there together (Room).  *)
(***************************************************************************)
EXTENDS BinderPass, ShadowPass, Sums

\* Where the pass stands: every step but the first and the last works on an
\* entry of the plan, and no more binds are counted than entries are behind.
Position ==
    /\ pc \notin {"next", "done"} => i <= Len(plan)
    /\ pc = "preflight" => Current.group \in seen
    /\ applied < i
    /\ faults \in Nat

LocalTypes ==
    /\ pc \in {"next", "preflight", "admit", "get", "post", "confirm", "done"}
    /\ i \in 1..(Len(plan) + 1)
    /\ seen \subseteq Group /\ skipped \subseteq seen
    /\ cache \in [Pod -> PodView]
    /\ applied \in 0..Len(plan)
    /\ outcomes \in Seq(Result) /\ Len(outcomes) = i - 1
    /\ horizon \in Nat

WorldTypes ==
    /\ live \in [Pod -> PodView]
    /\ nextUid \in Nat
    /\ late \subseteq [entry : Entry, index : Nat, since : Nat]
    /\ mutations \subseteq [entry : Nat, uid : Nat, since : Nat, during : Nat]

PlanTypes == plan \in Seq(Entry) /\ blocked \in BOOLEAN

Placed == PlanTypes /\ LocalTypes /\ WorldTypes /\ Position

(* Placed is the type invariant with the loop's position. *)
LEMMA PlacedIsTyped == Placed <=> TypeOK /\ Position
BY DEF Placed, PlanTypes, LocalTypes, WorldTypes, TypeOK

(* While the loop runs, the current entry is one of the plan. *)
LEMMA CurrentIsEntry ==
    ASSUME Placed, pc \notin {"next", "done"} \/ InPlan
    PROVE  Current \in Entry /\ i \in DOMAIN plan /\ i \in Nat
BY DEF Placed, PlanTypes, LocalTypes, Position, InPlan, Current

-----------------------------------------------------------------------------
(* The pass starts well placed. *)
LEMMA InitPlaced == PassInit => Placed
<1> SUFFICES ASSUME PassInit PROVE Placed
    OBVIOUS
<1>1. PICK order \in Bijection(1..Cardinality(Pod), Pod), odd \in [Pod -> Oddity] :
         /\ live = [p \in Pod |->
                [uid |-> CHOOSE k \in 1..Cardinality(Pod) : order[k] = p,
                 node |-> NoNode, deleting |-> FALSE,
                 kind |-> IF odd[p] \in Kind THEN odd[p] ELSE "ours"]]
         /\ plan = [k \in 1..Cardinality(Pod) |->
                [pod |-> order[k], uid |-> k,
                 group |-> WorkloadOf[order[k]], node |-> Target[order[k]],
                 gpus |-> IF odd[order[k]] = "big" THEN LowRiskGpus + 1 ELSE 1,
                 ready |-> odd[order[k]] # "stale"]]
    BY DEF PassInit
<1>2. Cardinality(Pod) \in Nat
    BY PodsAssumption, FS_CardinalityType
<1>3. /\ order \in [1..Cardinality(Pod) -> Pod]
      /\ \A p \in Pod : \E k \in 1..Cardinality(Pod) : order[k] = p
    BY DEF Bijection, Injection, Surjection
<1>4. ASSUME NEW k \in 1..Cardinality(Pod)
      PROVE  [pod |-> order[k], uid |-> k,
              group |-> WorkloadOf[order[k]], node |-> Target[order[k]],
              gpus |-> IF odd[order[k]] = "big" THEN LowRiskGpus + 1 ELSE 1,
              ready |-> odd[order[k]] # "stale"] \in Entry
  <2>1. order[k] \in Pod /\ k \in Nat
    BY <1>2, <1>3
  <2>2. (IF odd[order[k]] = "big" THEN LowRiskGpus + 1 ELSE 1) \in Nat
    BY PolicyAssumption
  <2>3. WorkloadOf[order[k]] \in Group \cup {NoGroup} /\ Target[order[k]] \in Node
    BY <2>1, PlanAssumption
  <2> QED BY <2>1, <2>2, <2>3 DEF Entry
<1>5. plan \in [1..Cardinality(Pod) -> Entry]
    BY <1>1, <1>4
<1>6. plan \in Seq(Entry) /\ Len(plan) = Cardinality(Pod)
    BY <1>2, <1>5
<1>7. live \in [Pod -> PodView]
  <2>1. ASSUME NEW p \in Pod
        PROVE  /\ (CHOOSE k \in 1..Cardinality(Pod) : order[k] = p) \in Nat
               /\ (IF odd[p] \in Kind THEN odd[p] ELSE "ours") \in Kind
    BY <1>2, <1>3 DEF Kind
  <2> QED BY <1>1, <2>1 DEF PodView
<1>8. cache \in [Pod -> PodView]
    BY DEF PassInit, Unread, PodView, Kind
<1>9. PlanTypes /\ WorldTypes
    BY <1>2, <1>6, <1>7 DEF PassInit, PlanTypes, WorldTypes
<1>10. LocalTypes /\ Position
    BY <1>2, <1>6, <1>8 DEF PassInit, LocalTypes, Position
<1> QED BY <1>9, <1>10 DEF Placed

-----------------------------------------------------------------------------
\* What every action leaves of the pods, the plan and the history.
LEMMA PersistTypes ==
    ASSUME WorldTypes, NEW e \in Entry, NEW k \in Nat, NEW since \in Nat, i \in Nat,
           Accepts(e.pod), Persist(e, k, since)
    PROVE  /\ live' \in [Pod -> PodView]
           /\ mutations' \subseteq [entry : Nat, uid : Nat, since : Nat, during : Nat]
<1>1. /\ e.pod \in Pod /\ e.node \in Node
      /\ live[e.pod] \in PodView
    BY DEF Entry, WorldTypes
<1>2. OnNode(live[e.pod], e.node) \in PodView /\ live[e.pod].uid \in Nat
    BY <1>1 DEF OnNode, PodView
<1>3. CASE DryRun
    BY <1>3 DEF Persist, WorldTypes
<1>4. CASE ~DryRun
  <2>1. live' \in [Pod -> PodView]
    BY <1>2, <1>4 DEF Persist, WorldTypes
  <2>2. [entry |-> k, uid |-> live[e.pod].uid, since |-> since, during |-> i]
            \in [entry : Nat, uid : Nat, since : Nat, during : Nat]
    BY <1>2
  <2> QED BY <1>4, <2>1, <2>2 DEF Persist, WorldTypes
<1> QED BY <1>3, <1>4

(* A result appended for the current entry moves the loop on by one. *)
LEMMA ReportTypes ==
    ASSUME Placed, i <= Len(plan), NEW result \in Result, Report(result),
           applied' \in {applied, applied + 1}, UNCHANGED plan
    PROVE  /\ pc' = "next"
           /\ i' \in 1..(Len(plan') + 1)
           /\ outcomes' \in Seq(Result) /\ Len(outcomes') = i' - 1
           /\ applied' \in 0..Len(plan') /\ applied' < i'
<1>1. /\ plan \in Seq(Entry) /\ Len(plan) \in Nat
      /\ i \in 1..(Len(plan) + 1)
      /\ outcomes \in Seq(Result) /\ Len(outcomes) = i - 1
      /\ applied \in 0..Len(plan) /\ applied < i
    BY DEF Placed, PlanTypes, LocalTypes, Position
<1>2. outcomes' \in Seq(Result) /\ Len(outcomes') = Len(outcomes) + 1
    BY <1>1 DEF Report
<1> QED BY <1>1, <1>2 DEF Report

\* The plan of a pass never changes under it.
LEMMA PlanFixed == [PassNext]_vars => UNCHANGED <<plan, blocked>>
BY DEF PassNext, Step, Others, PodsChange, vars, world, locals,
       Finish, SkipRefused, SkipLargeGroup, StartPreflight, Continue,
       ReadMember, ReadMemberFails, JudgeGroup, Admit, FinalCheck,
       FinalCheckFails, PostAccepted, PostRejected, PostFails, Confirm,
       ConfirmFails, BoundByOther, Terminates, Disappears, Recreated,
       LatePostArrives, SkipGroup

(* Steps that leave the cluster alone keep its types. *)
LEMMA WorldStays == WorldTypes /\ UNCHANGED <<world, mutations>> => WorldTypes'
BY DEF WorldTypes, world

\* The steps between the plan and the POST change nothing but the locals.
LEMMA LocalStepPlaced ==
    ASSUME Placed,
           \/ Finish \/ SkipRefused \/ SkipLargeGroup \/ StartPreflight \/ Continue
           \/ ReadMember \/ ReadMemberFails \/ JudgeGroup
           \/ Admit \/ FinalCheck \/ FinalCheckFails
           \/ PostRejected \/ Confirm \/ ConfirmFails
    PROVE  Placed' /\ UNCHANGED <<world, mutations>>
<1> USE DEF Result
<1>1. /\ PlanTypes /\ LocalTypes /\ WorldTypes /\ Position
      /\ plan \in Seq(Entry) /\ Len(plan) \in Nat
    BY DEF Placed, PlanTypes
<1>2. ASSUME UNCHANGED <<world, mutations, plan, blocked>>, LocalTypes', Position'
      PROVE  Placed' /\ UNCHANGED <<world, mutations>>
    BY <1>1, <1>2, WorldStays DEF Placed, PlanTypes
<1>3. ASSUME Finish PROVE Placed' /\ UNCHANGED <<world, mutations>>
    BY <1>1, <1>2, <1>3 DEF Finish, LocalTypes, Position, world
<1>4. ASSUME SkipRefused PROVE Placed' /\ UNCHANGED <<world, mutations>>
    BY <1>1, <1>2, <1>4, ReportTypes DEF SkipRefused, InPlan, LocalTypes, Position, world
<1>5. ASSUME SkipLargeGroup PROVE Placed' /\ UNCHANGED <<world, mutations>>
  <2>1. Current.group \in Group
    BY <1>5, CurrentIsEntry DEF SkipLargeGroup, FirstSight, Entry
  <2> QED BY <1>1, <1>2, <1>5, <2>1, ReportTypes
             DEF SkipLargeGroup, InPlan, LocalTypes, Position, world
<1>6. ASSUME StartPreflight PROVE Placed' /\ UNCHANGED <<world, mutations>>
  <2>1. Current.group \in Group
    BY <1>6, CurrentIsEntry DEF StartPreflight, FirstSight, Entry
  <2> QED BY <1>1, <1>2, <1>6, <2>1
             DEF StartPreflight, InPlan, Current, LocalTypes, Position, world
<1>7. ASSUME Continue PROVE Placed' /\ UNCHANGED <<world, mutations>>
    BY <1>1, <1>2, <1>7 DEF Continue, InPlan, LocalTypes, Position, world
<1>8. ASSUME ReadMember PROVE Placed' /\ UNCHANGED <<world, mutations>>
  <2>1. cache' \in [Pod -> PodView]
    BY <1>1, <1>8 DEF ReadMember, LocalTypes, WorldTypes
  <2> QED BY <1>1, <1>2, <1>8, <2>1 DEF ReadMember, Current, LocalTypes, Position, world
<1>9. ASSUME ReadMemberFails PROVE Placed' /\ UNCHANGED <<world, mutations>>
    BY <1>1, <1>2, <1>9, ReportTypes
       DEF ReadMemberFails, SkipGroup, LocalTypes, Position, world
<1>10. ASSUME JudgeGroup PROVE Placed' /\ UNCHANGED <<world, mutations>>
  <2>1. CASE Preflighted(Current.group)
    BY <1>1, <1>2, <1>10, <2>1 DEF JudgeGroup, LocalTypes, Position, world
  <2>2. CASE ~Preflighted(Current.group)
    BY <1>1, <1>2, <1>10, <2>2, ReportTypes
       DEF JudgeGroup, SkipGroup, LocalTypes, Position, world
  <2> QED BY <2>1, <2>2
<1>11. ASSUME Admit PROVE Placed' /\ UNCHANGED <<world, mutations>>
    BY <1>1, <1>2, <1>11, ReportTypes DEF Admit, LocalTypes, Position, world
<1>12. ASSUME FinalCheck PROVE Placed' /\ UNCHANGED <<world, mutations>>
  <2>1. horizon' \in Nat
    BY <1>1, <1>12 DEF FinalCheck, WorldTypes
  <2> QED BY <1>1, <1>2, <1>12, <2>1, ReportTypes
             DEF FinalCheck, LocalTypes, Position, world
<1>13. ASSUME FinalCheckFails PROVE Placed' /\ UNCHANGED <<world, mutations>>
    BY <1>1, <1>2, <1>13, ReportTypes DEF FinalCheckFails, LocalTypes, Position, world
<1>14. ASSUME PostRejected PROVE Placed' /\ UNCHANGED <<world, mutations>>
    BY <1>1, <1>2, <1>14, ReportTypes
       DEF PostRejected, AfterPostError, LocalTypes, Position, world
<1>15. ASSUME Confirm PROVE Placed' /\ UNCHANGED <<world, mutations>>
    BY <1>1, <1>2, <1>15, ReportTypes DEF Confirm, LocalTypes, Position, world
<1>16. ASSUME ConfirmFails PROVE Placed' /\ UNCHANGED <<world, mutations>>
    BY <1>1, <1>2, <1>16, ReportTypes DEF ConfirmFails, LocalTypes, Position, world
<1> QED BY <1>3, <1>4, <1>5, <1>6, <1>7, <1>8, <1>9, <1>10, <1>11, <1>12, <1>13,
           <1>14, <1>15, <1>16

(* An answered or failed POST keeps the loop's position. *)
LEMMA PostPlaced ==
    ASSUME Placed, PostAccepted \/ PostFails
    PROVE  Placed'
<1> USE DEF Result
<1>1. /\ PlanTypes /\ LocalTypes /\ WorldTypes /\ Position
      /\ plan \in Seq(Entry) /\ Len(plan) \in Nat
      /\ i \in Nat /\ horizon \in Nat
    BY DEF Placed, PlanTypes, LocalTypes
<1>2. Current \in Entry
    BY CurrentIsEntry DEF PostAccepted, PostFails
<1>3. CASE PostAccepted
  <2>1. /\ live' \in [Pod -> PodView]
        /\ mutations' \subseteq [entry : Nat, uid : Nat, since : Nat, during : Nat]
    BY <1>1, <1>2, <1>3, PersistTypes DEF PostAccepted
  <2>2. WorldTypes' /\ PlanTypes'
    BY <1>1, <1>3, <2>1 DEF PostAccepted, WorldTypes, PlanTypes
  <2>3. LocalTypes' /\ Position'
    BY <1>1, <1>3, ReportTypes DEF PostAccepted, LocalTypes, Position
  <2> QED BY <2>2, <2>3 DEF Placed
<1>4. CASE PostFails
  <2>1. /\ live' \in [Pod -> PodView]
        /\ mutations' \subseteq [entry : Nat, uid : Nat, since : Nat, during : Nat]
        /\ late' \subseteq [entry : Entry, index : Nat, since : Nat]
    <3>1. CASE Accepts(Current.pod) /\ Persist(Current, i, horizon) /\ UNCHANGED late
      BY <1>1, <1>2, <3>1, PersistTypes DEF WorldTypes
    <3>2. CASE UNCHANGED <<live, mutations, late>>
      BY <1>1, <3>2 DEF WorldTypes
    <3>3. CASE /\ late' = late \cup {[entry |-> Current, index |-> i, since |-> horizon]}
               /\ UNCHANGED <<live, mutations>>
      BY <1>1, <1>2, <3>3 DEF WorldTypes
    <3> QED BY <1>4, <3>1, <3>2, <3>3 DEF PostFails
  <2>2. WorldTypes' /\ PlanTypes'
    BY <1>1, <1>4, <2>1 DEF PostFails, WorldTypes, PlanTypes
  <2>3. LocalTypes' /\ Position'
    BY <1>1, <1>4, ReportTypes DEF PostFails, AfterPostError, LocalTypes, Position
  <2> QED BY <2>2, <2>3 DEF Placed
<1> QED BY <1>3, <1>4

(* What others do to the cluster does not move the loop. *)
LEMMA OthersPlaced ==
    ASSUME Placed, Others
    PROVE  Placed'
<1>1. /\ PlanTypes /\ LocalTypes /\ WorldTypes /\ Position
      /\ i \in Nat
    BY DEF Placed, LocalTypes
<1>2. ASSUME UNCHANGED <<locals, faults>>, live' \in [Pod -> PodView],
             nextUid' \in Nat, UNCHANGED late
      PROVE  Placed'
    BY <1>1, <1>2 DEF Placed, PlanTypes, LocalTypes, WorldTypes, Position, Current, locals
<1>3. ASSUME NEW p \in Pod, NEW n \in Node, BoundByOther(p, n)
      PROVE  Placed'
  <2>1. OnNode(live[p], n) \in PodView
    BY <1>1 DEF OnNode, PodView, WorldTypes
  <2> QED BY <1>1, <1>2, <1>3, <2>1 DEF BoundByOther, WorldTypes
<1>4. ASSUME NEW p \in Pod, Terminates(p)
      PROVE  Placed'
  <2>1. [uid |-> live[p].uid, node |-> live[p].node, deleting |-> TRUE,
         kind |-> live[p].kind] \in PodView
    BY <1>1 DEF PodView, WorldTypes
  <2> QED BY <1>1, <1>2, <1>4, <2>1 DEF Terminates, WorldTypes
<1>5. ASSUME NEW p \in Pod, Disappears(p)
      PROVE  Placed'
  <2>1. Gone \in PodView
    BY DEF Gone, Fresh, PodView, Kind
  <2> QED BY <1>1, <1>2, <1>5, <2>1 DEF Disappears, WorldTypes
<1>6. ASSUME NEW p \in Pod, Recreated(p)
      PROVE  Placed'
  <2>1. Fresh(nextUid) \in PodView
    BY <1>1 DEF Fresh, PodView, Kind, WorldTypes
  <2> QED BY <1>1, <1>2, <1>6, <2>1 DEF Recreated, WorldTypes
<1>7. ASSUME NEW l \in late, LatePostArrives(l)
      PROVE  Placed'
  <2>1. l.entry \in Entry /\ l.index \in Nat /\ l.since \in Nat
    BY <1>1 DEF WorldTypes
  <2>2. /\ live' \in [Pod -> PodView]
        /\ mutations' \subseteq [entry : Nat, uid : Nat, since : Nat, during : Nat]
    <3>1. CASE Accepts(l.entry.pod)
      BY <1>1, <1>7, <2>1, <3>1, PersistTypes DEF LatePostArrives
    <3>2. CASE ~Accepts(l.entry.pod)
      BY <1>1, <1>7, <3>2 DEF LatePostArrives, WorldTypes
    <3> QED BY <3>1, <3>2
  <2>3. WorldTypes' /\ PlanTypes'
    BY <1>1, <1>7, <2>2 DEF LatePostArrives, WorldTypes, PlanTypes
  <2>4. LocalTypes' /\ Position'
    BY <1>1, <1>7 DEF LatePostArrives, LocalTypes, Position, Current
  <2> QED BY <2>3, <2>4 DEF Placed
<1> QED BY <1>3, <1>4, <1>5, <1>6, <1>7 DEF Others, PodsChange

(* Every step keeps the position. *)
LEMMA NextPlaced == Placed /\ [PassNext]_vars => Placed'
<1> SUFFICES ASSUME Placed, [PassNext]_vars PROVE Placed'
    OBVIOUS
<1>1. CASE Step
    BY <1>1, LocalStepPlaced, PostPlaced DEF Step
<1>2. CASE Others
    BY <1>2, OthersPlaced
<1>3. CASE UNCHANGED vars
    BY <1>3 DEF vars, world, locals, Placed, PlanTypes, LocalTypes, WorldTypes,
                Position, Current
<1> QED BY <1>1, <1>2, <1>3 DEF PassNext

\* The pass stays where it can be, on an entry of its plan, with one result for
\* each entry behind it.
THEOREM TypeCorrect == PassSpec => []TypeOK
<1>1. PassSpec => []Placed
    BY InitPlaced, NextPlaced, PTL DEF PassSpec
<1>2. Placed => TypeOK
    BY PlacedIsTyped
<1> QED BY <1>1, <1>2, PTL

-----------------------------------------------------------------------------
\* A pod that was vetted stays the one that was vetted, or goes and comes back
\* with a uid the API server had not given out at the time.
LEMMA UidsMove ==
    ASSUME Placed, [PassNext]_vars
    PROVE  /\ nextUid' \in {nextUid, nextUid + 1}
           /\ \A p \in Pod : live'[p].uid \in {live[p].uid, 0, nextUid}
<1>1. live \in [Pod -> PodView] /\ nextUid \in Nat
    BY DEF Placed, WorldTypes
<1>2. ASSUME UNCHANGED live, UNCHANGED nextUid
      PROVE  /\ nextUid' \in {nextUid, nextUid + 1}
             /\ \A p \in Pod : live'[p].uid \in {live[p].uid, 0, nextUid}
    BY <1>2
<1>3. ASSUME NEW e, NEW k, NEW since, Persist(e, k, since), UNCHANGED nextUid
      PROVE  /\ nextUid' \in {nextUid, nextUid + 1}
             /\ \A p \in Pod : live'[p].uid \in {live[p].uid, 0, nextUid}
    BY <1>1, <1>3 DEF Persist, OnNode
<1>4. CASE PostAccepted
    BY <1>3, <1>4 DEF PostAccepted
<1>5. CASE PostFails
    BY <1>2, <1>3, <1>5 DEF PostFails
<1>6. CASE \/ Finish \/ SkipRefused \/ SkipLargeGroup \/ StartPreflight \/ Continue
           \/ ReadMember \/ ReadMemberFails \/ JudgeGroup
           \/ Admit \/ FinalCheck \/ FinalCheckFails
           \/ PostRejected \/ Confirm \/ ConfirmFails
    BY <1>2, <1>6, LocalStepPlaced DEF world
<1>7. ASSUME NEW l \in late, LatePostArrives(l)
      PROVE  /\ nextUid' \in {nextUid, nextUid + 1}
             /\ \A p \in Pod : live'[p].uid \in {live[p].uid, 0, nextUid}
    BY <1>2, <1>3, <1>7 DEF LatePostArrives
<1>8. CASE \E p \in Pod, n \in Node : BoundByOther(p, n)
    BY <1>1, <1>8 DEF BoundByOther, OnNode
<1>9. CASE PodsChange
    BY <1>1, <1>9 DEF PodsChange, Terminates, Disappears, Recreated, Gone, Fresh
<1>10. CASE UNCHANGED vars
    BY <1>2, <1>10 DEF vars, world
<1> QED BY <1>4, <1>5, <1>6, <1>7, <1>8, <1>9, <1>10 DEF PassNext, Step, Others

\* The entry was judged by a GET made when uids below since had been given out.
Vetted(e, since) ==
    /\ e.ready
    /\ ~CanaryRefuses(e)
    /\ live[e.pod].uid \in {0, e.uid} \/ live[e.pod].uid >= since

\* What the final GET showed holds of the POST about to go out and of every POST
\* on its way.
Vetting ==
    /\ horizon <= nextUid
    /\ pc \in {"get", "post"} => ~CanaryRefuses(Current)
    /\ pc = "post" => Vetted(Current, horizon)
    /\ \A l \in late : /\ l.index \in DOMAIN plan /\ l.entry = plan[l.index]
                       /\ l.since <= nextUid
                       /\ Vetted(l.entry, l.since)
    /\ \A m \in mutations : m.entry \in DOMAIN plan
    /\ FinalCheckVets

(* What was checked of an entry keeps holding of the incarnation it was
   checked of. *)
LEMMA VettedStays ==
    ASSUME Placed, [PassNext]_vars, NEW e \in Entry, NEW since \in Nat,
           since <= nextUid, Vetted(e, since)
    PROVE  Vetted(e, since)'
<1>1. /\ e.pod \in Pod /\ live \in [Pod -> PodView] /\ nextUid \in Nat
      /\ live[e.pod].uid \in Nat
    BY DEF Entry, Placed, WorldTypes, PodView
<1>2. live'[e.pod].uid \in {live[e.pod].uid, 0, nextUid}
    BY <1>1, UidsMove
<1> QED BY <1>1, <1>2 DEF Vetted, CanaryRefuses

\* A vetted POST that lands hits the pod that was vetted, or a younger one.
LEMMA LandingVets ==
    ASSUME Placed, Vetting, NEW k \in DOMAIN plan, NEW since, Vetted(plan[k], since),
           Accepts(plan[k].pod), Persist(plan[k], k, since), UNCHANGED plan
    PROVE  FinalCheckVets' /\ \A m \in mutations' : m.entry \in DOMAIN plan'
<1>1. CASE DryRun
    BY <1>1 DEF Persist, Vetting, FinalCheckVets, CanaryRefuses
<1>2. CASE ~DryRun
  <2>1. mutations' = mutations \cup
            {[entry |-> k, uid |-> live[plan[k].pod].uid, since |-> since, during |-> i]}
    BY <1>2 DEF Persist
  <2>2. live[plan[k].pod].uid = plan[k].uid \/ live[plan[k].pod].uid >= since
    BY DEF Vetted, Accepts
  <2>3. plan[k].ready /\ ~CanaryRefuses(plan[k])
    BY DEF Vetted
  <2> QED BY <2>1, <2>2, <2>3 DEF Vetting, FinalCheckVets, CanaryRefuses
<1> QED BY <1>1, <1>2

(* Every step keeps what the checks established. *)
LEMMA NextVetting == Placed /\ Vetting /\ [PassNext]_vars => Vetting'
<1> SUFFICES ASSUME Placed, Vetting, [PassNext]_vars PROVE Vetting'
    OBVIOUS
<1>1. /\ plan' = plan /\ plan \in Seq(Entry)
      /\ nextUid \in Nat /\ nextUid' \in {nextUid, nextUid + 1}
      /\ horizon \in Nat
      /\ late \subseteq [entry : Entry, index : Nat, since : Nat]
    BY PlanFixed, UidsMove DEF Placed, PlanTypes, WorldTypes, LocalTypes
<1>2. ASSUME NEW l \in late
      PROVE  /\ l.index \in DOMAIN plan' /\ l.entry = plan'[l.index]
             /\ l.since <= nextUid'
             /\ Vetted(l.entry, l.since)'
  <2>1. l.entry \in Entry /\ l.since \in Nat
    BY <1>1
  <2>2. l.since <= nextUid /\ Vetted(l.entry, l.since)
    BY DEF Vetting
  <2>3. Vetted(l.entry, l.since)'
    BY <2>1, <2>2, VettedStays
  <2> QED BY <1>1, <2>1, <2>2, <2>3 DEF Vetting
<1>3. ASSUME pc = "post", pc' = "post", UNCHANGED <<i, horizon>>
      PROVE  Vetted(Current, horizon)'
  <2>1. Current \in Entry
    BY <1>3, CurrentIsEntry
  <2>2. Vetted(Current, horizon) /\ horizon <= nextUid
    BY <1>3 DEF Vetting
  <2> QED BY <1>1, <1>3, <2>1, <2>2, UidsMove
             DEF Vetted, Current, CanaryRefuses, Entry, Placed, WorldTypes, PodView
<1>4. FinalCheckVets /\ \A m \in mutations : m.entry \in DOMAIN plan
    BY DEF Vetting
<1>5. UNCHANGED mutations =>
         FinalCheckVets' /\ \A m \in mutations' : m.entry \in DOMAIN plan'
    BY <1>1, <1>4 DEF FinalCheckVets, CanaryRefuses
<1>6. horizon <= nextUid /\ (pc \in {"get", "post"} => ~CanaryRefuses(Current))
    BY DEF Vetting
<1>7. ASSUME UNCHANGED <<late, mutations, horizon>>, pc' \notin {"get", "post"}
      PROVE  Vetting'
    BY <1>1, <1>2, <1>5, <1>6, <1>7 DEF Vetting
<1>8. CASE \/ Finish \/ SkipRefused \/ SkipLargeGroup \/ StartPreflight \/ Continue
           \/ ReadMember \/ ReadMemberFails \/ JudgeGroup
           \/ FinalCheckFails \/ PostRejected \/ Confirm \/ ConfirmFails
    BY <1>7, <1>8 DEF Finish, SkipRefused, SkipLargeGroup, StartPreflight, Continue,
       ReadMember, ReadMemberFails, JudgeGroup, FinalCheckFails, PostRejected,
       Confirm, ConfirmFails, Report, SkipGroup, AfterPostError, world
<1>9. CASE Admit
  <2>1. CASE CanaryRefuses(Current) \/ applied >= MaxBinds
    BY <1>7, <1>9, <2>1 DEF Admit, Report, world
  <2>2. CASE ~(CanaryRefuses(Current) \/ applied >= MaxBinds)
    <3>1. pc' = "get" /\ UNCHANGED <<i, late, mutations, horizon>>
      BY <1>9, <2>2 DEF Admit, world
    <3>2. ~CanaryRefuses(Current)'
      BY <1>1, <2>2, <3>1 DEF CanaryRefuses, Current
    <3> QED BY <1>1, <1>2, <1>5, <1>6, <3>1, <3>2 DEF Vetting
  <2> QED BY <2>1, <2>2
<1>10. CASE FinalCheck
  <2>1. /\ pc = "get" /\ horizon' = nextUid
        /\ UNCHANGED <<live, nextUid, late, mutations>>
    BY <1>10 DEF FinalCheck, world
  <2>2. CASE ShouldApply(Current, live[Current.pod])
    <3>1. pc' = "post" /\ i' = i
      BY <1>10, <2>2 DEF FinalCheck
    <3>2. Current.ready /\ live[Current.pod].uid = Current.uid
          /\ ~CanaryRefuses(Current)
      BY <1>6, <2>1, <2>2 DEF ShouldApply
    <3>3. Vetted(Current, horizon)' /\ ~CanaryRefuses(Current)'
      BY <1>1, <2>1, <3>1, <3>2 DEF Vetted, CanaryRefuses, Current
    <3> QED BY <1>1, <1>2, <1>5, <2>1, <3>1, <3>3 DEF Vetting
  <2>3. CASE ~ShouldApply(Current, live[Current.pod])
    BY <1>1, <1>2, <1>5, <1>10, <2>1, <2>3 DEF FinalCheck, Report, Vetting
  <2> QED BY <2>2, <2>3
<1>11. CASE PostAccepted
  <2>1. /\ pc = "post" /\ pc' = "next" /\ UNCHANGED <<late, horizon>>
        /\ Accepts(plan[i].pod) /\ Persist(plan[i], i, horizon)
    BY <1>11 DEF PostAccepted, Report, Current
  <2>2. i \in DOMAIN plan /\ Vetted(plan[i], horizon)
    BY <2>1, CurrentIsEntry DEF Vetting, Current
  <2>3. FinalCheckVets' /\ \A m \in mutations' : m.entry \in DOMAIN plan'
    BY <1>1, <2>1, <2>2, LandingVets
  <2> QED BY <1>1, <1>2, <1>6, <2>1, <2>3 DEF Vetting
<1>12. CASE PostFails
  <2>1. /\ pc = "post" /\ pc' \in {"next", "confirm"} /\ UNCHANGED <<nextUid, horizon>>
    BY <1>12 DEF PostFails, AfterPostError, Report
  <2>2. i \in DOMAIN plan /\ Vetted(plan[i], horizon) /\ Current \in Entry
    BY <2>1, CurrentIsEntry DEF Vetting, Current
  <2>3. CASE Accepts(Current.pod) /\ Persist(Current, i, horizon) /\ UNCHANGED late
    <3>1. FinalCheckVets' /\ \A m \in mutations' : m.entry \in DOMAIN plan'
      BY <1>1, <2>2, <2>3, LandingVets DEF Current
    <3> QED BY <1>1, <1>2, <1>6, <2>1, <2>3, <3>1 DEF Vetting
  <2>4. CASE UNCHANGED <<live, mutations, late>>
    BY <1>7, <2>1, <2>4
  <2>5. CASE /\ late' = late \cup {[entry |-> Current, index |-> i, since |-> horizon]}
             /\ UNCHANGED <<live, mutations>>
    <3>1. PICK e \in Entry, k \in DOMAIN plan, since \in Nat :
             e = plan[k] /\ k = i /\ since = horizon
      BY <1>1, <2>2 DEF Current
    <3>2. Vetted(e, since) /\ since <= nextUid
      BY <1>6, <2>2, <3>1
    <3>3. Vetted(e, since)'
      BY <3>2, VettedStays
    <3>4. late' = late \cup {[entry |-> e, index |-> k, since |-> since]}
      BY <2>5, <3>1 DEF Current
    <3>5. ASSUME NEW l \in late'
          PROVE  /\ l.index \in DOMAIN plan' /\ l.entry = plan'[l.index]
                 /\ l.since <= nextUid'
                 /\ Vetted(l.entry, l.since)'
      <4>1. CASE l = [entry |-> e, index |-> k, since |-> since]
        BY <1>1, <3>1, <3>2, <3>3, <4>1
      <4> QED BY <1>2, <3>4, <4>1
    <3> QED BY <1>1, <1>5, <1>6, <2>1, <2>5, <3>5 DEF Vetting
  <2> QED BY <1>12, <2>3, <2>4, <2>5 DEF PostFails
<1>13. ASSUME UNCHANGED <<pc, i, horizon>>, late' \subseteq late,
              FinalCheckVets', \A m \in mutations' : m.entry \in DOMAIN plan'
       PROVE  Vetting'
  <2>1. Current' = Current
    BY <1>1, <1>13 DEF Current
  <2>2. pc' \in {"get", "post"} => ~CanaryRefuses(Current)'
    BY <1>6, <1>13, <2>1 DEF CanaryRefuses
  <2> QED BY <1>1, <1>2, <1>3, <1>6, <1>13, <2>2 DEF Vetting
<1>14. CASE PodsChange \/ \E p \in Pod, n \in Node : BoundByOther(p, n)
    BY <1>5, <1>13, <1>14 DEF PodsChange, Terminates, Disappears, Recreated,
       BoundByOther, locals
<1>15. ASSUME NEW l \in late, LatePostArrives(l) PROVE Vetting'
  <2>1. /\ l.index \in DOMAIN plan /\ l.entry = plan[l.index]
        /\ Vetted(plan[l.index], l.since)
    BY DEF Vetting
  <2>2. CASE Accepts(l.entry.pod)
    <3>1. FinalCheckVets' /\ \A m \in mutations' : m.entry \in DOMAIN plan'
      BY <1>1, <1>15, <2>1, <2>2, LandingVets DEF LatePostArrives
    <3> QED BY <1>13, <1>15, <3>1 DEF LatePostArrives
  <2>3. CASE ~Accepts(l.entry.pod)
    BY <1>5, <1>13, <1>15, <2>3 DEF LatePostArrives
  <2> QED BY <2>2, <2>3
<1>16. CASE UNCHANGED vars
    BY <1>5, <1>13, <1>16 DEF vars, world, locals
<1> QED BY <1>8, <1>9, <1>10, <1>11, <1>12, <1>14, <1>15, <1>16
           DEF PassNext, Step, Others

\* The window between the final GET and the POST is all that is open: a bind hits
\* the vetted pod or one created after it was vetted, by a ready entry the canary
\* policy lets pass, however late the POST lands.
THEOREM BindsAreVetted == PassSpec => []FinalCheckVets
<1>1. PassInit => Vetting
    BY PodsAssumption, FS_CardinalityType DEF PassInit, Vetting, FinalCheckVets
<1>2. Vetting => FinalCheckVets
    BY DEF Vetting
<1> QED BY <1>1, <1>2, InitPlaced, NextPlaced, NextVetting, PTL DEF PassSpec

-----------------------------------------------------------------------------
\* Each bind, landed or on its way, is counted by the throttle or by a failed call.
Counting ==
    /\ IsFiniteSet(mutations) /\ IsFiniteSet(late)
    /\ Cardinality(mutations) + Cardinality(late) <= applied + faults
    /\ applied <= MaxBinds
    /\ pc \in {"get", "post", "confirm"} => applied < MaxBinds

(* One more element adds at most one to a finite count. *)
LEMMA AddingCounts ==
    ASSUME NEW S, NEW x, IsFiniteSet(S)
    PROVE  /\ IsFiniteSet(S \cup {x})
           /\ Cardinality(S) \in Nat /\ Cardinality(S \cup {x}) \in Nat
           /\ Cardinality(S \cup {x}) <= Cardinality(S) + 1
<1>1. Cardinality(S) \in Nat
    BY FS_CardinalityType
<1>2. CASE x \in S
  <2>1. S \cup {x} = S
    BY <1>2
  <2>2. IsFiniteSet(S \cup {x}) /\ Cardinality(S \cup {x}) = Cardinality(S)
    BY <2>1
  <2> QED BY <1>1, <2>2
<1>3. CASE x \notin S
    BY <1>1, <1>3, FS_AddElement
<1> QED BY <1>2, <1>3

(* A binding that lands adds at most one mutation. *)
LEMMA LandingCounts ==
    ASSUME Counting, NEW e, NEW k, NEW since, Persist(e, k, since)
    PROVE  /\ IsFiniteSet(mutations')
           /\ Cardinality(mutations) \in Nat /\ Cardinality(mutations') \in Nat
           /\ Cardinality(mutations') <= Cardinality(mutations) + 1
<1>1. CASE DryRun
    BY <1>1, FS_CardinalityType DEF Persist, Counting
<1>2. CASE ~DryRun
  <2>1. PICK m : mutations' = mutations \cup {m}
    BY <1>2 DEF Persist
  <2> QED BY <2>1, AddingCounts DEF Counting
<1> QED BY <1>1, <1>2

(* Every step keeps the count of mutations within the accepted and the late
   POSTs. *)
LEMMA NextCounting == Placed /\ Counting /\ [PassNext]_vars => Counting'
<1> SUFFICES ASSUME Placed, Counting, [PassNext]_vars PROVE Counting'
    OBVIOUS
<1>1. /\ applied \in Nat /\ faults \in Nat /\ MaxBinds \in Nat
      /\ Cardinality(mutations) \in Nat /\ Cardinality(late) \in Nat
    BY FS_CardinalityType, PolicyAssumption
       DEF Placed, LocalTypes, PlanTypes, Position, Counting
<1>2. ASSUME UNCHANGED <<mutations, late, applied>>, faults' \in {faults, faults + 1},
             pc' \in {"get", "post", "confirm"} => pc \in {"get", "post", "confirm"}
      PROVE  Counting'
    BY <1>1, <1>2 DEF Counting
<1>3. CASE \/ Finish \/ SkipRefused \/ SkipLargeGroup \/ StartPreflight \/ Continue
           \/ ReadMember \/ ReadMemberFails \/ JudgeGroup \/ FinalCheck
           \/ FinalCheckFails \/ PostRejected \/ ConfirmFails
    BY <1>2, <1>3 DEF Finish, SkipRefused, SkipLargeGroup, StartPreflight, Continue,
       ReadMember, ReadMemberFails, JudgeGroup, FinalCheck, FinalCheckFails,
       PostRejected, ConfirmFails, Report, SkipGroup, AfterPostError, world
<1>4. CASE Admit
    BY <1>1, <1>4 DEF Admit, Report, Counting, world
<1>5. CASE PostAccepted
  <2>1. /\ Persist(Current, i, horizon) /\ pc = "post" /\ pc' = "next"
        /\ applied' = applied + 1 /\ UNCHANGED <<late, faults>>
    BY <1>5 DEF PostAccepted, Report
  <2> QED BY <1>1, <2>1, LandingCounts DEF Counting
<1>6. CASE PostFails
  <2>1. /\ pc = "post" /\ faults' = faults + 1 /\ UNCHANGED applied
    BY <1>6 DEF PostFails
  <2>2. CASE Persist(Current, i, horizon) /\ UNCHANGED late
    BY <1>1, <2>1, <2>2, LandingCounts DEF Counting
  <2>3. CASE UNCHANGED <<live, mutations, late>>
    BY <1>2, <2>1, <2>3
  <2>4. CASE /\ late' = late \cup {[entry |-> Current, index |-> i, since |-> horizon]}
             /\ UNCHANGED <<live, mutations>>
    BY <1>1, <2>1, <2>4, AddingCounts DEF Counting
  <2> QED BY <1>6, <2>2, <2>3, <2>4 DEF PostFails
<1>7. CASE Confirm
    BY <1>1, <1>7 DEF Confirm, Report, Counting, world
<1>8. ASSUME NEW l \in late, LatePostArrives(l) PROVE Counting'
  <2>1. /\ IsFiniteSet(late') /\ Cardinality(late') = Cardinality(late) - 1
    BY <1>8, FS_RemoveElement DEF LatePostArrives, Counting
  <2>2. UNCHANGED <<applied, faults, pc>>
    BY <1>8 DEF LatePostArrives
  <2>3. CASE Persist(l.entry, l.index, l.since)
    BY <1>1, <2>1, <2>2, <2>3, LandingCounts DEF Counting
  <2>4. CASE UNCHANGED <<live, mutations>>
    BY <1>1, <2>1, <2>2, <2>4 DEF Counting
  <2> QED BY <1>8, <2>3, <2>4 DEF LatePostArrives
<1>9. CASE PodsChange \/ \E p \in Pod, n \in Node : BoundByOther(p, n)
    BY <1>2, <1>9 DEF PodsChange, Terminates, Disappears, Recreated, BoundByOther, locals
<1>10. CASE UNCHANGED vars
    BY <1>2, <1>10 DEF vars, world, locals
<1> QED BY <1>3, <1>4, <1>5, <1>6, <1>7, <1>8, <1>9, <1>10 DEF PassNext, Step, Others

\* max_binds_per_pass bounds the binds that land, now or later, up to one for
\* each call whose answer was lost.
THEOREM PassIsThrottled == PassSpec => []Throttled
<1>1. PassInit => Counting
    BY FS_EmptySet, PolicyAssumption DEF PassInit, Counting
<1>2. Counting /\ Placed => Throttled
  <2>1. ASSUME Counting, Placed PROVE Throttled
    <3>1. /\ Cardinality(mutations) \in Nat /\ Cardinality(late) \in Nat
          /\ applied \in Nat /\ faults \in Nat /\ MaxBinds \in Nat
      BY <2>1, FS_CardinalityType, PolicyAssumption
         DEF Counting, Placed, LocalTypes, PlanTypes, Position
    <3> QED BY <2>1, <3>1 DEF Counting, Throttled
  <2> QED BY <2>1
<1> QED BY <1>1, <1>2, InitPlaced, NextPlaced, NextCounting, PTL DEF PassSpec

-----------------------------------------------------------------------------
\* A single pod, or a group whose members were all found small and bindable.
Whole(g) ==
    g # NoGroup /\ GroupSize(g) > 1 =>
        \A k \in Members(g) : /\ ~CanaryRefuses(plan[k])
                              /\ ShouldApply(plan[k], cache[plan[k].pod])

\* A group that was seen and not sealed has been vetted, unless it is being vetted
\* right now; only such groups get as far as a POST.
SeenIsWhole ==
    \A g \in seen \ skipped : Whole(g) \/ (pc = "preflight" /\ Current.group = g)

HereIsWhole ==
    /\ pc = "preflight" => ~StaticallySkipped(Current.group)
    /\ pc \in {"admit", "get", "post"} => Whole(Current.group)

SentIsWhole ==
    /\ \A l \in late : Whole(plan[l.index].group)
    /\ \A m \in mutations : Whole(plan[m.entry].group)

Grouping == SeenIsWhole /\ HereIsWhole /\ SentIsWhole

\* What was read of a pod is not read again in the pass.
LEMMA WholeStays ==
    ASSUME Placed, [PassNext]_vars, NEW g, Whole(g)
    PROVE  Whole(g)'
<1>1. plan' = plan /\ plan \in Seq(Entry) /\ cache \in [Pod -> PodView]
    BY PlanFixed DEF Placed, PlanTypes, LocalTypes
<1>2. \A p \in Pod : cache[p] = Unread \/ cache'[p] = cache[p]
  <2>1. CASE ReadMember
    <3>1. PICK k \in UnreadMembers : cache' = [cache EXCEPT ![plan[k].pod] = live[plan[k].pod]]
      BY <2>1 DEF ReadMember
    <3> QED BY <1>1, <3>1 DEF UnreadMembers
  <2>2. CASE ~ReadMember
    BY <2>2 DEF PassNext, Step, Others, PodsChange, vars, world, locals,
       Finish, SkipRefused, SkipLargeGroup, StartPreflight, Continue,
       ReadMemberFails, JudgeGroup, Admit, FinalCheck, FinalCheckFails,
       PostAccepted, PostRejected, PostFails, Confirm, ConfirmFails,
       BoundByOther, Terminates, Disappears, Recreated, LatePostArrives
  <2> QED BY <2>1, <2>2
<1>3. ASSUME NEW k \in DOMAIN plan, ShouldApply(plan[k], cache[plan[k].pod])
      PROVE  cache'[plan[k].pod] = cache[plan[k].pod]
  <2>1. plan[k] \in Entry
    BY <1>1
  <2>2. cache[plan[k].pod] # Unread
    BY <1>3 DEF ShouldApply, Unread
  <2> QED BY <1>2, <2>1, <2>2 DEF Entry
<1> QED BY <1>1, <1>3 DEF Whole, Members, GroupSize, CanaryRefuses

(* The preflight of a group, once done, is remembered. *)
LEMMA GroupOfEntryStays ==
    ASSUME Placed, [PassNext]_vars, NEW k \in DOMAIN plan, Whole(plan[k].group)
    PROVE  Whole(plan[k].group)'
<1>1. PICK g : g = plan[k].group
    OBVIOUS
<1>2. Whole(g)'
    BY <1>1, WholeStays
<1>3. plan'[k].group = g
    BY <1>1, PlanFixed
<1> QED BY <1>2, <1>3 DEF Whole, Members, GroupSize, CanaryRefuses

(* Every step keeps that a posted entry's group passed its preflight. *)
LEMMA NextGrouping == Placed /\ Vetting /\ Grouping /\ [PassNext]_vars => Grouping'
<1> SUFFICES ASSUME Placed, Vetting, Grouping, [PassNext]_vars PROVE Grouping'
    OBVIOUS
<1>1. plan' = plan /\ plan \in Seq(Entry) /\ i \in Nat
    BY PlanFixed DEF Placed, PlanTypes, LocalTypes
<1>2. SeenIsWhole /\ HereIsWhole /\ SentIsWhole
    BY DEF Grouping
<1>3. SeenIsWhole' /\ HereIsWhole' /\ SentIsWhole' => Grouping'
    BY DEF Grouping
<1>4. ASSUME \A l \in late' : l \in late \/ (l.index \in DOMAIN plan /\ Whole(plan[l.index].group)),
             \A m \in mutations' : m \in mutations \/ (m.entry \in DOMAIN plan /\ Whole(plan[m.entry].group))
      PROVE  SentIsWhole'
  <2>1. \A k \in DOMAIN plan : Whole(plan[k].group) => Whole(plan[k].group)'
    BY GroupOfEntryStays
  <2>2. /\ \A l \in late : l.index \in DOMAIN plan
        /\ \A m \in mutations : m.entry \in DOMAIN plan
    BY DEF Vetting
  <2> QED BY <1>2, <1>4, <2>1, <2>2 DEF SentIsWhole
<1>5. ASSUME NEW g \in seen \ skipped, ~(pc = "preflight" /\ Current.group = g)
      PROVE  Whole(g)'
    BY <1>2, <1>5, WholeStays DEF SeenIsWhole
<1>6. ASSUME UNCHANGED i, i \in DOMAIN plan, Whole(Current.group)
      PROVE  Whole(Current.group)'
  <2>1. PICK g : g = Current.group
    OBVIOUS
  <2>2. Whole(g)' /\ Current'.group = g
    BY <1>1, <1>6, <2>1, WholeStays DEF Current
  <2> QED BY <2>2 DEF Whole, Members, GroupSize, CanaryRefuses
<1>7. CASE \/ Finish \/ SkipRefused \/ FinalCheckFails \/ PostRejected
           \/ Confirm \/ ConfirmFails
           \/ (Admit /\ pc' = "next") \/ (FinalCheck /\ pc' = "next")
  <2>1. /\ UNCHANGED <<seen, skipped, late, mutations>>
        /\ pc # "preflight" /\ pc' \notin {"preflight", "admit", "get", "post"}
    BY <1>7 DEF Finish, SkipRefused, FinalCheckFails, PostRejected, Confirm,
       ConfirmFails, Admit, FinalCheck, Report, AfterPostError, InPlan, world
  <2>2. SeenIsWhole' /\ HereIsWhole'
    BY <1>5, <2>1 DEF SeenIsWhole, HereIsWhole
  <2> QED BY <1>3, <1>4, <2>1, <2>2
<1>8. CASE (Admit \/ FinalCheck) /\ pc' # "next"
  <2>1. /\ UNCHANGED <<seen, skipped, late, mutations, i>>
        /\ pc \in {"admit", "get"} /\ pc' \in {"get", "post"}
    BY <1>8 DEF Admit, FinalCheck, Report, world
  <2>2. Whole(Current.group)'
    BY <1>2, <1>6, <2>1, CurrentIsEntry DEF HereIsWhole
  <2>3. SeenIsWhole' /\ HereIsWhole'
    BY <1>5, <2>1, <2>2 DEF SeenIsWhole, HereIsWhole
  <2> QED BY <1>3, <1>4, <2>1, <2>3
<1>9. CASE SkipLargeGroup
  <2>1. /\ UNCHANGED <<late, mutations>> /\ pc = "next" /\ pc' = "next"
        /\ seen' \ skipped' \subseteq seen \ skipped
    BY <1>9 DEF SkipLargeGroup, Report, InPlan, world
  <2>2. SeenIsWhole' /\ HereIsWhole'
    BY <1>5, <2>1 DEF SeenIsWhole, HereIsWhole
  <2> QED BY <1>3, <1>4, <2>1, <2>2
<1>10. CASE StartPreflight
  <2>1. /\ UNCHANGED <<late, mutations, i, skipped>> /\ pc = "next"
        /\ seen' = seen \cup {Current.group} /\ Current' = Current
        /\ ~StaticallySkipped(Current.group) /\ i \in DOMAIN plan
    BY <1>1, <1>10, CurrentIsEntry
       DEF StartPreflight, InPlan, Refused, FirstSight, Current, world
  <2>2. CASE GroupSize(Current.group) > 1
    <3>1. pc' = "preflight"
      BY <1>10, <2>2 DEF StartPreflight
    <3>2. SeenIsWhole'
      BY <1>5, <2>1, <3>1 DEF SeenIsWhole
    <3>3. HereIsWhole'
      BY <1>1, <2>1, <3>1
         DEF HereIsWhole, StaticallySkipped, GroupSize, Members, CanaryRefuses
    <3> QED BY <1>3, <1>4, <2>1, <3>2, <3>3
  <2>3. CASE ~(GroupSize(Current.group) > 1)
    <3>1. pc' = "admit"
      BY <1>10, <2>3 DEF StartPreflight
    <3>2. Whole(Current.group)'
      BY <1>6, <2>1, <2>3 DEF Whole
    <3>3. SeenIsWhole'
      <4>1. PICK g : g = Current.group
        OBVIOUS
      <4>2. Whole(g)'
        BY <2>1, <2>3, <4>1, WholeStays DEF Whole
      <4> QED BY <1>5, <2>1, <4>1, <4>2 DEF SeenIsWhole
    <3> QED BY <1>3, <1>4, <2>1, <3>1, <3>2, <3>3 DEF HereIsWhole
  <2> QED BY <2>2, <2>3
<1>11. CASE Continue
  <2>1. /\ UNCHANGED <<late, mutations, i, seen, skipped>>
        /\ pc = "next" /\ pc' = "admit" /\ i \in DOMAIN plan
        /\ Current.group = NoGroup \/ Current.group \in seen \ skipped
    BY <1>11, CurrentIsEntry DEF Continue, InPlan, Refused, FirstSight, world
  <2>2. Whole(Current.group)
    BY <1>2, <2>1 DEF Whole, SeenIsWhole
  <2>3. Whole(Current.group)'
    BY <1>6, <2>1, <2>2
  <2>4. SeenIsWhole' /\ HereIsWhole'
    BY <1>5, <2>1, <2>3 DEF SeenIsWhole, HereIsWhole
  <2> QED BY <1>3, <1>4, <2>1, <2>4
<1>12. ASSUME UNCHANGED <<pc, i, seen, skipped>>
       PROVE  SeenIsWhole' /\ HereIsWhole'
  <2>1. Current' = Current
    BY <1>1, <1>12 DEF Current
  <2>2. SeenIsWhole'
    BY <1>5, <1>12, <2>1 DEF SeenIsWhole
  <2>3. pc' = "preflight" => ~StaticallySkipped(Current.group)'
    BY <1>1, <1>2, <1>12, <2>1
       DEF HereIsWhole, StaticallySkipped, GroupSize, Members, CanaryRefuses
  <2>4. pc' \in {"admit", "get", "post"} => Whole(Current.group)'
    BY <1>2, <1>6, <1>12, CurrentIsEntry DEF HereIsWhole
  <2> QED BY <2>2, <2>3, <2>4 DEF HereIsWhole
<1>13. CASE ReadMember
    BY <1>3, <1>4, <1>12, <1>13 DEF ReadMember, world
<1>14. CASE ReadMemberFails \/ (JudgeGroup /\ pc' = "next")
  <2>1. /\ UNCHANGED <<late, mutations, seen>> /\ pc = "preflight" /\ pc' = "next"
        /\ skipped' = skipped \cup {Current.group}
    BY <1>14 DEF ReadMemberFails, JudgeGroup, SkipGroup, Report, world
  <2>2. SeenIsWhole' /\ HereIsWhole'
    BY <1>5, <2>1 DEF SeenIsWhole, HereIsWhole
  <2> QED BY <1>3, <1>4, <2>1, <2>2
<1>15. CASE JudgeGroup /\ pc' # "next"
  <2>1. /\ UNCHANGED <<late, mutations, seen, skipped, i>>
        /\ pc = "preflight" /\ pc' = "admit" /\ Preflighted(Current.group)
    BY <1>15 DEF JudgeGroup, SkipGroup, Report, world
  <2>2. Whole(Current.group) /\ i \in DOMAIN plan
    BY <1>2, <2>1, CurrentIsEntry DEF Whole, HereIsWhole, Preflighted, StaticallySkipped
  <2>3. Whole(Current.group)' /\ HereIsWhole'
    BY <1>6, <2>1, <2>2 DEF HereIsWhole
  <2>4. SeenIsWhole'
    <3>1. PICK g : g = Current.group
      OBVIOUS
    <3>2. Whole(g)'
      BY <2>2, <3>1, WholeStays
    <3> QED BY <1>5, <2>1, <3>1, <3>2 DEF SeenIsWhole
  <2> QED BY <1>3, <1>4, <2>1, <2>3, <2>4
<1>16. ASSUME NEW k \in DOMAIN plan, NEW since, Persist(plan[k], k, since),
              Whole(plan[k].group)
       PROVE  \A m \in mutations' :
                  m \in mutations \/ (m.entry \in DOMAIN plan /\ Whole(plan[m.entry].group))
    BY <1>16 DEF Persist
<1>17. CASE PostAccepted \/ PostFails
  <2>1. /\ pc = "post" /\ UNCHANGED <<seen, skipped>>
        /\ pc' \notin {"preflight", "admit", "get", "post"}
    BY <1>17 DEF PostAccepted, PostFails, Report, AfterPostError
  <2>2. i \in DOMAIN plan /\ Whole(plan[i].group)
    BY <1>2, <2>1, CurrentIsEntry DEF Current, HereIsWhole
  <2>3. SeenIsWhole' /\ HereIsWhole'
    BY <1>5, <2>1 DEF SeenIsWhole, HereIsWhole
  <2>4. CASE Persist(Current, i, horizon) /\ UNCHANGED late
    BY <1>3, <1>4, <1>16, <2>2, <2>3, <2>4 DEF Current
  <2>5. CASE UNCHANGED <<live, mutations, late>>
    BY <1>3, <1>4, <2>3, <2>5
  <2>6. CASE /\ late' = late \cup {[entry |-> Current, index |-> i, since |-> horizon]}
             /\ UNCHANGED <<live, mutations>>
    BY <1>3, <1>4, <2>2, <2>3, <2>6
  <2> QED BY <1>17, <2>4, <2>5, <2>6 DEF PostAccepted, PostFails
<1>18. CASE PodsChange \/ (\E p \in Pod, n \in Node : BoundByOther(p, n)) \/ UNCHANGED vars
  <2>1. UNCHANGED <<pc, i, seen, skipped, late, mutations>>
    BY <1>18 DEF PodsChange, Terminates, Disappears, Recreated, BoundByOther,
       vars, world, locals
  <2> QED BY <1>3, <1>4, <1>12, <2>1
<1>19. ASSUME NEW l \in late, LatePostArrives(l) PROVE Grouping'
  <2>1. /\ UNCHANGED <<pc, i, seen, skipped>> /\ late' \subseteq late
        /\ Persist(l.entry, l.index, l.since) \/ UNCHANGED mutations
    BY <1>19 DEF LatePostArrives
  <2>2. /\ l.index \in DOMAIN plan /\ l.entry = plan[l.index]
        /\ Whole(plan[l.index].group)
    BY <1>2 DEF Vetting, SentIsWhole
  <2> QED BY <1>3, <1>4, <1>12, <1>16, <2>1, <2>2
<1> QED BY <1>7, <1>8, <1>9, <1>10, <1>11, <1>13, <1>14, <1>15, <1>17, <1>18, <1>19
           DEF PassNext, Step, Others

\* Before any member of a gang is bound, every member was read in the API server
\* and found bindable, whatever the order of the plan.
THEOREM GroupsAreVetted == PassSpec => []GroupVettedAsAWhole
<1>1. PassInit => Vetting /\ Grouping
    BY PodsAssumption, FS_CardinalityType DEF PassInit, Vetting, FinalCheckVets, Grouping, SeenIsWhole, HereIsWhole, SentIsWhole
<1>2. Grouping => GroupVettedAsAWhole
    BY DEF Grouping, SentIsWhole, GroupVettedAsAWhole, Whole
<1> QED BY <1>1, <1>2, InitPlaced, NextPlaced, NextVetting, NextGrouping, PTL DEF PassSpec

-----------------------------------------------------------------------------
\* The binds the server persisted while the binder was at their entry: at the
\* current one, and at earlier ones that were not reported as bound.
BindsHere == {m \in mutations : m.during = m.entry /\ m.entry = i}

Unreported == {m \in mutations : /\ m.during = m.entry
                                 /\ m.entry < i
                                 /\ outcomes[m.entry] # "bound"}

\* The POST of the current entry failed, and landed or still may.
InDoubt == pc = "confirm" /\ (BindsHere # {} \/ \E l \in late : l.index = i)

Penalty == IF InDoubt THEN 1 ELSE 0

\* While nobody else touches the pods, the final GET keeps its word until the
\* binder leaves the entry, and the GET after a failed POST finds the one bind.
Undisputed ==
    /\ pc \in {"post", "confirm"} => live[Current.pod].uid = Current.uid /\ Current.uid # 0
    /\ BindsHere # {} => pc = "confirm" /\ live[Current.pod].node = Current.node
    /\ \A m, n \in BindsHere : m = n
    /\ 2 * Cardinality(Unreported) + Penalty <= faults

Confirming ==
    /\ changes \in Nat
    /\ \A l \in late : l.index < i \/ (l.index = i /\ pc = "confirm")
    /\ \A m \in mutations : m.during <= i
    /\ changes = 0 => Undisputed

(* The types the count of confirmed bindings rests on. *)
LEMMA ConfirmTypes ==
    ASSUME Placed, Vetting, Counting, Confirming
    PROVE  /\ IsFiniteSet(Unreported) /\ Cardinality(Unreported) \in Nat
           /\ faults \in Nat /\ Penalty \in {0, 1}
           /\ i \in Nat /\ Len(plan) \in Nat /\ plan \in Seq(Entry)
           /\ live \in [Pod -> PodView]
           /\ outcomes \in Seq(Result) /\ Len(outcomes) = i - 1
           /\ mutations \subseteq [entry : Nat, uid : Nat, since : Nat, during : Nat]
           /\ \A m \in mutations : m.entry >= 1
<1>1. IsFiniteSet(Unreported)
    BY FS_Subset DEF Unreported, Counting
<1>2. \A m \in mutations : m.entry >= 1
    BY DEF Vetting, Placed, PlanTypes
<1> QED BY <1>1, <1>2, FS_CardinalityType
        DEF Penalty, Placed, PlanTypes, LocalTypes, WorldTypes, Position

\* Every report leaves its entry behind: a bind the server persisted there is
\* reported, or a second call has failed.
LEMMA ReportConfirms ==
    ASSUME Placed, Vetting, Counting, Confirming, i <= Len(plan),
           NEW result \in Result, Report(result),
           UNCHANGED <<plan, late, changes>>,
           \A m \in mutations' :
               m \in mutations \/ (m.entry = i /\ m.during = i /\ result = "bound"),
           mutations \subseteq mutations',
           faults' \in {faults, faults + 1},
           changes = 0 => \/ BindsHere = {}
                          \/ result = "bound"
                          \/ InDoubt /\ faults' = faults + 1
    PROVE  Confirming'
<1>1. /\ i' = i + 1 /\ pc' = "next" /\ i \in Nat
      /\ outcomes' = Append(outcomes, result)
      /\ \A k \in 1..(i - 1) : outcomes'[k] = outcomes[k]
      /\ outcomes'[i] = result
    BY ConfirmTypes DEF Report
<1>2. \A m \in mutations' : m.during <= i
    BY <1>1 DEF Confirming
<1>3. /\ \A l \in late' : l.index < i'
      /\ \A m \in mutations' : m.during <= i'
    <2>1. \A l \in late : l.index \in Nat
        BY DEF Placed, WorldTypes
    <2>2. \A m \in mutations' : m.during <= i /\ m.during \in Nat
        BY <1>1, <1>2, ConfirmTypes
    <2> QED BY <1>1, <2>1, <2>2 DEF Confirming
<1>4. ~InDoubt' /\ BindsHere' = {} /\ Penalty' = 0
    <2>1. BindsHere' = {}
      BY <1>1, <1>2 DEF BindsHere
    <2> QED BY <1>1, <2>1 DEF InDoubt, Penalty
<1>5. Unreported' \subseteq Unreported \cup (IF result = "bound" THEN {} ELSE BindsHere)
  <2> SUFFICES ASSUME NEW m \in Unreported', m \notin Unreported
               PROVE  result # "bound" /\ m \in BindsHere
    OBVIOUS
  <2>1. /\ m \in mutations' /\ m.during = m.entry /\ m.entry < i + 1
        /\ outcomes'[m.entry] # "bound"
    BY <1>1 DEF Unreported
  <2>2. m \in mutations /\ m.entry \in Nat
    BY <1>1, <2>1, ConfirmTypes
  <2>3. m.entry = i
    BY <1>1, <2>1, <2>2, ConfirmTypes DEF Unreported
  <2> QED BY <1>1, <2>1, <2>2, <2>3 DEF BindsHere
<1>6. ASSUME changes = 0 PROVE 2 * Cardinality(Unreported') <= faults'
  <2>1. Undisputed
    BY <1>6 DEF Confirming
  <2>2. CASE BindsHere = {} \/ result = "bound"
    <3>1. Unreported' \subseteq Unreported
      BY <1>5, <2>2
    <3>2. Cardinality(Unreported') <= Cardinality(Unreported)
          /\ Cardinality(Unreported') \in Nat
      BY <3>1, ConfirmTypes, FS_Subset, FS_CardinalityType
    <3> QED BY <2>1, <3>2, ConfirmTypes DEF Undisputed
  <2>3. CASE BindsHere # {} /\ InDoubt /\ faults' = faults + 1
    <3>1. PICK h \in BindsHere : BindsHere = {h}
      <4>1. PICK h \in BindsHere : TRUE
        BY <2>3
      <4>2. \A m \in BindsHere : m = h
        BY <2>1, <4>1 DEF Undisputed
      <4> QED BY <4>1, <4>2
    <3>2. Unreported' \subseteq Unreported \cup {h}
      BY <1>5, <3>1
    <3>3. /\ IsFiniteSet(Unreported \cup {h})
          /\ Cardinality(Unreported \cup {h}) \in Nat
          /\ Cardinality(Unreported \cup {h}) <= Cardinality(Unreported) + 1
      BY ConfirmTypes, AddingCounts
    <3>4. Cardinality(Unreported') <= Cardinality(Unreported \cup {h})
          /\ Cardinality(Unreported') \in Nat
      BY <3>2, <3>3, FS_Subset, FS_CardinalityType
    <3>5. Penalty = 1
      BY <2>3 DEF Penalty
    <3> QED BY <2>1, <2>3, <3>3, <3>4, <3>5, ConfirmTypes DEF Undisputed
  <2> QED BY <1>6, <2>2, <2>3
<1>7. changes' = 0 => Undisputed'
  <2> SUFFICES ASSUME changes = 0 PROVE Undisputed'
    OBVIOUS
  <2>1. 2 * Cardinality(Unreported') + Penalty' <= faults'
    <3>1. Cardinality(Unreported') \in Nat
      <4>1. Unreported' \subseteq mutations
        BY <1>5 DEF Unreported, BindsHere
      <4> QED BY <4>1, FS_Subset, FS_CardinalityType DEF Counting
    <3> QED BY <1>4, <1>6, <3>1, ConfirmTypes
  <2> QED BY <1>1, <1>4, <2>1 DEF Undisputed
<1> QED BY <1>3, <1>7 DEF Confirming

\* A step that leaves the entry's binds and POSTs alone keeps what is known of them.
LEMMA QuietStepConfirms ==
    ASSUME Placed, Vetting, Counting, Confirming,
           UNCHANGED <<plan, live, late, changes, i, outcomes, mutations, faults>>,
           pc # "confirm",
           pc' \in {"post", "confirm"} =>
               \/ pc = "post"
               \/ live[Current.pod].uid = Current.uid /\ Current.uid # 0
    PROVE  Confirming'
<1>1. Current' = Current /\ BindsHere' = BindsHere /\ Unreported' = Unreported
    BY DEF Current, BindsHere, Unreported
<1>2. \A l \in late : l.index < i
    BY DEF Confirming
<1>3. \A l \in late' : l.index # i'
    BY <1>2, ConfirmTypes DEF Placed, WorldTypes
<1>4. ASSUME changes = 0 PROVE Undisputed'
  <2>1. Undisputed /\ BindsHere = {}
    BY <1>4 DEF Confirming, Undisputed
  <2>2. Penalty' = 0
    BY <1>1, <1>3, <2>1 DEF Penalty, InDoubt
  <2>3. Penalty = 0
    BY DEF Penalty, InDoubt
  <2>4. 2 * Cardinality(Unreported') + Penalty' <= faults'
    BY <1>1, <2>1, <2>2, <2>3 DEF Undisputed
  <2>5. pc' \in {"post", "confirm"} => live'[Current'.pod].uid = Current'.uid /\ Current'.uid # 0
    BY <1>1, <2>1 DEF Undisputed
  <2> QED BY <1>1, <2>1, <2>4, <2>5 DEF Undisputed
<1> QED BY <1>2, <1>4 DEF Confirming

\* A bind that lands at the current entry is the only one there: it is the first
\* that finds the pod unbound, and later POSTs find it bound.
LEMMA LandingConfirms ==
    ASSUME Placed, Vetting, Counting, Confirming, changes = 0, pc \in {"post", "confirm"},
           NEW e, e = Current, NEW since \in Nat, Accepts(e.pod), Persist(e, i, since), ~DryRun
    PROVE  /\ BindsHere = {}
           /\ \E m : /\ mutations' = mutations \cup {m} /\ m.entry = i /\ m.during = i
           /\ live'[e.pod].uid = live[e.pod].uid
           /\ live'[e.pod].node = e.node
<1>1. Current \in Entry
    BY CurrentIsEntry
<1>2. e.pod \in Pod /\ e.node \in Node /\ live \in [Pod -> PodView]
    BY <1>1, ConfirmTypes DEF Entry
<1>3. BindsHere = {}
    BY <1>2, PolicyAssumption DEF Confirming, Undisputed, Accepts
<1>4. /\ live' = [live EXCEPT ![e.pod] = OnNode(live[e.pod], e.node)]
      /\ mutations' = mutations \cup
            {[entry |-> i, uid |-> live[e.pod].uid, since |-> since, during |-> i]}
    BY DEF Persist
<1>5. live'[e.pod] = OnNode(live[e.pod], e.node)
    BY <1>2, <1>4
<1>6. \E m : mutations' = mutations \cup {m} /\ m.entry = i /\ m.during = i
  <2> WITNESS [entry |-> i, uid |-> live[e.pod].uid, since |-> since, during |-> i]
  <2> QED BY <1>4
<1> QED BY <1>3, <1>5, <1>6 DEF OnNode

(* Every step keeps the account of what the confirmation finds. *)
LEMMA NextConfirming ==
    Placed /\ Vetting /\ Counting /\ Confirming /\ [PassNext]_vars => Confirming'
<1> SUFFICES ASSUME Placed, Vetting, Counting, Confirming, [PassNext]_vars
             PROVE  Confirming'
    OBVIOUS
<1>1. /\ plan' = plan /\ plan \in Seq(Entry) /\ i \in Nat /\ Len(plan) \in Nat
      /\ changes \in Nat
    BY PlanFixed, ConfirmTypes DEF Confirming
<1>2. pc \notin {"post", "confirm"} /\ changes = 0 => BindsHere = {}
    BY DEF Confirming, Undisputed
<1>3. pc \notin {"next", "done"} \/ InPlan => i <= Len(plan)
    BY DEF Placed, Position, InPlan
<1>4. CASE \/ SkipRefused \/ SkipLargeGroup \/ ReadMemberFails \/ FinalCheckFails
           \/ (JudgeGroup /\ pc' = "next") \/ (Admit /\ pc' = "next")
           \/ (FinalCheck /\ pc' = "next")
  <2>1. /\ \E result \in Result : Report(result)
        /\ UNCHANGED <<late, changes, mutations>> /\ faults' \in {faults, faults + 1}
        /\ pc \notin {"post", "confirm"} /\ i <= Len(plan)
    BY <1>3, <1>4 DEF SkipRefused, SkipLargeGroup, ReadMemberFails, FinalCheckFails,
       JudgeGroup, Admit, FinalCheck, SkipGroup, InPlan, world, Result
  <2> QED BY <1>1, <1>2, <2>1, ReportConfirms
<1>5. CASE \/ Finish \/ StartPreflight \/ Continue \/ ReadMember
           \/ (JudgeGroup /\ pc' # "next") \/ (Admit /\ pc' # "next")
  <2>1. /\ UNCHANGED <<live, late, changes, i, outcomes, mutations, faults>>
        /\ pc # "confirm" /\ pc' \notin {"post", "confirm"}
    <3>1. CASE Finish \/ StartPreflight \/ Continue \/ ReadMember
      BY <3>1 DEF Finish, StartPreflight, Continue, ReadMember, InPlan, world
    <3>2. CASE JudgeGroup /\ pc' # "next"
      BY <3>2 DEF JudgeGroup, SkipGroup, Report, world
    <3>3. CASE Admit /\ pc' # "next"
      BY <3>3 DEF Admit, Report, world
    <3> QED BY <1>5, <3>1, <3>2, <3>3
  <2> QED BY <1>1, <2>1, QuietStepConfirms
<1>6. CASE FinalCheck /\ pc' # "next"
  <2>1. /\ UNCHANGED <<live, late, changes, i, outcomes, mutations, faults>>
        /\ pc # "confirm" /\ ShouldApply(Current, live[Current.pod])
    BY <1>6 DEF FinalCheck, Report, world
  <2>2. live[Current.pod].uid = Current.uid /\ Current.uid # 0
    BY <2>1 DEF ShouldApply
  <2> QED BY <1>1, <2>1, <2>2, QuietStepConfirms
<1>7. CASE PostRejected
  <2>1. CASE DryRun
    <3>1. /\ Report("failed") /\ UNCHANGED <<late, changes, mutations, faults>>
          /\ pc = "post"
      BY <1>7, <2>1 DEF PostRejected, AfterPostError, world
    <3>2. changes = 0 => BindsHere = {}
      BY <3>1 DEF Confirming, Undisputed
    <3> QED BY <1>1, <1>3, <3>1, <3>2, ReportConfirms DEF Result
  <2>2. CASE ~DryRun
    <3>1. /\ UNCHANGED <<live, late, changes, i, outcomes, mutations, faults>>
          /\ pc = "post" /\ pc' = "confirm"
      BY <1>7, <2>2 DEF PostRejected, AfterPostError, world
    <3> QED BY <1>1, <3>1, QuietStepConfirms
  <2> QED BY <2>1, <2>2
<1>8. CASE PostAccepted
  <2>1. /\ Persist(Current, i, horizon) /\ UNCHANGED <<late, changes, faults>>
        /\ pc = "post"
    BY <1>8 DEF PostAccepted
  <2>2. changes = 0 => BindsHere = {}
    BY <2>1 DEF Confirming, Undisputed
  <2>3. CASE DryRun
    <3>1. Report("validated") /\ UNCHANGED mutations
      BY <1>8, <2>1, <2>3 DEF PostAccepted, Persist
    <3> QED BY <1>1, <1>3, <2>1, <2>2, <3>1, ReportConfirms DEF Result
  <2>4. CASE ~DryRun
    <3>1. Report("bound")
      BY <1>8, <2>4 DEF PostAccepted
    <3>2. PICK m : mutations' = mutations \cup {m} /\ m.entry = i /\ m.during = i
      <4> WITNESS [entry |-> i, uid |-> live[Current.pod].uid, since |-> horizon,
                   during |-> i]
      <4> QED BY <2>1, <2>4 DEF Persist
    <3> QED BY <1>1, <1>3, <2>1, <2>2, <3>1, <3>2, ReportConfirms DEF Result
  <2> QED BY <2>3, <2>4
<1>9. CASE PostFails /\ DryRun
  <2>1. /\ Report("failed") /\ UNCHANGED <<late, changes, mutations>>
        /\ faults' = faults + 1 /\ pc = "post"
    BY <1>9 DEF PostFails, AfterPostError, Persist
  <2>2. changes = 0 => BindsHere = {}
    BY <2>1 DEF Confirming, Undisputed
  <2> QED BY <1>1, <1>3, <2>1, <2>2, ReportConfirms DEF Result
<1>10. CASE PostFails /\ ~DryRun
  <2>1. /\ pc = "post" /\ pc' = "confirm" /\ UNCHANGED <<i, outcomes, changes>>
        /\ faults' = faults + 1
    BY <1>10 DEF PostFails, AfterPostError
  <2>2. Current' = Current /\ Current \in Entry
    BY <1>1, <2>1, CurrentIsEntry DEF Current
  <2>3. /\ \A l \in late' : l \in late \/ l.index = i
        /\ \A m \in mutations' : m \in mutations \/ (m.entry = i /\ m.during = i)
        /\ mutations \subseteq mutations'
    BY <1>10 DEF PostFails, Persist
  <2>4. Unreported' = Unreported
    BY <1>1, <2>1, <2>3 DEF Unreported
  <2>5. /\ \A l \in late' : l.index < i' \/ (l.index = i' /\ pc' = "confirm")
        /\ \A m \in mutations' : m.during <= i'
    BY <1>1, <2>1, <2>3 DEF Confirming
  <2>6. ASSUME changes = 0 PROVE Undisputed'
    <3>1. Undisputed /\ BindsHere = {} /\ live[Current.pod].uid = Current.uid /\ Current.uid # 0
      BY <2>1, <2>6 DEF Confirming, Undisputed
    <3>2. 2 * Cardinality(Unreported') + Penalty' <= faults'
      <4>1. Penalty = 0 /\ Penalty' \in {0, 1}
        BY <2>1 DEF Penalty, InDoubt
      <4> QED BY <2>1, <2>4, <3>1, <4>1, ConfirmTypes DEF Undisputed
    <3>3. CASE Accepts(Current.pod) /\ Persist(Current, i, horizon)
      <4>1. horizon \in Nat
        BY DEF Placed, LocalTypes
      <4>2. PICK m : mutations' = mutations \cup {m} /\ m.entry = i /\ m.during = i
        BY <1>10, <2>1, <2>6, <3>3, <4>1, LandingConfirms
      <4>3. live'[Current.pod].uid = live[Current.pod].uid
            /\ live'[Current.pod].node = Current.node
        BY <1>10, <2>1, <2>6, <3>3, <4>1, LandingConfirms
      <4>4. \A x \in BindsHere' : x = m
        BY <2>1, <3>1, <4>2 DEF BindsHere
      <4> QED BY <2>1, <2>2, <3>1, <3>2, <4>3, <4>4 DEF Undisputed
    <3>4. CASE UNCHANGED <<live, mutations>>
      <4>1. BindsHere' = {}
        BY <2>1, <3>1, <3>4 DEF BindsHere
      <4> QED BY <2>1, <2>2, <3>1, <3>2, <3>4, <4>1 DEF Undisputed
    <3> QED BY <1>10, <3>3, <3>4 DEF PostFails
  <2> QED BY <1>1, <2>1, <2>5, <2>6 DEF Confirming
<1>11. CASE Confirm
  <2>1. /\ UNCHANGED <<late, changes, mutations, faults>> /\ pc = "confirm"
        /\ \E result \in Result : Report(result)
    BY <1>11 DEF Confirm, world, Result
  <2>2. ASSUME changes = 0, BindsHere # {} PROVE Report("bound")
    BY <1>11, <2>1, <2>2 DEF Confirm, Confirming, Undisputed
  <2>3. CASE changes = 0 /\ BindsHere # {}
    BY <1>1, <1>3, <2>1, <2>2, <2>3, ReportConfirms DEF Result
  <2>4. CASE ~(changes = 0 /\ BindsHere # {})
    BY <1>1, <1>3, <2>1, <2>4, ReportConfirms
  <2> QED BY <2>3, <2>4
<1>12. CASE ConfirmFails
  <2>1. /\ UNCHANGED <<late, changes, mutations>> /\ faults' = faults + 1
        /\ pc = "confirm" /\ Report("failed")
    BY <1>12 DEF ConfirmFails, world
  <2>2. BindsHere = {} \/ InDoubt
    BY <2>1 DEF InDoubt
  <2> QED BY <1>1, <1>3, <2>1, <2>2, ReportConfirms DEF Result
<1>13. ASSUME NEW l \in late, LatePostArrives(l) PROVE Confirming'
  <2>1. /\ UNCHANGED <<pc, i, outcomes, changes, faults>> /\ late' = late \ {l}
        /\ Current' = Current
    BY <1>1, <1>13 DEF LatePostArrives, Current
  <2>2. /\ l.index \in Nat /\ l.since \in Nat /\ l.index <= i
        /\ l.index \in DOMAIN plan /\ l.entry = plan[l.index] /\ l.entry \in Entry
    BY <1>1 DEF Placed, WorldTypes, Confirming, Vetting
  <2>3. /\ \A m \in mutations' : m \in mutations \/ (m.entry = l.index /\ m.during = i)
        /\ mutations \subseteq mutations'
    BY <1>13 DEF LatePostArrives, Persist
  <2>4. Unreported' = Unreported
    BY <1>1, <2>1, <2>2, <2>3 DEF Unreported
  <2>5. /\ \A x \in late' : x.index < i' \/ (x.index = i' /\ pc' = "confirm")
        /\ \A m \in mutations' : m.during <= i'
    BY <1>1, <2>1, <2>3 DEF Confirming
  <2>6. ASSUME changes = 0 PROVE Undisputed'
    <3>1. Undisputed
      BY <2>6 DEF Confirming
    <3>2. CASE Accepts(l.entry.pod) /\ ~DryRun /\ l.index = i
      <4>1. /\ l.entry = Current /\ pc = "confirm" /\ Persist(Current, i, l.since)
        BY <1>1, <1>13, <2>2, <3>2 DEF Current, LatePostArrives, Confirming
      <4>2. PICK m : mutations' = mutations \cup {m} /\ m.entry = i /\ m.during = i
        BY <2>2, <2>6, <3>2, <4>1, LandingConfirms
      <4>3. BindsHere = {} /\ live'[Current.pod].uid = live[Current.pod].uid
            /\ live'[Current.pod].node = Current.node
        BY <2>2, <2>6, <3>2, <4>1, LandingConfirms
      <4>4. \A x \in BindsHere' : x = m
        BY <2>1, <4>2, <4>3 DEF BindsHere
      <4>5. InDoubt
        BY <3>2, <4>1 DEF InDoubt
      <4>6. 2 * Cardinality(Unreported') + Penalty' <= faults'
        <5>1. Penalty = 1 /\ Penalty' \in {0, 1}
          BY <4>5 DEF Penalty
        <5> QED BY <2>1, <2>4, <3>1, <5>1, ConfirmTypes DEF Undisputed
      <4> QED BY <2>1, <3>1, <4>1, <4>3, <4>4, <4>6 DEF Undisputed
    <3>3. CASE ~(Accepts(l.entry.pod) /\ ~DryRun /\ l.index = i)
      <4>1. BindsHere' = BindsHere
        <5>1. mutations' = mutations \/ l.index # i
          BY <1>13, <3>3 DEF LatePostArrives, Persist
        <5> QED BY <2>1, <2>3, <5>1 DEF BindsHere
      <4>2. 2 * Cardinality(Unreported') + Penalty' <= faults'
        <5>1. InDoubt' => InDoubt
          BY <2>1, <4>1 DEF InDoubt
        <5>2. Penalty' <= Penalty /\ Penalty' \in {0, 1}
          BY <5>1 DEF Penalty
        <5> QED BY <2>1, <2>4, <3>1, <5>2, ConfirmTypes DEF Undisputed
      <4>3. ASSUME pc \in {"post", "confirm"}
            PROVE  /\ live'[Current.pod].uid = live[Current.pod].uid
                   /\ live[Current.pod].node # NoNode =>
                         live'[Current.pod].node = live[Current.pod].node
        <5>1. Current.pod \in Pod /\ live \in [Pod -> PodView]
          BY <4>3, CurrentIsEntry, ConfirmTypes DEF Entry
        <5> QED BY <1>13, <5>1 DEF LatePostArrives, Persist, Accepts, OnNode
      <4>4. pc \in {"post", "confirm"} => Current.node # NoNode
        BY CurrentIsEntry, PolicyAssumption DEF Entry
      <4> QED BY <2>1, <3>1, <4>1, <4>2, <4>3, <4>4 DEF Undisputed
    <3> QED BY <3>2, <3>3
  <2> QED BY <1>1, <2>1, <2>5, <2>6 DEF Confirming
<1>14. CASE \/ \E p \in Pod : Terminates(p) \/ Disappears(p)
            \/ \E p \in Pod, n \in Node : BoundByOther(p, n)
  <2>1. changes' = changes + 1 /\ UNCHANGED <<late, i, pc, mutations>>
    BY <1>14 DEF Terminates, Disappears, BoundByOther, Change, locals
  <2> QED BY <1>1, <2>1 DEF Confirming
<1>15. ASSUME NEW p \in Pod, Recreated(p) PROVE Confirming'
  <2>1. /\ UNCHANGED <<late, changes, plan, pc, i, outcomes, mutations, faults>>
        /\ live[p].uid = 0 /\ live' = [live EXCEPT ![p] = Fresh(nextUid)]
        /\ Current' = Current
    BY <1>15 DEF Recreated, locals, Current
  <2>2. /\ BindsHere' = BindsHere /\ Unreported' = Unreported /\ InDoubt' = InDoubt
        /\ Penalty' = Penalty
    BY <2>1 DEF BindsHere, Unreported, InDoubt, Penalty
  <2>3. ASSUME changes = 0 PROVE Undisputed'
    <3>1. Undisputed
      BY <2>3 DEF Confirming
    <3>2. pc \in {"post", "confirm"} => live'[Current.pod] = live[Current.pod]
      BY <2>1, <3>1, ConfirmTypes DEF Undisputed
    <3> QED BY <2>1, <2>2, <3>1, <3>2 DEF Undisputed
  <2> QED BY <1>1, <2>1, <2>3 DEF Confirming
<1>16. CASE UNCHANGED vars
  <2>1. UNCHANGED <<late, changes, plan, pc, i, outcomes, mutations, faults, live>>
    BY <1>16 DEF vars, world, locals
  <2>2. /\ BindsHere' = BindsHere /\ Unreported' = Unreported /\ Penalty' = Penalty
        /\ Current' = Current
    BY <2>1 DEF BindsHere, Unreported, InDoubt, Penalty, Current
  <2>3. Undisputed => Undisputed'
    BY <2>1, <2>2 DEF Undisputed
  <2>4. /\ changes' \in Nat
        /\ \A l \in late' : l.index < i' \/ (l.index = i' /\ pc' = "confirm")
        /\ \A m \in mutations' : m.during <= i'
    BY <2>1 DEF Confirming
  <2>5. changes' = 0 => Undisputed'
    BY <2>1, <2>3 DEF Confirming
  <2> QED BY <2>4, <2>5 DEF Confirming
<1> QED BY <1>4, <1>5, <1>6, <1>7, <1>8, <1>9, <1>10, <1>11, <1>12, <1>13, <1>14, <1>15,
           <1>16 DEF PassNext, Step, Others, PodsChange

\* A failed POST that landed all the same is found and counted, unless the GET
\* that looks for it fails too: two failed calls for every unreported bind.
THEOREM BindsAreConfirmed == PassSpec => []ConfirmFindsBinds
<1>1. PassInit => Vetting /\ Counting
    BY PodsAssumption, FS_CardinalityType, FS_EmptySet, PolicyAssumption
       DEF PassInit, Vetting, Counting, FinalCheckVets
<1>2. PassInit => Confirming
  <2> SUFFICES ASSUME PassInit PROVE Confirming
    OBVIOUS
  <2>1. /\ late = {} /\ mutations = {} /\ changes = 0 /\ pc = "next" /\ faults = 0
    BY DEF PassInit
  <2>2. BindsHere = {} /\ Unreported = {} /\ Penalty = 0
    BY <2>1 DEF BindsHere, Unreported, InDoubt, Penalty
  <2>3. Cardinality(Unreported) = 0
    BY <2>2, FS_EmptySet
  <2> QED BY <2>1, <2>2, <2>3 DEF Confirming, Undisputed
<1>3. Placed /\ Vetting /\ Counting /\ Confirming => ConfirmFindsBinds
  <2> SUFFICES ASSUME Placed, Vetting, Counting, Confirming, changes = 0
               PROVE  2 * Cardinality(Unreported) <= faults
    BY DEF ConfirmFindsBinds, Unreported
  <2> QED BY ConfirmTypes DEF Confirming, Undisputed
<1> QED BY <1>1, <1>2, <1>3, InitPlaced, NextPlaced, NextVetting, NextCounting,
           NextConfirming, PTL DEF PassSpec
-----------------------------------------------------------------------------
\* A group of several members, side by side in the plan.
Gang(g) == g \in Group /\ GroupSize(g) > 1 /\ Contiguous(g)

Sealed(g) == blocked \/ StaticallySkipped(g) \/ g \in skipped

Good == {"bound", "validated"}

Left(g) == {k \in Members(g) : k >= i}

InPreflight(g) == pc = "preflight" /\ Current.group = g

\* A gang is not reached yet; or sealed, with no member bound; or in the hands of
\* the preflight; or going through: its members behind are bound, those left are
\* bindable, next in the plan, and have their share of the pass.
Fate(g) ==
    /\ g \notin seen /\ ~Sealed(g) => \A k \in Members(g) : k >= i
    /\ Sealed(g) => \A k \in Members(g) : k < i => outcomes[k] \notin Good
    /\ InPreflight(g) =>
          /\ \A k \in Members(g) : k >= i
          /\ applied + GroupSize(g) <= MaxBinds
    /\ g \in seen /\ ~Sealed(g) /\ ~InPreflight(g) =>
          /\ \A k \in Members(g) : k < i => outcomes[k] \in Good
          /\ Left(g) # {} =>
                /\ Current.group = g
                /\ applied + Cardinality(Left(g)) <= MaxBinds
                /\ \A k \in Left(g) : ShouldApply(plan[k], live[plan[k].pod])

\* What the plan of a pass is, and what nobody's interference leaves true.
PodsApart == \A j, k \in DOMAIN plan : plan[j].pod = plan[k].pod => j = k

Calm ==
    /\ late = {}
    /\ \A p \in Pod : live[p].uid # 0
    /\ \A k \in DOMAIN plan :
          k >= i => cache[plan[k].pod] \in {Unread, live[plan[k].pod]}
    /\ pc \notin {"next", "done"} =>
          ~Refused(Current) /\ (Current.group = NoGroup \/ Current.group \in seen)
    /\ pc = "done" => i > Len(plan)
    /\ pc = "confirm" => ~Gang(Current.group)
    /\ \A g : Gang(g) => Fate(g)

CalmInv ==
    /\ changes \in Nat
    /\ PodsApart
    /\ Undisturbed => Calm

(* The types the fate of a group rests on. *)
LEMMA CalmTypes ==
    ASSUME Placed, CalmInv
    PROVE  /\ i \in Nat /\ Len(plan) \in Nat /\ plan \in Seq(Entry)
           /\ DOMAIN plan = 1..Len(plan)
           /\ live \in [Pod -> PodView] /\ cache \in [Pod -> PodView]
           /\ outcomes \in Seq(Result) /\ Len(outcomes) = i - 1
           /\ applied \in Nat /\ MaxBinds \in Nat /\ faults \in Nat /\ changes \in Nat
           /\ \A g : /\ Members(g) \subseteq 1..Len(plan)
                     /\ IsFiniteSet(Members(g)) /\ GroupSize(g) \in Nat
                     /\ IsFiniteSet(Left(g)) /\ Cardinality(Left(g)) \in Nat
<1>1. /\ i \in Nat /\ Len(plan) \in Nat /\ plan \in Seq(Entry)
      /\ DOMAIN plan = 1..Len(plan)
      /\ live \in [Pod -> PodView] /\ cache \in [Pod -> PodView]
      /\ outcomes \in Seq(Result) /\ Len(outcomes) = i - 1
      /\ applied \in Nat /\ MaxBinds \in Nat /\ faults \in Nat /\ changes \in Nat
    BY PolicyAssumption DEF CalmInv, Placed, PlanTypes, LocalTypes, WorldTypes, Position
<1>2. ASSUME NEW g
      PROVE  /\ Members(g) \subseteq 1..Len(plan)
             /\ IsFiniteSet(Members(g)) /\ GroupSize(g) \in Nat
             /\ IsFiniteSet(Left(g)) /\ Cardinality(Left(g)) \in Nat
  <2>1. Members(g) \subseteq 1..Len(plan) /\ Left(g) \subseteq 1..Len(plan)
    BY <1>1 DEF Members, Left
  <2>2. IsFiniteSet(1..Len(plan))
    BY <1>1, FS_Interval
  <2> QED BY <2>1, <2>2, FS_Subset, FS_CardinalityType DEF GroupSize
<1> QED BY <1>1, <1>2

\* The plan decides what a gang is.
LEMMA GangsStay ==
    ASSUME UNCHANGED <<plan, blocked>>, NEW g
    PROVE  /\ Gang(g)' = Gang(g) /\ Members(g)' = Members(g)
           /\ GroupSize(g)' = GroupSize(g)
           /\ StaticallySkipped(g)' = StaticallySkipped(g)
BY DEF Gang, Members, GroupSize, Contiguous, StaticallySkipped, CanaryRefuses

\* A report on an entry of another group, or of none, does not change the fate
\* of a gang.
LEMMA OtherReportKeepsFate ==
    ASSUME Placed, CalmInv, Undisturbed, NEW g, Gang(g), i <= Len(plan),
           Current.group # g, NEW result, Report(result),
           UNCHANGED <<plan, blocked>>,
           g \in seen' <=> g \in seen, g \in skipped' <=> g \in skipped
    PROVE  Fate(g)'
<1>1. Fate(g) /\ i \notin Members(g)
    BY CalmTypes DEF CalmInv, Calm, Members, Current
<1>2. /\ i' = i + 1 /\ pc' = "next" /\ i \in Nat
      /\ \A k \in Members(g) : k < i + 1 => k < i /\ outcomes'[k] = outcomes[k]
      /\ \A k \in Members(g) : k >= i => k >= i + 1
    BY <1>1, CalmTypes DEF Report
<1>3. Members(g)' = Members(g) /\ Sealed(g)' = Sealed(g)
    BY GangsStay DEF Sealed
<1>4. ~InPreflight(g) /\ ~InPreflight(g)'
    BY <1>2 DEF InPreflight
<1>5. ASSUME g \in seen, ~Sealed(g)
      PROVE  /\ \A k \in Members(g) : k < i + 1 => outcomes'[k] \in Good
             /\ Left(g)' = {}
  <2>1. Left(g) = {} /\ \A k \in Members(g) : k < i => outcomes[k] \in Good
    BY <1>1, <1>4, <1>5 DEF Fate
  <2>2. Left(g)' = {}
    <3> SUFFICES ASSUME NEW k \in Left(g)' PROVE FALSE
      OBVIOUS
    <3>1. k \in Members(g) /\ k >= i + 1
      BY <1>2, <1>3 DEF Left
    <3>2. k \in Nat
      BY <3>1, CalmTypes
    <3> QED BY <1>2, <2>1, <3>1, <3>2 DEF Left
  <2> QED BY <1>2, <2>1, <2>2
<1>6. g \notin seen /\ ~Sealed(g) => \A k \in Members(g) : k >= i + 1
    BY <1>1, <1>2 DEF Fate
<1>7. Sealed(g) => \A k \in Members(g) : k < i + 1 => outcomes'[k] \notin Good
    BY <1>1, <1>2 DEF Fate
<1> QED BY <1>2, <1>3, <1>4, <1>5, <1>6, <1>7 DEF Fate

\* A report that seals a gang finds no member of it bound.
LEMMA SealingKeepsFate ==
    ASSUME Placed, CalmInv, Undisturbed, NEW g, Gang(g), i <= Len(plan),
           Current.group = g, Report("skipped"),
           UNCHANGED <<plan, blocked>>,
           \/ UNCHANGED <<seen, skipped>> /\ Sealed(g)
           \/ /\ g \in skipped' /\ g \in seen'
              /\ \A k \in Members(g) : k >= i
    PROVE  Fate(g)'
<1>1. Fate(g)
    BY DEF CalmInv, Calm
<1>2. /\ i' = i + 1 /\ pc' = "next" /\ i \in Nat
      /\ \A k \in Members(g) : k < i => outcomes'[k] = outcomes[k]
      /\ outcomes'[i] = "skipped"
    BY CalmTypes DEF Report
<1>3. Members(g)' = Members(g) /\ Sealed(g)' /\ ~InPreflight(g)'
    BY <1>2, GangsStay DEF Sealed, InPreflight
<1>4. \A k \in Members(g) : k < i => outcomes[k] \notin Good
    BY <1>1, CalmTypes DEF Fate
<1>5. \A k \in Members(g) : k < i + 1 => outcomes'[k] \notin Good
  <2> SUFFICES ASSUME NEW k \in Members(g), k < i + 1 PROVE outcomes'[k] \notin Good
    OBVIOUS
  <2>1. k \in Nat
    BY CalmTypes
  <2> QED BY <1>2, <1>4, <2>1 DEF Good
<1> QED BY <1>2, <1>3, <1>5 DEF Fate

\* While the pass stays at an entry and nothing is reported, fates stay.
LEMMA StayingKeepsFate ==
    ASSUME Placed, CalmInv, Undisturbed, NEW g, Gang(g),
           UNCHANGED <<plan, blocked, i, outcomes, applied, live, skipped>>,
           g \in seen' <=> g \in seen,
           InPreflight(g)' <=> InPreflight(g)
    PROVE  Fate(g)'
<1>1. Fate(g) /\ Current' = Current
    BY DEF CalmInv, Calm, Current
<1>2. /\ Members(g)' = Members(g) /\ Sealed(g)' = Sealed(g)
      /\ GroupSize(g)' = GroupSize(g) /\ Left(g)' = Left(g)
    BY GangsStay DEF Sealed, Left
<1>3. \A k \in Members(g) :
         ShouldApply(plan[k], live[plan[k].pod])'
            = ShouldApply(plan[k], live[plan[k].pod])
    BY DEF ShouldApply
<1> QED BY <1>1, <1>2, <1>3 DEF Fate, Left

\* A gang that goes through is bound member by member, and the next one is next.
LEMMA BindingKeepsFate ==
    ASSUME Placed, CalmInv, Undisturbed, NEW g, Gang(g), Current.group = g,
           PostAccepted
    PROVE  Fate(g)'
<1>1. /\ Fate(g) /\ ~Sealed(g) /\ g \in seen /\ ~InPreflight(g) /\ pc = "post"
    BY PolicyAssumption
       DEF CalmInv, Calm, PostAccepted, Refused, Sealed, InPreflight, Gang
<1>2. i \in Members(g) /\ i <= Len(plan) /\ i \in Left(g)
    BY <1>1, CalmTypes DEF Placed, Position, Members, Current, Left
<1>3. /\ i' = i + 1 /\ pc' = "next" /\ applied' = applied + 1
      /\ UNCHANGED <<plan, blocked, seen, skipped>>
      /\ \A k \in Members(g) : k < i => outcomes'[k] = outcomes[k]
      /\ outcomes'[i] \in Good
    BY <1>1, CalmTypes DEF PostAccepted, Report, Good
<1>4. /\ Members(g)' = Members(g) /\ ~Sealed(g)' /\ ~InPreflight(g)'
      /\ Left(g)' = Left(g) \ {i}
  <2>1. Members(g)' = Members(g) /\ ~Sealed(g)' /\ ~InPreflight(g)'
    BY <1>1, <1>3, GangsStay DEF Sealed, InPreflight
  <2>2. ASSUME NEW k \in Members(g) PROVE k >= i + 1 <=> k >= i /\ k # i
    BY CalmTypes
  <2> QED BY <1>3, <2>1, <2>2 DEF Left
<1>5. /\ \A k \in Members(g) : k < i => outcomes[k] \in Good
      /\ applied + Cardinality(Left(g)) <= MaxBinds
      /\ \A k \in Left(g) : ShouldApply(plan[k], live[plan[k].pod])
    BY <1>1, <1>2 DEF Fate
<1>6. \A k \in Members(g) : k < i + 1 => outcomes'[k] \in Good
  <2> SUFFICES ASSUME NEW k \in Members(g), k < i + 1 PROVE outcomes'[k] \in Good
    OBVIOUS
  <2>1. k \in Nat /\ i \in Nat
    BY CalmTypes
  <2>2. k < i \/ k = i
    BY <2>1
  <2> QED BY <1>3, <1>5, <2>2
<1>7. ASSUME Left(g)' # {} PROVE Current'.group = g
  <2>1. PICK k \in Members(g) : k >= i /\ k # i
    BY <1>4, <1>7 DEF Left
  <2>2. i + 1 \in i..k
    BY <2>1, CalmTypes
  <2>3. i + 1 \in Members(g)
    BY <1>2, <2>1, <2>2 DEF Gang, Contiguous
  <2> QED BY <1>3, <2>3 DEF Members, Current
<1>8. applied' + Cardinality(Left(g)') <= MaxBinds
  <2>1. Cardinality(Left(g) \ {i}) = Cardinality(Left(g)) - 1
    BY <1>2, CalmTypes, FS_RemoveElement
  <2>2. Cardinality(Left(g)') = Cardinality(Left(g)) - 1
    BY <1>4, <2>1
  <2> QED BY <1>3, <1>5, <2>2, CalmTypes
<1>9. ASSUME NEW k \in Left(g)'
      PROVE  ShouldApply(plan[k], live[plan[k].pod])'
  <2>1. k \in Left(g) /\ k # i /\ k \in DOMAIN plan /\ i \in DOMAIN plan
    BY <1>2, <1>4, <1>9 DEF Left, Members
  <2>2. plan[k].pod # plan[i].pod
    BY <2>1 DEF CalmInv, PodsApart
  <2>3. live'[plan[k].pod] = live[plan[k].pod]
    <3>1. plan[k].pod \in Pod
      <4>1. plan[k] \in Entry
        BY <2>1, CalmTypes
      <4> QED BY <4>1 DEF Entry
    <3> QED BY <2>2, <3>1, CalmTypes DEF PostAccepted, Persist, Current
  <2> QED BY <1>3, <1>5, <2>1, <2>3 DEF ShouldApply
<1>10. /\ g \in seen' /\ ~Sealed(g)' /\ ~InPreflight(g)'
       /\ \A k \in Members(g)' : k < i' => outcomes'[k] \in Good
    BY <1>1, <1>3, <1>4, <1>6
<1> QED BY <1>7, <1>8, <1>9, <1>10 DEF Fate

\* The preflight lets a gang through when every member was found bindable, and
\* they are as they were found.
LEMMA JudgedKeepsFate ==
    ASSUME Placed, CalmInv, Undisturbed, NEW g, Gang(g), InPreflight(g),
           JudgeGroup, Preflighted(g)
    PROVE  Fate(g)'
<1>1. /\ Fate(g) /\ Current.group = g
      /\ pc' = "admit" /\ UNCHANGED <<i, skipped, outcomes, seen, applied, plan, blocked, live>>
    BY DEF JudgeGroup, InPreflight, CalmInv, Calm, world
<1>2. \A k \in Members(g) : k >= i /\ ShouldApply(plan[k], live[plan[k].pod])
  <2> SUFFICES ASSUME NEW k \in Members(g)
               PROVE  k >= i /\ ShouldApply(plan[k], live[plan[k].pod])
    OBVIOUS
  <2>1. k >= i /\ ShouldApply(plan[k], cache[plan[k].pod]) /\ k \in DOMAIN plan
    BY <1>1 DEF Fate, Preflighted, Members
  <2>2. cache[plan[k].pod] # Unread
    BY <2>1 DEF ShouldApply, Unread
  <2>3. cache[plan[k].pod] = live[plan[k].pod]
    BY <2>1, <2>2 DEF CalmInv, Calm
  <2> QED BY <2>1, <2>3
<1>3. /\ Members(g)' = Members(g) /\ Left(g)' = Members(g) /\ ~InPreflight(g)'
  <2>1. Members(g)' = Members(g)
    BY <1>1, GangsStay
  <2> QED BY <1>1, <1>2, <2>1 DEF Left, InPreflight
<1>4. applied' + Cardinality(Left(g)') <= MaxBinds
  <2>1. Cardinality(Left(g)') = GroupSize(g)
    BY <1>3 DEF GroupSize
  <2> QED BY <1>1, <2>1 DEF Fate, InPreflight
<1>5. ~Sealed(g) /\ g \in seen /\ ~Sealed(g)'
  <2>1. ~Sealed(g) /\ g \in seen
    BY PolicyAssumption DEF CalmInv, Calm, InPreflight, Refused, Sealed, Gang
  <2> QED BY <1>1, <2>1, GangsStay DEF Sealed
<1>6. \A k \in Members(g) : ~(k < i)
    BY <1>2, CalmTypes
<1>7. \A k \in Left(g)' : ShouldApply(plan[k], live[plan[k].pod])'
    BY <1>1, <1>2, <1>3 DEF ShouldApply
<1>8. Current'.group = g
    BY <1>1 DEF Current
<1> QED BY <1>1, <1>3, <1>4, <1>5, <1>6, <1>7, <1>8 DEF Fate

\* The first member that is met opens the preflight, and every member is ahead.
LEMMA OpeningKeepsFate ==
    ASSUME Placed, CalmInv, Undisturbed, NEW g, Gang(g), StartPreflight,
           Current.group = g
    PROVE  Fate(g)'
<1>1. /\ Fate(g) /\ g \notin seen /\ ~Sealed(g)
      /\ pc' = "preflight" /\ UNCHANGED <<i, skipped, outcomes, applied, plan, blocked>>
      /\ applied + GroupSize(g) <= MaxBinds
  <2>1. g \notin seen /\ ~Sealed(g) /\ ~Exceeds(g)
    BY PolicyAssumption DEF StartPreflight, FirstSight, Refused, Sealed, Gang
  <2>2. applied + GroupSize(g) <= MaxBinds
    BY <2>1, CalmTypes DEF Exceeds
  <2> QED BY <2>1, <2>2 DEF StartPreflight, Gang, CalmInv, Calm
<1>2. /\ Members(g)' = Members(g) /\ GroupSize(g)' = GroupSize(g) /\ ~Sealed(g)'
      /\ InPreflight(g)'
  <2>1. ~Sealed(g)'
    BY <1>1, GangsStay DEF Sealed
  <2> QED BY <1>1, <2>1, GangsStay DEF InPreflight, Current
<1>3. \A k \in Members(g) : k >= i
    BY <1>1 DEF Fate
<1> QED BY <1>1, <1>2, <1>3 DEF Fate

\* Nothing stops a member of a gang that goes through.
LEMMA NothingStops ==
    ASSUME Placed, CalmInv, Undisturbed, pc \in {"admit", "get", "post"},
           Gang(Current.group)
    PROVE  /\ applied < MaxBinds
           /\ ~CanaryRefuses(Current)
           /\ ShouldApply(Current, live[Current.pod])
           /\ Accepts(Current.pod)
<1> DEFINE g == Current.group
<1>1. /\ Fate(g) /\ ~Sealed(g) /\ g \in seen /\ ~InPreflight(g)
    BY PolicyAssumption DEF CalmInv, Calm, Refused, Sealed, InPreflight, Gang
<1>2. i \in Members(g) /\ i \in Left(g)
    BY CalmTypes DEF Placed, Position, Members, Current, Left
<1>3. /\ applied + Cardinality(Left(g)) <= MaxBinds
      /\ ShouldApply(Current, live[Current.pod])
    BY <1>1, <1>2 DEF Fate, Current
<1>4. Cardinality(Left(g)) # 0
    BY <1>2, CalmTypes, FS_EmptySet
<1>5. ~CanaryRefuses(Current)
    BY <1>1, <1>2 DEF Sealed, StaticallySkipped, Current, Gang
<1> QED BY <1>3, <1>4, <1>5, CalmTypes DEF ShouldApply, Accepts

\* What a report leaves, besides the fates.
LEMMA ReportKeepsCalm ==
    ASSUME Placed, CalmInv, Undisturbed, i <= Len(plan), NEW result, Report(result),
           UNCHANGED <<plan, blocked, late, live, cache>>,
           \A g : Gang(g) => Fate(g)'
    PROVE  Calm'
<1>1. Calm
    BY DEF CalmInv
<1>2. i' = i + 1 /\ pc' = "next" /\ i \in Nat
    BY CalmTypes DEF Report
<1>3. \A k \in DOMAIN plan : k >= i + 1 => k >= i
    BY <1>2, CalmTypes
<1>4. \A g : Gang(g)' => Fate(g)'
    BY GangsStay
<1> QED BY <1>1, <1>2, <1>3, <1>4 DEF Calm

\* What a step that stays at its entry leaves.
LEMMA StayingKeepsCalm ==
    ASSUME Placed, CalmInv, Undisturbed,
           UNCHANGED <<plan, blocked, late, live, i, skipped>>,
           \/ UNCHANGED cache
           \/ \E k \in DOMAIN plan : cache' = [cache EXCEPT ![plan[k].pod] = live[plan[k].pod]],
           pc' \notin {"next", "done"} =>
              /\ ~Refused(Current)
              /\ Current.group = NoGroup \/ Current.group \in seen',
           pc' = "done" => i > Len(plan),
           pc' = "confirm" => ~Gang(Current.group),
           \A g : Gang(g) => Fate(g)'
    PROVE  Calm'
<1>1. Calm /\ Current' = Current
    BY DEF CalmInv, Current
<1>2. \A g : Gang(g)' = Gang(g)
    BY GangsStay
<1>3. Refused(Current)' = Refused(Current)
    BY <1>1 DEF Refused, StaticallySkipped, GroupSize, Members, CanaryRefuses
<1>4. ASSUME NEW k \in DOMAIN plan, k >= i
      PROVE  cache'[plan[k].pod] \in {Unread, live[plan[k].pod]}
  <2>1. cache[plan[k].pod] \in {Unread, live[plan[k].pod]}
    BY <1>1, <1>4 DEF Calm
  <2>2. plan[k].pod \in Pod
    <3>1. plan[k] \in Entry
      BY <1>4, CalmTypes
    <3> QED BY <3>1 DEF Entry
  <2> QED BY <2>1, <2>2, CalmTypes
<1>5. /\ late' = {} /\ \A p \in Pod : live'[p].uid # 0
      /\ \A k \in DOMAIN plan' :
            k >= i' => cache'[plan'[k].pod] \in {Unread, live'[plan'[k].pod]}
    BY <1>1, <1>4 DEF Calm
<1>6. \A g : Gang(g)' => Fate(g)'
    BY <1>2
<1>7. Gang(Current.group)' = Gang(Current.group)
    <2>1. PICK g : g = Current.group
      OBVIOUS
    <2>2. Gang(g)' = Gang(g)
      BY <1>2
    <2> QED BY <1>1, <2>1, <2>2 DEF Gang, GroupSize, Members, Contiguous
<1> QED BY <1>1, <1>3, <1>5, <1>6, <1>7 DEF Calm

(* Every step keeps the fate of every group decided. *)
LEMMA NextCalm == Placed /\ CalmInv /\ [PassNext]_vars => CalmInv'
<1> SUFFICES ASSUME Placed, CalmInv, [PassNext]_vars PROVE CalmInv'
    OBVIOUS
<1>1. UNCHANGED <<plan, blocked>> /\ PodsApart' /\ i \in Nat
    BY PlanFixed, CalmTypes DEF CalmInv, PodsApart
<1>2. /\ changes' \in {changes, changes + 1} /\ faults' \in {faults, faults + 1}
      /\ changes \in Nat /\ faults \in Nat
    BY CalmTypes DEF PassNext, Step, Others, PodsChange, vars, world, locals,
       Finish, SkipRefused, SkipLargeGroup, StartPreflight, Continue,
       ReadMember, ReadMemberFails, JudgeGroup, Admit, FinalCheck,
       FinalCheckFails, PostAccepted, PostRejected, PostFails, Confirm,
       ConfirmFails, BoundByOther, Terminates, Disappears, Recreated,
       LatePostArrives, Change
<1>3. SUFFICES ASSUME Undisturbed' PROVE Calm'
    BY <1>1, <1>2 DEF CalmInv
<1>4. Undisturbed /\ Calm /\ UNCHANGED <<changes, faults>>
    BY <1>2, <1>3 DEF Undisturbed, CalmInv
<1>5. \A g : Gang(g) => Fate(g)
    BY <1>4 DEF Calm
<1>6. pc \notin {"next", "done"} \/ InPlan => i <= Len(plan)
    BY DEF Placed, Position, InPlan
<1>7. CASE SkipRefused
  <2>1. /\ UNCHANGED <<late, live, cache, seen, skipped>> /\ Report("skipped")
        /\ Refused(Current) /\ i <= Len(plan)
    BY <1>6, <1>7 DEF SkipRefused, world
  <2>2. ASSUME NEW g, Gang(g) PROVE Fate(g)'
    <3>1. CASE Current.group = g
      <4>1. Sealed(g)
        BY <2>1, <3>1 DEF Refused, Sealed
      <4> QED BY <1>1, <1>4, <2>1, <2>2, <3>1, <4>1, SealingKeepsFate
    <3>2. CASE Current.group # g
      BY <1>1, <1>4, <2>1, <2>2, <3>2, OtherReportKeepsFate
    <3> QED BY <3>1, <3>2
  <2> QED BY <1>1, <1>4, <2>1, <2>2, ReportKeepsCalm
<1>8. CASE SkipLargeGroup
  <2>1. /\ UNCHANGED <<late, live, cache>> /\ Report("skipped") /\ i <= Len(plan)
        /\ seen' = seen \cup {Current.group} /\ skipped' = skipped \cup {Current.group}
        /\ Current.group \notin seen /\ ~Refused(Current) /\ Current.group # NoGroup
    BY <1>6, <1>8 DEF SkipLargeGroup, FirstSight, world
  <2>2. ASSUME NEW g, Gang(g) PROVE Fate(g)'
    <3>1. CASE Current.group = g
      <4>1. \A k \in Members(g) : k >= i
        BY <1>5, <2>1, <2>2, <3>1 DEF Fate, Refused, Sealed
      <4> QED BY <1>1, <1>4, <2>1, <2>2, <3>1, <4>1, SealingKeepsFate
    <3>2. CASE Current.group # g
      BY <1>1, <1>4, <2>1, <2>2, <3>2, OtherReportKeepsFate
    <3> QED BY <3>1, <3>2
  <2> QED BY <1>1, <1>4, <2>1, <2>2, ReportKeepsCalm
<1>9. CASE JudgeGroup /\ ~Preflighted(Current.group)
  <2>1. /\ UNCHANGED <<late, live, cache, seen>> /\ Report("skipped") /\ i <= Len(plan)
        /\ skipped' = skipped \cup {Current.group} /\ pc = "preflight"
        /\ Current.group \in seen
    BY <1>6, <1>9 DEF JudgeGroup, SkipGroup, world, Placed, Position
  <2>2. ASSUME NEW g, Gang(g) PROVE Fate(g)'
    <3>1. CASE Current.group = g
      <4>1. \A k \in Members(g) : k >= i
        BY <1>5, <2>1, <2>2, <3>1 DEF Fate, InPreflight
      <4> QED BY <1>1, <1>4, <2>1, <2>2, <3>1, <4>1, SealingKeepsFate
    <3>2. CASE Current.group # g
      BY <1>1, <1>4, <2>1, <2>2, <3>2, OtherReportKeepsFate
    <3> QED BY <3>1, <3>2
  <2> QED BY <1>1, <1>4, <2>1, <2>2, ReportKeepsCalm
<1>10. CASE \/ (Admit /\ pc' = "next") \/ (FinalCheck /\ pc' = "next")
            \/ (PostRejected /\ DryRun) \/ Confirm
  <2>1. /\ UNCHANGED <<late, live, cache, seen, skipped>> /\ i <= Len(plan)
        /\ \E result : Report(result)
    BY <1>6, <1>10 DEF Admit, FinalCheck, PostRejected, Confirm, AfterPostError, world
  <2>2. ~Gang(Current.group)
    <3>1. CASE Admit /\ pc' = "next"
      <4>1. applied >= MaxBinds \/ CanaryRefuses(Current)
        BY <3>1 DEF Admit
      <4>2. pc = "admit" /\ (~(applied < MaxBinds) \/ CanaryRefuses(Current))
        BY <3>1, <4>1, CalmTypes DEF Admit
      <4> QED BY <1>4, <3>1, <4>2, NothingStops DEF Admit
    <3>2. CASE FinalCheck /\ pc' = "next"
      <4>1. pc = "get" /\ ~ShouldApply(Current, live[Current.pod])
        BY <3>2 DEF FinalCheck
      <4> QED BY <1>4, <4>1, NothingStops
    <3>3. CASE PostRejected
      BY <1>4, <3>3, NothingStops DEF PostRejected
    <3>4. CASE Confirm
      BY <1>4, <3>4 DEF Confirm, Calm
    <3> QED BY <1>10, <3>1, <3>2, <3>3, <3>4
  <2>3. ASSUME NEW g, Gang(g) PROVE Fate(g)'
    <3>1. Current.group # g
      BY <2>2, <2>3
    <3> QED BY <1>1, <1>4, <2>1, <2>3, <3>1, OtherReportKeepsFate
  <2> QED BY <1>1, <1>4, <2>1, <2>3, ReportKeepsCalm
<1>11. CASE PostAccepted
  <2>1. /\ UNCHANGED <<late, cache, seen, skipped>> /\ i <= Len(plan)
        /\ \E result : Report(result)
        /\ Persist(Current, i, horizon) /\ Accepts(Current.pod) /\ pc = "post"
    BY <1>6, <1>11 DEF PostAccepted
  <2>2. ASSUME NEW g, Gang(g) PROVE Fate(g)'
    <3>1. CASE Current.group = g
      BY <1>4, <1>11, <2>2, <3>1, BindingKeepsFate
    <3>2. CASE Current.group # g
      BY <1>1, <1>4, <2>1, <2>2, <3>2, OtherReportKeepsFate
    <3> QED BY <3>1, <3>2
  <2>3. i' = i + 1 /\ pc' = "next"
    BY <2>1 DEF Report
  <2>4. i \in DOMAIN plan /\ \A k \in DOMAIN plan : plan[k].pod \in Pod /\ k \in Nat
    <3>1. \A k \in DOMAIN plan : plan[k] \in Entry /\ k \in Nat
      BY CalmTypes
    <3> QED BY <2>1, <3>1, CurrentIsEntry DEF Entry
  <2>5. \A p \in Pod : live'[p].uid = live[p].uid /\ (p # plan[i].pod => live'[p] = live[p])
    <3>1. CASE DryRun
      BY <2>1, <3>1 DEF Persist
    <3>2. CASE ~DryRun
      BY <2>1, <3>2, CalmTypes DEF Persist, OnNode, Current
    <3> QED BY <3>1, <3>2
  <2>6. ASSUME NEW k \in DOMAIN plan, k >= i + 1
        PROVE  cache'[plan[k].pod] \in {Unread, live'[plan[k].pod]}
    <3>1. plan[k].pod # plan[i].pod /\ k >= i
      BY <1>1, <2>4, <2>6 DEF CalmInv, PodsApart
    <3>2. live'[plan[k].pod] = live[plan[k].pod]
      BY <2>4, <2>5, <3>1
    <3> QED BY <1>4, <2>1, <3>1, <3>2 DEF Calm
  <2>7. /\ late' = {} /\ \A p \in Pod : live'[p].uid # 0
    BY <1>4, <2>1, <2>5 DEF Calm
  <2>8. \A g : Gang(g)' => Fate(g)'
    BY <1>1, <2>2, GangsStay
  <2> QED BY <1>1, <2>3, <2>6, <2>7, <2>8 DEF Calm
<1>12. ASSUME NEW g, Gang(g), UNCHANGED <<i, outcomes, applied, live, skipped>>,
              g \in seen' <=> g \in seen, pc' # "preflight", pc # "preflight"
       PROVE  Fate(g)'
    BY <1>1, <1>4, <1>12, StayingKeepsFate DEF InPreflight
<1>13. CASE Finish \/ Continue
  <2>1. /\ UNCHANGED <<late, live, i, skipped, cache, outcomes, applied, seen>>
        /\ pc' \in {"admit", "done"} /\ pc = "next"
        /\ pc' = "done" => i > Len(plan)
        /\ pc' = "admit" => /\ ~Refused(Current)
                            /\ Current.group = NoGroup \/ Current.group \in seen
    <3>1. CASE Finish
      BY <3>1 DEF Finish, world
    <3>2. CASE Continue
      BY <3>2 DEF Continue, InPlan, FirstSight, world
    <3> QED BY <1>13, <3>1, <3>2
  <2>2. \A g : Gang(g) => Fate(g)'
    BY <1>12, <2>1
  <2> QED BY <1>1, <1>4, <2>1, <2>2, StayingKeepsCalm
<1>14. CASE StartPreflight
  <2>1. /\ UNCHANGED <<late, live, i, skipped, cache, outcomes, applied>>
        /\ pc' \in {"preflight", "admit"} /\ pc = "next" /\ ~Refused(Current)
        /\ seen' = seen \cup {Current.group}
    BY <1>14 DEF StartPreflight, InPlan, world
  <2>2. ASSUME NEW g, Gang(g) PROVE Fate(g)'
    <3>1. CASE Current.group = g
      BY <1>4, <1>14, <2>2, <3>1, OpeningKeepsFate
    <3>2. CASE Current.group # g
      <4>1. ~InPreflight(g) /\ ~InPreflight(g)' /\ (g \in seen' <=> g \in seen)
        BY <1>1, <2>1, <3>2 DEF InPreflight, Current
      <4> QED BY <1>1, <1>4, <2>1, <2>2, <4>1, StayingKeepsFate
    <3> QED BY <3>1, <3>2
  <2> QED BY <1>1, <1>4, <2>1, <2>2, StayingKeepsCalm
<1>15. CASE ReadMember
  <2>1. /\ UNCHANGED <<late, live, i, skipped, outcomes, applied, pc, seen>>
        /\ pc = "preflight"
        /\ \E k \in DOMAIN plan : cache' = [cache EXCEPT ![plan[k].pod] = live[plan[k].pod]]
    BY <1>15 DEF ReadMember, UnreadMembers, Members, world
  <2>2. ASSUME NEW g, Gang(g) PROVE Fate(g)'
    <3>1. InPreflight(g)' <=> InPreflight(g)
      BY <1>1, <2>1 DEF InPreflight, Current
    <3> QED BY <1>1, <1>4, <2>1, <2>2, <3>1, StayingKeepsFate
  <2>3. ~Refused(Current) /\ (Current.group = NoGroup \/ Current.group \in seen)
    BY <1>4, <2>1 DEF Calm
  <2> QED BY <1>1, <1>4, <2>1, <2>2, <2>3, StayingKeepsCalm
<1>16. CASE JudgeGroup /\ Preflighted(Current.group)
  <2>1. /\ UNCHANGED <<late, live, i, skipped, outcomes, applied, seen, cache>>
        /\ pc = "preflight" /\ pc' = "admit"
    BY <1>16 DEF JudgeGroup, world
  <2>2. ASSUME NEW g, Gang(g) PROVE Fate(g)'
    <3>1. CASE Current.group = g
      BY <1>4, <1>16, <2>1, <2>2, <3>1, JudgedKeepsFate DEF InPreflight
    <3>2. CASE Current.group # g
      <4>1. ~InPreflight(g) /\ ~InPreflight(g)'
        BY <2>1, <3>2 DEF InPreflight
      <4> QED BY <1>1, <1>4, <2>1, <2>2, <4>1, StayingKeepsFate
    <3> QED BY <3>1, <3>2
  <2>3. ~Refused(Current) /\ (Current.group = NoGroup \/ Current.group \in seen)
    BY <1>4, <2>1 DEF Calm
  <2> QED BY <1>1, <1>4, <2>1, <2>2, <2>3, StayingKeepsCalm
<1>17. CASE \/ (Admit /\ pc' # "next") \/ (FinalCheck /\ pc' # "next")
            \/ (PostRejected /\ ~DryRun)
  <2>1. /\ UNCHANGED <<late, live, i, skipped, outcomes, applied, seen, cache>>
        /\ pc \in {"admit", "get", "post"} /\ pc' \in {"get", "post", "confirm"}
        /\ pc' = "confirm" => PostRejected
    <3>1. CASE Admit /\ pc' # "next"
      BY <3>1 DEF Admit, Report, world
    <3>2. CASE FinalCheck /\ pc' # "next"
      BY <3>2 DEF FinalCheck, Report, world
    <3>3. CASE PostRejected /\ ~DryRun
      BY <3>3 DEF PostRejected, AfterPostError, world
    <3> QED BY <1>17, <3>1, <3>2, <3>3
  <2>2. \A g : Gang(g) => Fate(g)'
    BY <1>12, <2>1
  <2>3. ~Refused(Current) /\ (Current.group = NoGroup \/ Current.group \in seen)
    BY <1>4, <2>1 DEF Calm
  <2>4. pc' = "confirm" => ~Gang(Current.group)
    BY <1>4, <2>1, NothingStops DEF PostRejected
  <2> QED BY <1>1, <1>4, <2>1, <2>2, <2>3, <2>4, StayingKeepsCalm
<1>18. CASE UNCHANGED vars
  <2>1. UNCHANGED <<late, live, i, skipped, outcomes, applied, seen, cache, pc>>
    BY <1>18 DEF vars, world, locals
  <2>2. ASSUME NEW g, Gang(g) PROVE Fate(g)'
    <3>1. InPreflight(g)' <=> InPreflight(g)
      BY <1>1, <2>1 DEF InPreflight, Current
    <3> QED BY <1>1, <1>4, <2>1, <2>2, <3>1, StayingKeepsFate
  <2>3. \A g : Gang(g)' => Fate(g)'
    BY <1>1, <2>2, GangsStay
  <2>4. /\ pc' \notin {"next", "done"} =>
              /\ ~Refused(Current)
              /\ Current.group = NoGroup \/ Current.group \in seen'
        /\ pc' = "done" => i > Len(plan)
        /\ pc' = "confirm" => ~Gang(Current.group)
    BY <1>4, <2>1 DEF Calm
  <2>5. ASSUME pc \in {"next", "done"} PROVE Calm'
    BY <1>1, <1>4, <2>1, <2>3, <2>5 DEF Calm
  <2> QED BY <1>1, <1>4, <2>1, <2>2, <2>4, StayingKeepsCalm
<1>19. ~(ReadMemberFails \/ FinalCheckFails \/ PostFails \/ ConfirmFails)
    BY <1>2, <1>4 DEF ReadMemberFails, FinalCheckFails, PostFails, ConfirmFails
<1>20. ~Others
    BY <1>2, <1>4 DEF Others, PodsChange, Terminates, Disappears, Recreated, BoundByOther,
       Change, Calm
<1>21. /\ Admit => pc' = "next" \/ pc' # "next"
       /\ FinalCheck => pc' = "next" \/ pc' # "next"
    OBVIOUS
<1> QED BY <1>7, <1>8, <1>9, <1>10, <1>11, <1>13, <1>14, <1>15, <1>16, <1>17, <1>18,
           <1>19, <1>20, <1>21 DEF PassNext, Step

\* A pass starts undisturbed, with every pod in the plan once.
LEMMA InitCalm == PassInit => CalmInv
<1> SUFFICES ASSUME PassInit PROVE CalmInv
    OBVIOUS
<1>1. PICK order \in Bijection(1..Cardinality(Pod), Pod), odd \in [Pod -> Oddity] :
         /\ live = [p \in Pod |->
                [uid |-> CHOOSE k \in 1..Cardinality(Pod) : order[k] = p,
                 node |-> NoNode, deleting |-> FALSE,
                 kind |-> IF odd[p] \in Kind THEN odd[p] ELSE "ours"]]
         /\ plan = [k \in 1..Cardinality(Pod) |->
                [pod |-> order[k], uid |-> k,
                 group |-> WorkloadOf[order[k]], node |-> Target[order[k]],
                 gpus |-> IF odd[order[k]] = "big" THEN LowRiskGpus + 1 ELSE 1,
                 ready |-> odd[order[k]] # "stale"]]
    BY DEF PassInit
<1>2. Cardinality(Pod) \in Nat /\ Placed
    BY PodsAssumption, FS_CardinalityType, InitPlaced
<1>3. /\ order \in [1..Cardinality(Pod) -> Pod]
      /\ \A p \in Pod : \E k \in 1..Cardinality(Pod) : order[k] = p
      /\ \A j, k \in 1..Cardinality(Pod) : order[j] = order[k] => j = k
    BY DEF Bijection, Injection, Surjection, IsInjective
<1>4. DOMAIN plan = 1..Cardinality(Pod)
    BY <1>1
<1>5. PodsApart
    BY <1>1, <1>3, <1>4 DEF PodsApart
<1>6. ASSUME NEW p \in Pod PROVE live[p].uid # 0
  <2> DEFINE u == CHOOSE k \in 1..Cardinality(Pod) : order[k] = p
  <2>1. u \in 1..Cardinality(Pod)
    BY <1>3
  <2>2. live[p].uid = u
    BY <1>1
  <2> HIDE DEF u
  <2> QED BY <1>2, <2>1, <2>2
<1>7. /\ late = {} /\ pc = "next" /\ i = 1 /\ seen = {} /\ skipped = {}
      /\ cache = [p \in Pod |-> Unread] /\ changes = 0
    BY DEF PassInit
<1>8. ASSUME NEW k \in DOMAIN plan PROVE cache[plan[k].pod] = Unread /\ k >= 1
  <2>1. plan[k].pod \in Pod /\ k >= 1
    BY <1>1, <1>2, <1>3, <1>4, <1>8
  <2> QED BY <1>7, <2>1
<1>9. ASSUME NEW g, Gang(g) PROVE Fate(g)
  <2>1. \A k \in Members(g) : k >= i /\ ~(k < i)
    BY <1>2, <1>4, <1>7 DEF Members
  <2> QED BY <1>7, <2>1 DEF Fate, InPreflight
<1>10. Calm
    BY <1>6, <1>7, <1>8, <1>9 DEF Calm
<1> QED BY <1>5, <1>7, <1>10 DEF CalmInv

\* With the members of a group side by side in the plan and nobody interfering,
\* the pass binds all of them or none, whatever its throttle.
THEOREM GangsAreWhole == PassSpec => []ContiguousGroupIsWhole
<1>1. PassSpec => [](Placed /\ CalmInv)
    BY InitPlaced, InitCalm, NextPlaced, NextCalm, PTL DEF PassSpec
<1>2. Placed /\ CalmInv => ContiguousGroupIsWhole
  <2> SUFFICES ASSUME Placed, CalmInv, pc = "done", Undisturbed,
                      NEW g \in Group, Contiguous(g)
               PROVE  BoundMembers(g) \in {{}, Members(g)}
    BY DEF ContiguousGroupIsWhole
  <2>1. /\ i > Len(plan)
        /\ \A k \in Members(g) : k \in 1..Len(plan) /\ k < i
        /\ \A k \in BoundMembers(g) : k \in Members(g)
    BY CalmTypes DEF CalmInv, Calm, BoundMembers
  <2>2. CASE GroupSize(g) > 1
    <3>1. Fate(g) /\ Gang(g)
      BY <2>2 DEF CalmInv, Calm, Gang
    <3>2. CASE Sealed(g)
      <4>1. \A k \in Members(g) : outcomes[k] \notin Good
        BY <2>1, <3>1, <3>2 DEF Fate
      <4>2. BoundMembers(g) = {}
        BY <4>1 DEF BoundMembers, Good
      <4> QED BY <4>2
    <3>3. CASE ~Sealed(g) /\ g \in seen
      <4>1. ~InPreflight(g)
        BY DEF InPreflight
      <4>2. \A k \in Members(g) : outcomes[k] \in Good
        BY <2>1, <3>1, <3>3, <4>1 DEF Fate
      <4>3. BoundMembers(g) = Members(g)
        BY <4>2 DEF BoundMembers, Good
      <4> QED BY <4>3
    <3>4. CASE ~Sealed(g) /\ g \notin seen
      <4>1. \A k \in Members(g) : k >= i
        BY <3>1, <3>4 DEF Fate
      <4>2. Members(g) = {}
        BY <2>1, <4>1, CalmTypes
      <4> QED BY <2>1, <4>2
    <3> QED BY <3>2, <3>3, <3>4
  <2>3. CASE ~(GroupSize(g) > 1)
    <3>1. IsFiniteSet(Members(g)) /\ (GroupSize(g) = 0 \/ GroupSize(g) = 1)
      BY <2>3, CalmTypes
    <3>2. CASE GroupSize(g) = 0
      <4>1. Members(g) = {}
        BY <3>1, <3>2, FS_EmptySet DEF GroupSize
      <4> QED BY <2>1, <4>1
    <3>3. CASE GroupSize(g) = 1
      <4>1. PICK m : Members(g) = {m}
        BY <3>1, <3>3, FS_Singleton DEF GroupSize
      <4> QED BY <2>1, <4>1
    <3> QED BY <3>1, <3>2, <3>3
  <2> QED BY <2>2, <2>3
<1> QED BY <1>1, <1>2, PTL

-----------------------------------------------------------------------------
(***************************************************************************)
(* The loop around the binder.                                             *)
(***************************************************************************)

\* The ledger's totals are sums of the same kind.
LEMMA LedgerSums ==
    \A f, S : Ledger!SumFunctionOnSet(f, S) = SumFunctionOnSet(f, S)
BY DEF Ledger!SumFunctionOnSet, Ledger!FoldFunctionOnSet, Ledger!MapThenFoldSet,
       SumFunctionOnSet, FoldFunctionOnSet, MapThenFoldSet

\* The pods some entry names for node n.
PodsOf(entries, n) == {e.pod : e \in {e \in entries : e.node = n}}

(* The pods of a set of entries cost no more than the entries are charged. *)
LEMMA EntriesCost ==
    ASSUME NEW entries \in SUBSET Ledger!Entry, IsFiniteSet(entries), NEW n
    PROVE  /\ IsFiniteSet(PodsOf(entries, n)) /\ PodsOf(entries, n) \subseteq Pod
           /\ Ledger!Gpus(Ledger!OnNode(entries, n)) \in Nat
           /\ SumFunctionOnSet(GpusOf, PodsOf(entries, n))
                  <= Ledger!Gpus(Ledger!OnNode(entries, n))
<1> DEFINE on == {e \in entries : e.node = n}
           g  == [e \in on |-> e.pod]
           h  == [e \in on |-> GpusOf[e.pod]]
<1>1. IsFiniteSet(on) /\ \A e \in on : e.pod \in Pod /\ GpusOf[g[e]] \in Nat /\ h[e] \in Nat
  BY FS_Subset, LoopAssumption DEF Ledger!Entry
<1>2. PodsOf(entries, n) = {g[e] : e \in on} /\ PodsOf(entries, n) \subseteq Pod
  BY <1>1 DEF PodsOf
<1>3. h = [e \in on |-> GpusOf[g[e]]]
  OBVIOUS
<1>4. Ledger!Gpus(Ledger!OnNode(entries, n)) = SumFunctionOnSet(h, on)
  BY LedgerSums DEF Ledger!Gpus, Ledger!OnNode, Ledger!SumFunction
<1> HIDE DEF on, g
<1>5. /\ IsFiniteSet({g[e] : e \in on})
      /\ SumFunctionOnSet(GpusOf, {g[e] : e \in on})
             <= SumFunctionOnSet([e \in on |-> GpusOf[g[e]]], on)
  BY <1>1, SumImage
<1>6. SumFunctionOnSet(h, on) = SumFunctionOnSet([e \in on |-> GpusOf[g[e]]], on)
  BY <1>3, Zenon
<1>7. SumFunctionOnSet(h, on) \in Nat
  <2> HIDE DEF h
  <2> QED BY <1>1, SumNat
<1> HIDE DEF h
<1>8. SumFunctionOnSet(GpusOf, {g[e] : e \in on}) = SumFunctionOnSet(GpusOf, PodsOf(entries, n))
  BY <1>2, Zenon
<1>9. IsFiniteSet(PodsOf(entries, n))
  BY <1>2, <1>5, Zenon
<1> QED BY <1>2, <1>4, <1>5, <1>6, <1>7, <1>8, <1>9

-----------------------------------------------------------------------------
\* Some reservation holds node n for pod p, whatever its identity.
Covers(p, n) ==
    \E id \in DOMAIN reservations : \E e \in reservations[id].entries :
        e.pod = p /\ e.node = n

\* The pods whose GPUs node n must have: those that run there, and those a
\* reservation may yet bring there.
Holding(n) == {p \in Pod : live[p].node = n \/ Covers(p, n)}

LedgerTypes ==
    /\ nextId \in Nat \ {0}
    /\ DOMAIN reservations \subseteq 1..(nextId - 1)
    /\ \A id \in DOMAIN reservations :
          /\ reservations[id].entries \subseteq Ledger!Entry
          /\ IsFiniteSet(reservations[id].entries)

LoopTypes ==
    /\ observed \in [Pod -> Nat]
    /\ phase \in {"idle", "collected", "applying"}

\* The binder runs only while a pass is applied, and posts only ready entries.
Sent == pc = "post" => phase = "applying" /\ Current.ready

\* Every ready entry of the running pass is reserved.
PlanReserved ==
    phase = "applying" =>
        \A k \in DOMAIN plan : plan[k].ready => Covered(plan[k])

\* During a pass only pods are reserved that its snapshot shows unbound.
ReservedIsOpen ==
    phase # "idle" =>
        \A id \in DOMAIN reservations : \A e \in reservations[id].entries :
            Ledger!StillOpen(snapshot, e)

\* A pod the snapshot shows on a node does not turn up on another behind it.
SeenStays ==
    phase # "idle" /\ ~uncovered =>
        \A p \in Pod : snapshot.pods[p].node # NoNode =>
            live[p].node \in {NoNode, snapshot.pods[p].node}

Noticed == ~uncovered => ~Unaccounted

\* What runs on a node and what may yet come to it fit there together.
Room ==
    ~uncovered => \A n \in Node : SumFunctionOnSet(GpusOf, Holding(n)) <= Capacity[n]

LoopInv ==
    /\ Placed /\ LedgerTypes /\ LoopTypes
    /\ Sent /\ PlanReserved /\ ReservedIsOpen /\ SeenStays /\ Noticed /\ Room

-----------------------------------------------------------------------------
\* The uids of the first pods are numbers: a set written as a sequence has each
\* of its elements somewhere.
LEMMA SequenceOfPods ==
    \A p \in Pod : (CHOOSE k \in 1..Cardinality(Pod) : SetToSeq(Pod)[k] = p) \in Nat
<1> DEFINE n == Cardinality(Pod)
<1>1. n \in Nat /\ ExistsBijection(1..n, Pod)
  BY PodsAssumption, FS_CardinalityType
<1>2. \E f \in [1..n -> Pod] : IsInjective(f)
  BY <1>1 DEF ExistsBijection, Bijection, Injection
<1>3. SetToSeq(Pod) \in [1..n -> Pod] /\ IsInjective(SetToSeq(Pod))
  BY <1>2 DEF SetToSeq
<1> DEFINE f == SetToSeq(Pod)
<1> HIDE DEF f
<1>4. ASSUME NEW p \in Pod, \A k \in 1..n : f[k] # p PROVE FALSE
  <2>1. f \in [1..n -> Pod \ {p}]
    BY <1>3, <1>4 DEF f
  <2>2. IsFiniteSet(Pod \ {p}) /\ Cardinality(Pod \ {p}) = n - 1
    BY PodsAssumption, FS_RemoveElement
  <2>3. IsFiniteSet(1..n) /\ Cardinality(1..n) = n
    BY <1>1, FS_Interval
  <2>4. Cardinality(Pod \ {p}) < Cardinality(1..n)
    BY <1>1, <2>2, <2>3
  <2>5. PICK j, k \in 1..n : j # k /\ f[j] = f[k]
    <3> HIDE DEF n
    <3> QED BY <2>1, <2>2, <2>3, <2>4, FS_PigeonHole
  <2> QED BY <1>3, <2>5 DEF IsInjective, f
<1>5. \A p \in Pod : \E k \in 1..n : SetToSeq(Pod)[k] = p
  BY <1>4 DEF f
<1> QED BY <1>1, <1>5

(* The pods of one node are finitely many. *)
LEMMA PodsAreFinite ==
    \A n : IsFiniteSet(Holding(n)) /\ IsFiniteSet({p \in Pod : live[p].node = n})
BY PodsAssumption, FS_Subset DEF Holding

\* Where pods go only as reservations allow, and no reservation is added, no node
\* gets fuller.
LEMMA RoomStays ==
    ASSUME Room, uncovered' => TRUE, ~uncovered' => ~uncovered,
           \A p \in Pod : \/ live'[p].node \in {live[p].node, NoNode}
                          \/ Covers(p, live'[p].node),
           \A p \in Pod, n \in Node : Covers(p, n)' => Covers(p, n)
    PROVE  Room'
<1> SUFFICES ASSUME ~uncovered', NEW n \in Node
             PROVE  SumFunctionOnSet(GpusOf, Holding(n)') <= Capacity[n]
    BY DEF Room
<1>1. Holding(n)' \subseteq Holding(n)
  BY PolicyAssumption DEF Holding
<1>2. SumFunctionOnSet(GpusOf, Holding(n)) <= Capacity[n]
  BY DEF Room
<1>3. IsFiniteSet(Holding(n)) /\ \A p \in Holding(n) : GpusOf[p] \in Nat
  BY PodsAreFinite, LoopAssumption DEF Holding
<1>4. SumFunctionOnSet(GpusOf, Holding(n)') <= SumFunctionOnSet(GpusOf, Holding(n))
  BY <1>1, <1>3, SumSubset
<1>5. /\ SumFunctionOnSet(GpusOf, Holding(n)) \in Nat
      /\ SumFunctionOnSet(GpusOf, Holding(n)') \in Nat
      /\ Capacity[n] \in Nat
  <2>1. IsFiniteSet(Holding(n)') /\ \A p \in Holding(n)' : GpusOf[p] \in Nat
    BY <1>1, <1>3, FS_Subset
  <2> QED BY <1>3, <2>1, SumNat, LoopAssumption
<1> QED BY <1>2, <1>4, <1>5

\* Initially nothing runs and nothing is reserved.
LEMMA InitLoop == Init => LoopInv
<1> SUFFICES ASSUME Init PROVE LoopInv
    OBVIOUS
<1>1. Placed
  <2>1. Cardinality(Pod) \in Nat
    BY PodsAssumption, FS_CardinalityType
  <2>2. live \in [Pod -> PodView]
    BY SequenceOfPods, LoopAssumption DEF Init, PodView, Kind
  <2>3. cache \in [Pod -> PodView]
    BY DEF Init, Unread, PodView, Kind
  <2>4. PlanTypes
    <3>1. plan = <<>> /\ blocked = FALSE
      BY DEF Init
    <3>2. plan \in Seq(Entry)
      BY <3>1
    <3>3. blocked \in BOOLEAN
      BY <3>1
    <3> QED BY <3>2, <3>3 DEF PlanTypes
  <2>5. nextUid \in Nat /\ late = {} /\ mutations = {}
    BY <2>1 DEF Init
  <2>6. WorldTypes
    BY <2>2, <2>5 DEF WorldTypes
  <2>7. LocalTypes /\ Position
    BY <2>3 DEF Init, LocalTypes, Position
  <2> QED BY <2>4, <2>6, <2>7 DEF Placed
<1>2. LedgerTypes /\ LoopTypes /\ DOMAIN reservations = {}
  BY DEF Init, LedgerTypes, LoopTypes, NoReservations
<1>3. Sent /\ PlanReserved /\ ReservedIsOpen /\ SeenStays /\ Noticed
  BY DEF Init, Sent, PlanReserved, ReservedIsOpen, SeenStays, Noticed, Unaccounted
<1>4. Room
  <2> SUFFICES ASSUME NEW n \in Node PROVE SumFunctionOnSet(GpusOf, Holding(n)) <= Capacity[n]
      BY DEF Room
  <2>1. \A p \in Pod : live[p].node = NoNode
    BY DEF Init
  <2>2. Holding(n) = {}
    BY <1>2, <2>1, PolicyAssumption DEF Holding, Covers
  <2>3. SumFunctionOnSet(GpusOf, Holding(n)) = 0
    BY <2>2, SumEmpty, Zenon
  <2> QED BY <2>3, LoopAssumption
<1> QED BY <1>1, <1>2, <1>3, <1>4 DEF LoopInv

-----------------------------------------------------------------------------
\* A pod moves only off its node, or to a node reserved for it.
Moves ==
    \A p \in Pod : \/ live'[p].node \in {live[p].node, NoNode}
                   \/ Covers(p, live'[p].node)

\* Nothing new is reserved.
NoNewReservation ==
    /\ DOMAIN reservations' \subseteq DOMAIN reservations
    /\ \A id \in DOMAIN reservations' :
          reservations'[id].entries \subseteq reservations[id].entries

\* What every step but Collect and a granted Solve does to the invariant.
LEMMA Carried ==
    ASSUME LoopInv, Placed', LedgerTypes', LoopTypes', Sent', PlanReserved', Notice,
           ~uncovered => Moves, NoNewReservation,
           phase' # "idle" => phase # "idle" /\ snapshot' = snapshot
    PROVE  LoopInv'
<1>1. ~uncovered' => ~uncovered /\ ~Unaccounted'
  BY DEF Notice
<1>2. \A p \in Pod, n \in Node : Covers(p, n)' => Covers(p, n)
  BY DEF NoNewReservation, Covers
<1>3. Room'
  <2>1. CASE uncovered'
    BY <2>1 DEF Room
  <2>2. CASE ~uncovered'
    BY <1>1, <1>2, <2>2, RoomStays DEF LoopInv, Moves
  <2> QED BY <2>1, <2>2
<1>4. ReservedIsOpen'
  <2> SUFFICES ASSUME phase' # "idle", NEW id \in DOMAIN reservations',
                      NEW e \in reservations'[id].entries
               PROVE  Ledger!StillOpen(snapshot', e)
      BY DEF ReservedIsOpen, Ledger!StillOpen
  <2>1. Ledger!StillOpen(snapshot, e)
    BY DEF LoopInv, ReservedIsOpen, NoNewReservation
  <2> QED BY <2>1
<1>5. SeenStays'
  <2> SUFFICES ASSUME phase' # "idle", ~uncovered', NEW p \in Pod,
                      snapshot'.pods[p].node # NoNode
               PROVE  live'[p].node \in {NoNode, snapshot'.pods[p].node}
      BY DEF SeenStays
  <2>1. phase # "idle" /\ snapshot' = snapshot /\ ~uncovered
    BY <1>1
  <2>2. live[p].node \in {NoNode, snapshot.pods[p].node}
    BY <2>1 DEF LoopInv, SeenStays
  <2>3. \A n : ~Covers(p, n)
    BY <2>1 DEF Covers, LoopInv, ReservedIsOpen, Ledger!StillOpen
  <2> QED BY <2>1, <2>2, <2>3 DEF Moves
<1>6. Noticed'
  BY <1>1 DEF Noticed
<1> QED BY <1>3, <1>4, <1>5, <1>6 DEF LoopInv

\* While the reservations stay and the pass goes on, its plan stays reserved.
LEMMA PlanStaysReserved ==
    ASSUME PlanReserved, UNCHANGED plan,
           phase' = "applying" => phase = "applying",
           DOMAIN reservations' = DOMAIN reservations,
           \A id \in DOMAIN reservations :
               reservations'[id].entries = reservations[id].entries
    PROVE  PlanReserved'
BY DEF PlanReserved, Covered, Reserved

\* What a step of the binder does to the pods, and that it only posts what is ready.
LEMMA BinderStep ==
    ASSUME Placed, Step
    PROVE  /\ UNCHANGED plan
           /\ pc' = "post" => Current'.ready
           /\ \A p \in Pod : \/ live'[p].node = live[p].node
                             \/ /\ pc = "post" /\ p = Current.pod
                                /\ live'[p].node = Current.node
           /\ \A l \in late' : l \in late \/ (pc = "post" /\ l.entry = Current)
<1>1. UNCHANGED plan
  BY DEF Step, world, Finish, SkipRefused, SkipLargeGroup, StartPreflight, Continue,
       ReadMember, ReadMemberFails, JudgeGroup, Admit, FinalCheck,
       FinalCheckFails, PostAccepted, PostRejected, PostFails, Confirm,
       ConfirmFails, SkipGroup
<1>2. ASSUME pc' = "post" PROVE Current'.ready
  <2>1. FinalCheck
    BY <1>2 DEF Step, world, Finish, SkipRefused, SkipLargeGroup, StartPreflight, Continue,
       ReadMember, ReadMemberFails, JudgeGroup, Admit, InPlan,
       FinalCheckFails, PostAccepted, PostRejected, PostFails, Confirm,
       ConfirmFails, SkipGroup, Report, AfterPostError
  <2> QED BY <1>1, <1>2, <2>1 DEF FinalCheck, Report, ShouldApply, Current
<1>3. CASE UNCHANGED <<live, late>>
  BY <1>1, <1>2, <1>3
<1>4. ASSUME Persist(Current, i, horizon), UNCHANGED late, pc = "post"
      PROVE  /\ \A p \in Pod : \/ live'[p].node = live[p].node
                               \/ /\ pc = "post" /\ p = Current.pod
                                  /\ live'[p].node = Current.node
             /\ \A l \in late' : l \in late \/ (pc = "post" /\ l.entry = Current)
  <2>1. live \in [Pod -> PodView]
    BY DEF Placed, WorldTypes
  <2> QED BY <1>4, <2>1 DEF Persist, OnNode
<1>5. CASE PostAccepted
  BY <1>1, <1>2, <1>4, <1>5 DEF PostAccepted
<1>6. CASE PostFails
  <2>1. CASE Persist(Current, i, horizon) /\ UNCHANGED late
    BY <1>1, <1>2, <1>4, <1>6, <2>1 DEF PostFails
  <2>2. CASE /\ late' = late \cup {[entry |-> Current, index |-> i, since |-> horizon]}
             /\ UNCHANGED live
    BY <1>1, <1>2, <1>6, <2>2 DEF PostFails
  <2> QED BY <1>3, <1>6, <2>1, <2>2 DEF PostFails
<1> QED BY <1>3, <1>5, <1>6 DEF Step, world, Finish, SkipRefused, SkipLargeGroup,
       StartPreflight, Continue, ReadMember, ReadMemberFails, JudgeGroup, Admit,
       FinalCheck, FinalCheckFails, PostRejected, Confirm, ConfirmFails

\* The locals of a pass that starts are well formed, whatever its plan.
LEMMA StartPlaced ==
    ASSUME Placed, NEW p \in Seq(Entry), NEW gated \in BOOLEAN, StartPass(p, gated),
           UNCHANGED <<live, nextUid>>, faults' \in Nat,
           late' \subseteq [entry : Entry, index : Nat, since : Nat]
    PROVE  Placed' /\ pc' = "next" /\ plan' = p
<1>1. PlanTypes' /\ WorldTypes'
  BY DEF StartPass, PlanTypes, WorldTypes, Placed
<1>2. cache' \in [Pod -> PodView]
  BY DEF StartPass, Unread, PodView, Kind
<1>3. Len(p) \in Nat
  OBVIOUS
<1>4. LocalTypes' /\ Position'
  BY <1>2, <1>3 DEF StartPass, LocalTypes, Position
<1> QED BY <1>1, <1>4 DEF StartPass, Placed

-----------------------------------------------------------------------------
\* Reservations whose totals can be taken.
Summable(rs) ==
    /\ IsFiniteSet(DOMAIN rs)
    /\ \A id \in DOMAIN rs : /\ rs[id].entries \subseteq Ledger!Entry
                             /\ IsFiniteSet(rs[id].entries)

\* The pods that reservations bring to node n.
Brought(rs, n) == UNION {PodsOf(rs[id].entries, n) : id \in DOMAIN rs}

\* They ask for no more than the ledger has committed there, though a pod may be
\* reserved twice.
LEMMA CommittedCovers ==
    ASSUME NEW rs, Summable(rs), NEW n
    PROVE  /\ IsFiniteSet(Brought(rs, n))
           /\ Ledger!CommittedOn(rs, n) \in Nat
           /\ SumFunctionOnSet(GpusOf, Brought(rs, n))
                  <= Ledger!CommittedOn(rs, n)
<1> DEFINE I    == DOMAIN rs
           part == [id \in I |-> PodsOf(rs[id].entries, n)]
           f    == [id \in I |-> SumFunctionOnSet(GpusOf, part[id])]
           h    == [id \in I |-> Ledger!Gpus(Ledger!OnNode(rs[id].entries, n))]
           all  == UNION {part[id] : id \in I}
<1>1. IsFiniteSet(I)
  BY DEF Summable
<1>2. ASSUME NEW id \in I
      PROVE  /\ part[id] = PodsOf(rs[id].entries, n)
             /\ IsFiniteSet(part[id]) /\ part[id] \subseteq Pod
             /\ h[id] \in Nat /\ f[id] = SumFunctionOnSet(GpusOf, part[id])
             /\ f[id] <= h[id]
  <2>1. rs[id].entries \in SUBSET Ledger!Entry /\ IsFiniteSet(rs[id].entries)
    BY DEF Summable
  <2>2. /\ IsFiniteSet(PodsOf(rs[id].entries, n)) /\ PodsOf(rs[id].entries, n) \subseteq Pod
        /\ Ledger!Gpus(Ledger!OnNode(rs[id].entries, n)) \in Nat
        /\ SumFunctionOnSet(GpusOf, PodsOf(rs[id].entries, n))
               <= Ledger!Gpus(Ledger!OnNode(rs[id].entries, n))
    BY <2>1, EntriesCost
  <2>3. part[id] = PodsOf(rs[id].entries, n)
    OBVIOUS
  <2>4. f[id] = SumFunctionOnSet(GpusOf, part[id])
    OBVIOUS
  <2>5. h[id] = Ledger!Gpus(Ledger!OnNode(rs[id].entries, n))
    OBVIOUS
  <2> HIDE DEF part, f, h
  <2>6. SumFunctionOnSet(GpusOf, part[id]) = SumFunctionOnSet(GpusOf, PodsOf(rs[id].entries, n))
    BY <2>3, Zenon
  <2>7. IsFiniteSet(part[id])
    BY <2>2, <2>3, Zenon
  <2> QED BY <2>2, <2>3, <2>4, <2>5, <2>6, <2>7
<1>3. all = Brought(rs, n)
  BY DEF Brought
<1>4. \A id \in I : \A x \in part[id] : GpusOf[x] \in Nat
  BY <1>2, LoopAssumption
<1>5. h = [id \in I |-> Ledger!Gpus(Ledger!OnNode(rs[id].entries, n))]
  OBVIOUS
<1>6. Ledger!CommittedOn(rs, n) = SumFunctionOnSet(h, I)
  BY LedgerSums DEF Ledger!CommittedOn, Ledger!SumFunction
<1>7. f = [id \in I |-> SumFunctionOnSet(GpusOf, part[id])]
  OBVIOUS
<1> HIDE DEF I, part, f, h
<1>8. /\ IsFiniteSet(UNION {part[id] : id \in I})
      /\ SumFunctionOnSet(GpusOf, UNION {part[id] : id \in I})
             <= SumFunctionOnSet([id \in I |-> SumFunctionOnSet(GpusOf, part[id])], I)
  BY <1>1, <1>2, <1>4, SumCover
<1>9. SumFunctionOnSet(f, I) = SumFunctionOnSet([id \in I |-> SumFunctionOnSet(GpusOf, part[id])], I)
  BY <1>7, Zenon
<1>10. \A id \in I : f[id] \in Nat
  <2> TAKE id \in I
  <2>1. SumFunctionOnSet(GpusOf, part[id]) \in Nat
    BY <1>2, <1>4, SumNat
  <2> QED BY <1>2, <2>1
<1>11. SumFunctionOnSet(f, I) <= SumFunctionOnSet(h, I)
  BY <1>1, <1>2, <1>10, SumMonotone
<1>12. SumFunctionOnSet(f, I) \in Nat /\ SumFunctionOnSet(h, I) \in Nat
  BY <1>1, <1>2, <1>10, SumNat
<1>13. \A x \in all : GpusOf[x] \in Nat
  BY <1>4
<1>14. IsFiniteSet(all) /\ SumFunctionOnSet(GpusOf, all) <= SumFunctionOnSet(f, I)
  BY <1>8, <1>9
<1> HIDE DEF all
<1>15. SumFunctionOnSet(GpusOf, all) \in Nat
  BY <1>13, <1>14, SumNat
<1>16. SumFunctionOnSet(GpusOf, all) <= SumFunctionOnSet(h, I)
  BY <1>11, <1>12, <1>14, <1>15
<1> QED BY <1>3, <1>6, <1>12, <1>14, <1>16, Zenon

(* A well-typed ledger can be summed. *)
LEMMA LedgerIsSummable == LedgerTypes => Summable(reservations)
<1> SUFFICES ASSUME LedgerTypes PROVE Summable(reservations)
    OBVIOUS
<1>1. IsFiniteSet(1..(nextId - 1))
  BY FS_Interval DEF LedgerTypes
<1>2. IsFiniteSet(DOMAIN reservations)
  BY <1>1, FS_Subset DEF LedgerTypes
<1> QED BY <1>2 DEF LedgerTypes, Summable

\* With nothing new in it the ledger stays well formed.
LEMMA LessIsTyped ==
    ASSUME LedgerTypes, NoNewReservation, nextId' \in Nat \ {0},
           DOMAIN reservations' \subseteq 1..(nextId' - 1)
    PROVE  LedgerTypes'
<1>1. \A id \in DOMAIN reservations' :
         /\ reservations'[id].entries \subseteq Ledger!Entry
         /\ IsFiniteSet(reservations'[id].entries)
  BY FS_Subset DEF LedgerTypes, NoNewReservation
<1> QED BY <1>1 DEF LedgerTypes, Ledger!Entry

\* The ids that are numbered again after a snapshot are again below the next one.
LEMMA NextIdFits ==
    ASSUME NEW ids, ids \subseteq Nat \ {0}, IsFiniteSet(ids),
           NEW next, next = Max({0} \cup ids) + 1
    PROVE  next \in Nat \ {0} /\ ids \subseteq 1..(next - 1)
<1> DEFINE S == {0} \cup ids
<1>1. S \subseteq Int /\ IsFiniteSet(S) /\ S # {}
  BY FS_AddElement
<1>2. \E m \in S : \A k \in S : k <= m
  <2> HIDE DEF S
  <2> QED BY <1>1, LargestNumber
<1>3. Max(S) \in S /\ \A k \in S : Max(S) >= k
  <2>1. \E m \in S : \A k \in S : m >= k
    BY <1>1, <1>2
  <2> QED BY <2>1 DEF Max
<1>4. PICK m : m = Max(S) /\ m \in S /\ \A k \in S : m >= k
  BY <1>3, Zenon
<1>5. m \in {0} \cup ids /\ \A k \in {0} \cup ids : m >= k
  BY <1>4, Zenon
<1>6. next = m + 1
  BY <1>4, Zenon
<1> QED BY <1>5, <1>6

\* A sum over fewer pods is at most as large.
LEMMA FewerPods ==
    ASSUME NEW more \in SUBSET Pod, NEW some \in SUBSET more
    PROVE  /\ IsFiniteSet(some) /\ IsFiniteSet(more)
           /\ SumFunctionOnSet(GpusOf, some) \in Nat
           /\ SumFunctionOnSet(GpusOf, more) \in Nat
           /\ SumFunctionOnSet(GpusOf, some) <= SumFunctionOnSet(GpusOf, more)
<1>1. IsFiniteSet(more) /\ IsFiniteSet(some)
  BY PodsAssumption, FS_Subset
<1>2. \A p \in more : GpusOf[p] \in Nat
  BY LoopAssumption
<1>3. /\ SumFunctionOnSet(GpusOf, some) \in Nat
      /\ SumFunctionOnSet(GpusOf, more) \in Nat
  BY <1>1, <1>2, SumNat
<1> QED BY <1>1, <1>2, <1>3, SumSubset

-----------------------------------------------------------------------------
\* What is left of the ledger when the expired reservations are gone.
LEMMA UnexpiredIsLess ==
    ASSUME NEW rs, NEW kept, kept = Ledger!Unexpired(rs)
    PROVE  /\ DOMAIN kept \subseteq DOMAIN rs
           /\ \A id \in DOMAIN kept : kept[id] = rs[id]
BY DEF Ledger!Unexpired, Ledger!Restrict

(* So can what is left of it when the expired reservations go. *)
LEMMA UnexpiredIsSummable ==
    LedgerTypes => Summable(Ledger!Unexpired(reservations))
<1> SUFFICES ASSUME LedgerTypes, NEW kept, kept = Ledger!Unexpired(reservations)
             PROVE  Summable(kept)
    OBVIOUS
<1>1. /\ DOMAIN kept \subseteq DOMAIN reservations
      /\ \A id \in DOMAIN kept : kept[id] = reservations[id]
  BY UnexpiredIsLess
<1> QED BY <1>1, LedgerIsSummable, FS_Subset DEF Summable

\* The reservations after a grant.
Grants(kept, entries) ==
    /\ reservations' = [id \in DOMAIN kept \cup {nextId} |->
           IF id = nextId THEN [entries |-> entries, left |-> Ttl] ELSE kept[id]]
    /\ nextId' = Ledger!SaturatingSuccessor(nextId)

\* What a grant covers.
LEMMA GrantCovers ==
    ASSUME LedgerTypes, NEW entries, NEW kept, kept = Ledger!Unexpired(reservations),
           Grants(kept, entries)
    PROVE  /\ DOMAIN reservations' = DOMAIN kept \cup {nextId}
           /\ nextId \notin DOMAIN kept
           /\ reservations'[nextId].entries = entries
           /\ \A id \in DOMAIN kept : reservations'[id].entries = reservations[id].entries
           /\ \A p, n : Covers(p, n)'
                 => Covers(p, n) \/ p \in PodsOf(entries, n)
           /\ \A p, n : Covers(p, n)' =>
                 p \in Brought(kept, n) \cup PodsOf(entries, n)
<1>1. /\ DOMAIN kept \subseteq DOMAIN reservations
      /\ \A id \in DOMAIN kept : kept[id] = reservations[id]
  BY UnexpiredIsLess
<1>2. /\ DOMAIN reservations' = DOMAIN kept \cup {nextId}
      /\ nextId \notin DOMAIN kept
      /\ reservations'[nextId].entries = entries
      /\ \A id \in DOMAIN kept : reservations'[id] = kept[id]
  BY <1>1 DEF Grants, LedgerTypes
<1>3. ASSUME NEW p, NEW n, Covers(p, n)'
      PROVE  /\ Covers(p, n) \/ p \in PodsOf(entries, n)
             /\ p \in Brought(kept, n) \cup PodsOf(entries, n)
  <2>1. PICK id \in DOMAIN reservations' : \E e \in reservations'[id].entries :
            e.pod = p /\ e.node = n
    BY <1>3 DEF Covers
  <2>2. CASE id = nextId
    BY <1>2, <2>1, <2>2 DEF PodsOf
  <2>3. CASE id \in DOMAIN kept
    <3>1. p \in PodsOf(kept[id].entries, n)
      BY <1>2, <2>1, <2>3 DEF PodsOf
    <3>2. Covers(p, n)
      BY <1>1, <1>2, <2>1, <2>3 DEF Covers
    <3> QED BY <2>3, <3>1, <3>2 DEF Brought
  <2>4. Covers(p, n) \/ p \in PodsOf(entries, n)
    BY <1>2, <2>1, <2>2, <2>3
  <2>5. p \in Brought(kept, n) \/ p \in PodsOf(entries, n)
    BY <1>2, <2>1, <2>2, <2>3 DEF Brought
  <2> QED BY <2>4, <2>5
<1> QED BY <1>1, <1>2, <1>3

\* The heart of it: what the ledger grants fits beside what the snapshot shows and
\* what is committed; every pod on the node is one or the other, or newly granted.
LEMMA GrantKeepsRoom ==
    ASSUME LoopInv, phase = "collected", phase' = "applying", Notice,
           UNCHANGED <<live, snapshot>>,
           NEW entries \in SUBSET Ledger!Entry, IsFiniteSet(entries),
           NEW kept, kept = Ledger!Unexpired(reservations), Grants(kept, entries),
           Ledger!FitsNodes(kept, snapshot, entries)
    PROVE  Room'
<1> SUFFICES ASSUME ~uncovered', NEW n \in Node
             PROVE  SumFunctionOnSet(GpusOf, Holding(n)') <= Capacity[n]
    BY DEF Room
<1> DEFINE B == Brought(kept, n)
           A == {p \in Pod : snapshot.pods[p].node = n}
           C == PodsOf(entries, n)
<1>1. ~uncovered /\ ~Unaccounted'
  BY DEF Notice
<1>2. /\ \A p : Covers(p, n)' => Covers(p, n) \/ p \in C
      /\ \A p : Covers(p, n)' => p \in B \cup C
  <2>1. LedgerTypes
    BY DEF LoopInv
  <2>2. /\ \A p, m : Covers(p, m)'
              => Covers(p, m) \/ p \in PodsOf(entries, m)
        /\ \A p, m : Covers(p, m)' =>
              p \in Brought(kept, m) \cup PodsOf(entries, m)
    BY <2>1, GrantCovers
  <2> QED BY <2>2
<1>3. Holding(n)' \subseteq Pod /\ Holding(n) \subseteq Pod
  BY DEF Holding
<1>4. Capacity[n] \in Nat
  BY LoopAssumption
<1>5. CASE \A e \in entries : e.node # n
  <2>1. C = {}
    BY <1>5 DEF PodsOf
  <2>2. Holding(n)' \subseteq Holding(n)
    BY <1>2, <2>1 DEF Holding
  <2>3. SumFunctionOnSet(GpusOf, Holding(n)) <= Capacity[n]
    BY <1>1 DEF LoopInv, Room
  <2> QED BY <1>3, <1>4, <2>2, <2>3, FewerPods
<1>6. CASE \E e \in entries : e.node = n
  <2>1. /\ Summable(kept)
        /\ Ledger!Gpus(Ledger!OnNode(entries, n))
               <= Capacity[n] - (Ledger!RunningOn(snapshot, n) + Ledger!CommittedOn(kept, n))
    BY <1>6, UnexpiredIsSummable DEF Ledger!FitsNodes, LoopInv
  <2>2. /\ IsFiniteSet(B) /\ Ledger!CommittedOn(kept, n) \in Nat
        /\ SumFunctionOnSet(GpusOf, B) <= Ledger!CommittedOn(kept, n)
    BY <2>1, CommittedCovers
  <2>3. /\ C \subseteq Pod
        /\ Ledger!Gpus(Ledger!OnNode(entries, n)) \in Nat
        /\ SumFunctionOnSet(GpusOf, C) <= Ledger!Gpus(Ledger!OnNode(entries, n))
    BY EntriesCost
  <2>4. SumFunctionOnSet(GpusOf, A) = Ledger!RunningOn(snapshot, n)
    BY LedgerSums DEF Ledger!RunningOn
  <2>5. B \subseteq Pod
    BY <2>1 DEF Summable, Brought, PodsOf, Ledger!Entry
  <2>6. A \subseteq Pod
    OBVIOUS
  <2>7. Holding(n)' \subseteq (A \cup B) \cup C
    <3> SUFFICES ASSUME NEW p \in Pod, live'[p].node = n PROVE p \in (A \cup B) \cup C
        BY <1>2 DEF Holding
    <3>1. CASE snapshot.pods[p].node = NoNode
      <4>1. Covered([pod |-> p, uid |-> live[p].uid, node |-> n])'
        BY <1>1, <3>1, PolicyAssumption DEF Unaccounted
      <4>2. Covers(p, n)'
        BY <4>1 DEF Covered, Reserved, Covers
      <4> QED BY <1>2, <4>2
    <3>2. CASE snapshot.pods[p].node # NoNode
      BY <1>1, <3>2, PolicyAssumption DEF LoopInv, SeenStays
    <3> QED BY <3>1, <3>2
  <2> HIDE DEF A, B, C
  <2>8. /\ IsFiniteSet(A) /\ IsFiniteSet(B) /\ IsFiniteSet(C) /\ IsFiniteSet(A \cup B)
        /\ SumFunctionOnSet(GpusOf, A) \in Nat
        /\ SumFunctionOnSet(GpusOf, B) \in Nat
        /\ SumFunctionOnSet(GpusOf, C) \in Nat
        /\ SumFunctionOnSet(GpusOf, A \cup B) \in Nat
        /\ SumFunctionOnSet(GpusOf, (A \cup B) \cup C) \in Nat
    BY <2>3, <2>5, <2>6, FewerPods
  <2>9. /\ \A p \in A \cup B : GpusOf[p] \in Nat
        /\ \A p \in (A \cup B) \cup C : GpusOf[p] \in Nat
    BY <2>3, <2>5, <2>6, LoopAssumption
  <2>10. SumFunctionOnSet(GpusOf, A \cup B)
             <= SumFunctionOnSet(GpusOf, A) + SumFunctionOnSet(GpusOf, B)
    BY <2>8, <2>9, SumUnionAtMost
  <2>11. SumFunctionOnSet(GpusOf, (A \cup B) \cup C)
             <= SumFunctionOnSet(GpusOf, A \cup B) + SumFunctionOnSet(GpusOf, C)
    BY <2>8, <2>9, SumUnionAtMost
  <2>12. /\ SumFunctionOnSet(GpusOf, Holding(n)') \in Nat
         /\ SumFunctionOnSet(GpusOf, Holding(n)')
                <= SumFunctionOnSet(GpusOf, (A \cup B) \cup C)
    BY <2>3, <2>5, <2>6, <2>7, FewerPods
  <2>13. Ledger!RunningOn(snapshot, n) \in Nat
    BY <2>4, <2>8
  <2> QED BY <1>4, <2>1, <2>2, <2>3, <2>4, <2>8, <2>10, <2>11, <2>12, <2>13
<1> QED BY <1>5, <1>6

-----------------------------------------------------------------------------
\* The plan of a placement: entries of observed pods, and those that are ready are
\* open in the snapshot.
LEMMA PlanFacts ==
    ASSUME LoopTypes, NEW place \in Solutions, NEW p \in PlansOf(place)
    PROVE  /\ p \in Seq(Entry)
           /\ \A k \in DOMAIN p : p[k].ready => Ledger!StillOpen(snapshot, Reserved(p[k]))
<1>1. /\ DOMAIN place \subseteq Pod
      /\ \A x \in DOMAIN place : place[x] \in Node /\ observed[x] \in Nat \ {0}
  BY DEF Solutions, Placements, Observed, LoopTypes
<1>2. Cardinality(DOMAIN place) \in Nat
  BY <1>1, PodsAssumption, FS_Subset, FS_CardinalityType
<1>3. PICK order \in Bijection(1..Cardinality(DOMAIN place), DOMAIN place) :
          p = [k \in 1..Cardinality(DOMAIN place) |->
                 [pod |-> order[k], uid |-> observed[order[k]],
                  group |-> GroupOf[order[k]], node |-> place[order[k]],
                  gpus |-> GpusOf[order[k]], ready |-> Ready(order[k])]]
  BY DEF PlansOf, ByUid
<1>4. ASSUME NEW k \in 1..Cardinality(DOMAIN place)
      PROVE  /\ p[k] \in Entry
             /\ p[k].ready => Ledger!StillOpen(snapshot, Reserved(p[k]))
  <2>1. order[k] \in DOMAIN place
    BY DEF Bijection, Injection
  <2>2. PICK x \in Pod : x = order[k] /\ x \in DOMAIN place
    BY <1>1, <2>1
  <2>3. p[k] = [pod |-> x, uid |-> observed[x], group |-> GroupOf[x], node |-> place[x],
                gpus |-> GpusOf[x], ready |-> Ready(x)]
    BY <1>3, <2>2
  <2>4. Ready(x) \in BOOLEAN
    BY DEF Ready
  <2>5. /\ observed[x] \in Nat \ {0} /\ place[x] \in Node
        /\ GroupOf[x] \in Group \cup {NoGroup} /\ GpusOf[x] \in Nat
    BY <1>1, <2>2, LoopAssumption
  <2>6. p[k] \in Entry
    BY <2>3, <2>4, <2>5 DEF Entry
  <2>7. p[k].ready => Ledger!StillOpen(snapshot, Reserved(p[k]))
    BY <2>3, <2>5 DEF Ready, Reserved, Ledger!StillOpen
  <2> QED BY <2>6, <2>7
<1>5. p \in [1..Cardinality(DOMAIN place) -> Entry]
  BY <1>3, <1>4
<1>6. p \in Seq(Entry)
  BY <1>2, <1>5
<1>7. DOMAIN p = 1..Cardinality(DOMAIN place)
  BY <1>5
<1> QED BY <1>4, <1>6, <1>7

\* Its ready part, as the ledger is asked for it.
LEMMA ReadyFacts ==
    ASSUME NEW p \in Seq(Entry)
    PROVE  /\ ReadyEntries(p) \subseteq Ledger!Entry
           /\ IsFiniteSet(ReadyEntries(p))
           /\ \A k \in DOMAIN p : p[k].ready => Reserved(p[k]) \in ReadyEntries(p)
           /\ \A e \in ReadyEntries(p) : \E k \in DOMAIN p : p[k].ready /\ e = Reserved(p[k])
<1>1. \A k \in DOMAIN p : p[k] \in Entry
  OBVIOUS
<1>2. /\ \A k \in DOMAIN p : p[k].ready => Reserved(p[k]) \in ReadyEntries(p)
      /\ \A e \in ReadyEntries(p) : \E k \in DOMAIN p : p[k].ready /\ e = Reserved(p[k])
  BY DEF ReadyEntries, Range
<1>3. ReadyEntries(p) \subseteq Ledger!Entry
  BY <1>1, <1>2 DEF Reserved, Entry, Ledger!Entry
<1> DEFINE g == [k \in DOMAIN p |-> Reserved(p[k])]
<1>4. IsFiniteSet({g[k] : k \in DOMAIN p})
  <2>1. IsFiniteSet(DOMAIN p)
    <3>1. DOMAIN p = 1..Len(p) /\ Len(p) \in Nat
      OBVIOUS
    <3>2. IsFiniteSet(1..Len(p))
      BY <3>1, FS_Interval
    <3> QED BY <3>1, <3>2, Zenon
  <2> HIDE DEF g
  <2> QED BY <2>1, FiniteImage
<1>5. ReadyEntries(p) \subseteq {g[k] : k \in DOMAIN p}
  BY <1>2
<1>6. IsFiniteSet(ReadyEntries(p))
  BY <1>4, <1>5, FS_Subset
<1> QED BY <1>2, <1>3, <1>6

-----------------------------------------------------------------------------
(* A reconciled ledger holds entries of the old one that are still open. *)
LEMMA ReconciledIsLess ==
    ASSUME NEW rs, NEW c, NEW left, left = Ledger!Reconciled(Ledger!Unexpired(rs), c)
    PROVE  /\ DOMAIN left \subseteq DOMAIN rs
           /\ \A id \in DOMAIN left :
                 /\ left[id].entries \subseteq rs[id].entries
                 /\ \A e \in left[id].entries : Ledger!StillOpen(c, e)
<1> DEFINE kept == Ledger!Unexpired(rs)
           open(id) == {e \in kept[id].entries : Ledger!StillOpen(c, e)}
<1>1. /\ DOMAIN kept \subseteq DOMAIN rs
      /\ \A id \in DOMAIN kept : kept[id] = rs[id]
  BY UnexpiredIsLess
<1>2. left = [id \in {id \in DOMAIN kept : open(id) # {}} |->
                 [entries |-> open(id), left |-> kept[id].left]]
  BY DEF Ledger!Reconciled
<1> HIDE DEF kept
<1>3. \A id \in DOMAIN left : id \in DOMAIN kept /\ left[id].entries = open(id)
  BY <1>2
<1> QED BY <1>1, <1>3

\* The snapshot of a new pass: what it shows bound is no longer reserved.
LEMMA CollectKeeps == LoopInv /\ Collect /\ Notice => LoopInv'
<1> SUFFICES ASSUME LoopInv, Collect, Notice PROVE LoopInv'
    OBVIOUS
<1>1. /\ UNCHANGED <<live, nextUid, late, changes, faults>>
      /\ UNCHANGED locals
      /\ snapshot' = Listed /\ phase = "idle" /\ phase' = "collected"
      /\ observed' = observed
      /\ reservations' = Ledger!Reconciled(Ledger!Unexpired(reservations), Listed)
      /\ nextId' = Max({0} \cup DOMAIN reservations') + 1
  BY DEF Collect, world
<1>2. Placed'
  BY <1>1 DEF locals, LoopInv, Placed, PlanTypes, LocalTypes, WorldTypes, Position, Current
<1>3. /\ DOMAIN reservations' \subseteq DOMAIN reservations
      /\ \A id \in DOMAIN reservations' :
            /\ reservations'[id].entries \subseteq reservations[id].entries
            /\ \A e \in reservations'[id].entries : Ledger!StillOpen(snapshot', e)
  BY <1>1, ReconciledIsLess
<1>4. NoNewReservation
  BY <1>3 DEF NoNewReservation
<1>5. LedgerTypes /\ Summable(reservations)
  BY LedgerIsSummable DEF LoopInv
<1>6. LedgerTypes'
  <2>1. DOMAIN reservations' \subseteq Nat \ {0} /\ IsFiniteSet(DOMAIN reservations')
    BY <1>3, <1>5, FS_Subset DEF LedgerTypes, Summable
  <2>2. nextId' \in Nat \ {0} /\ DOMAIN reservations' \subseteq 1..(nextId' - 1)
    BY <1>1, <2>1, NextIdFits
  <2> QED BY <1>4, <1>5, <2>2, LessIsTyped
<1>7. LoopTypes'
  BY <1>1 DEF LoopTypes, LoopInv
<1>8. Sent' /\ PlanReserved'
  BY <1>1 DEF LoopInv, Sent, PlanReserved, locals
<1>9. ReservedIsOpen'
  BY <1>3 DEF ReservedIsOpen, Ledger!StillOpen
<1>10. SeenStays'
  BY <1>1 DEF SeenStays, Listed
<1>11. Noticed'
  BY DEF Noticed, Notice
<1>12. Room'
  <2>1. \A p \in Pod, n \in Node : Covers(p, n)' => Covers(p, n)
    BY <1>4 DEF NoNewReservation, Covers
  <2>2. ~uncovered' => ~uncovered
    BY DEF Notice
  <2> QED BY <1>1, <2>1, <2>2, RoomStays DEF LoopInv
<1> QED BY <1>2, <1>6, <1>7, <1>8, <1>9, <1>10, <1>11, <1>12 DEF LoopInv

\* Expired reservations go, and nothing is granted.
LEMMA ExpiryKeepsLedger ==
    ASSUME LedgerTypes, reservations' = Ledger!Unexpired(reservations), UNCHANGED nextId
    PROVE  NoNewReservation /\ LedgerTypes'
<1>1. NoNewReservation
  BY UnexpiredIsLess DEF NoNewReservation
<1> QED BY <1>1, LessIsTyped DEF LedgerTypes, NoNewReservation

\* A pass starts, is refused by the ledger, or starts with nothing to reserve.
LEMMA SolveKeeps == LoopInv /\ Solve /\ Notice => LoopInv'
<1> SUFFICES ASSUME LoopInv, Solve, Notice PROVE LoopInv'
    OBVIOUS
<1> DEFINE kept == Ledger!Unexpired(reservations)
<1>1. /\ phase = "collected" /\ nextId < LastId
      /\ UNCHANGED <<live, nextUid, late, changes, snapshot, observed>>
  BY DEF Solve, world
<1>2. PICK place \in Solutions, gated \in BOOLEAN : \E p \in PlansOf(place) :
          /\ faults' = IF gated THEN faults + 1 ELSE faults
          /\ Ledger!ReserveReady(ReadyEntries(p))
          /\ IF ReadyEntries(p) # {} /\ ~Ledger!Reservable(kept, snapshot, ReadyEntries(p))
             THEN phase' = "idle" /\ UNCHANGED <<locals, held>>
             ELSE /\ StartPass(p, gated)
                  /\ phase' = "applying"
                  /\ held' = IF ReadyEntries(p) = {} THEN 0 ELSE Ledger!NewId
  BY DEF Solve
<1>3. PICK p \in PlansOf(place) :
          /\ faults' = IF gated THEN faults + 1 ELSE faults
          /\ Ledger!ReserveReady(ReadyEntries(p))
          /\ IF ReadyEntries(p) # {} /\ ~Ledger!Reservable(kept, snapshot, ReadyEntries(p))
             THEN phase' = "idle" /\ UNCHANGED <<locals, held>>
             ELSE /\ StartPass(p, gated)
                  /\ phase' = "applying"
                  /\ held' = IF ReadyEntries(p) = {} THEN 0 ELSE Ledger!NewId
  BY <1>2
<1> HIDE DEF kept
<1> DEFINE ready == ReadyEntries(p)
<1>4. /\ p \in Seq(Entry)
      /\ \A k \in DOMAIN p : p[k].ready => Ledger!StillOpen(snapshot, Reserved(p[k]))
  BY PlanFacts DEF LoopInv
<1>5. /\ ready \subseteq Ledger!Entry /\ IsFiniteSet(ready)
      /\ \A k \in DOMAIN p : p[k].ready => Reserved(p[k]) \in ready
      /\ \A e \in ready : Ledger!StillOpen(snapshot, e)
  BY <1>4, ReadyFacts
<1>6. faults' \in Nat
  BY <1>3 DEF LoopInv, Placed, Position
<1>7. LedgerTypes /\ LoopTypes /\ Placed
  BY DEF LoopInv
<1>8. phase' \in {"idle", "applying"} /\ LoopTypes'
  BY <1>1, <1>3, <1>7 DEF LoopTypes
<1> HIDE DEF ready
<1>9. CASE ready # {} /\ ~Ledger!Reservable(kept, snapshot, ready)
  <2>1. phase' = "idle" /\ UNCHANGED locals
    BY <1>3, <1>9 DEF ready
  <2>2. reservations' = kept /\ UNCHANGED nextId
    BY <1>3, <1>9 DEF ready, kept, Ledger!ReserveReady, Ledger!Reserve
  <2>3. NoNewReservation /\ LedgerTypes'
    BY <1>7, <2>2, ExpiryKeepsLedger DEF kept
  <2>4. Placed'
    BY <1>1, <1>6, <1>7, <2>1
       DEF locals, Placed, PlanTypes, LocalTypes, WorldTypes, Position, Current
  <2>5. Sent' /\ PlanReserved'
    BY <1>1, <2>1 DEF LoopInv, Sent, PlanReserved, locals
  <2>6. Moves
    BY <1>1 DEF Moves
  <2> QED BY <1>8, <2>1, <2>3, <2>4, <2>5, <2>6, Carried
<1>10. CASE ~(ready # {} /\ ~Ledger!Reservable(kept, snapshot, ready))
  <2>1. StartPass(p, gated) /\ phase' = "applying"
    BY <1>3, <1>10 DEF ready
  <2>2. late' \subseteq [entry : Entry, index : Nat, since : Nat]
    BY <1>1, <1>7 DEF Placed, WorldTypes
  <2>3. Placed' /\ pc' = "next" /\ plan' = p
    BY <1>1, <1>4, <1>6, <1>7, <2>1, <2>2, StartPlaced
  <2>4. Sent'
    BY <2>3 DEF Sent
  <2>5. CASE ready = {}
    <3>1. reservations' = kept /\ UNCHANGED nextId
      BY <1>3, <2>5 DEF ready, kept, Ledger!ReserveReady, Ledger!Expire
    <3>2. NoNewReservation /\ LedgerTypes'
      BY <1>7, <3>1, ExpiryKeepsLedger DEF kept
    <3>3. PlanReserved'
      BY <1>5, <2>3, <2>5 DEF PlanReserved
    <3>4. Moves
      BY <1>1 DEF Moves
    <3> QED BY <1>1, <1>8, <2>3, <2>4, <3>2, <3>3, <3>4, Carried
  <2>6. CASE ready # {} /\ Ledger!Reservable(kept, snapshot, ready)
    <3>1. Grants(kept, ready)
      BY <1>3, <2>6 DEF ready, kept, Grants, Ledger!ReserveReady, Ledger!Reserve, Ledger!NewId
    <3>2. /\ DOMAIN reservations' = DOMAIN kept \cup {nextId}
          /\ reservations'[nextId].entries = ready
          /\ \A id \in DOMAIN kept : reservations'[id].entries = reservations[id].entries
      BY <1>7, <3>1, GrantCovers DEF kept
    <3>3. DOMAIN kept \subseteq DOMAIN reservations
      BY UnexpiredIsLess DEF kept
    <3>4. LedgerTypes'
      <4>1. nextId' = nextId + 1
        BY <1>1, <1>7, <3>1, LoopAssumption DEF Grants, Ledger!SaturatingSuccessor, LedgerTypes
      <4>2. nextId' \in Nat \ {0} /\ DOMAIN reservations' \subseteq 1..(nextId' - 1)
        BY <1>7, <3>2, <3>3, <4>1 DEF LedgerTypes
      <4>3. \A id \in DOMAIN reservations' :
               /\ reservations'[id].entries \subseteq Ledger!Entry
               /\ IsFiniteSet(reservations'[id].entries)
        BY <1>5, <1>7, <3>2, <3>3 DEF LedgerTypes
      <4> QED BY <4>2, <4>3 DEF LedgerTypes, Ledger!Entry
    <3>5. PlanReserved'
      <4> SUFFICES ASSUME NEW k \in DOMAIN p, p[k].ready PROVE Covered(p[k])'
          BY <2>3 DEF PlanReserved
      <4> QED BY <1>5, <3>2 DEF Covered, Reserved
    <3>6. ReservedIsOpen'
      <4> SUFFICES ASSUME NEW id \in DOMAIN reservations', NEW e \in reservations'[id].entries
                   PROVE  Ledger!StillOpen(snapshot, e)
          BY <1>1 DEF ReservedIsOpen, Ledger!StillOpen
      <4> QED BY <1>1, <1>5, <3>2, <3>3 DEF LoopInv, ReservedIsOpen
    <3>7. SeenStays'
      BY <1>1 DEF LoopInv, SeenStays, Notice
    <3>8. Noticed'
      BY DEF Noticed, Notice
    <3>9. Room'
      <4>1. Ledger!FitsNodes(kept, snapshot, ready)
        BY <2>6 DEF Ledger!Reservable
      <4> QED BY <1>1, <1>5, <2>1, <3>1, <4>1, GrantKeepsRoom DEF kept
    <3> QED BY <1>8, <2>3, <2>4, <3>4, <3>5, <3>6, <3>7, <3>8, <3>9 DEF LoopInv
  <2> QED BY <1>10, <2>5, <2>6
<1> QED BY <1>9, <1>10

\* A step of the binder: what it sends is reserved.
LEMMA ApplyKeeps == LoopInv /\ Apply /\ Notice => LoopInv'
<1> SUFFICES ASSUME LoopInv, Apply, Notice PROVE LoopInv'
    OBVIOUS
<1>1. /\ Step /\ phase = "applying"
      /\ UNCHANGED <<reservations, nextId, snapshot, observed, phase, held>>
  BY DEF Apply, loop
<1>2. Placed /\ LedgerTypes /\ LoopTypes /\ Sent /\ PlanReserved
  BY DEF LoopInv
<1>3. Placed'
  BY <1>1, <1>2, LocalStepPlaced, PostPlaced DEF Step
<1>4. /\ UNCHANGED plan
      /\ pc' = "post" => Current'.ready
      /\ \A p \in Pod : \/ live'[p].node = live[p].node
                        \/ /\ pc = "post" /\ p = Current.pod
                           /\ live'[p].node = Current.node
  BY <1>1, <1>2, BinderStep
<1>5. pc = "post" => Covers(Current.pod, Current.node)
  BY <1>1, <1>2, CurrentIsEntry DEF Sent, PlanReserved, Current, Covered, Reserved, Covers
<1>6. Moves
  BY <1>4, <1>5 DEF Moves
<1>7. NoNewReservation
  BY <1>1 DEF NoNewReservation
<1>8. LedgerTypes' /\ LoopTypes'
  BY <1>1, <1>2 DEF LedgerTypes, LoopTypes, Ledger!Entry
<1>9. Sent'
  BY <1>1, <1>4 DEF Sent
<1>10. PlanReserved'
  BY <1>1, <1>2, <1>4, PlanStaysReserved
<1> QED BY <1>1, <1>3, <1>6, <1>7, <1>8, <1>9, <1>10, Carried

\* The empty pass the loop rests on.
LEMMA RestPlaced ==
    ASSUME Placed, StartPass(<<>>, FALSE), UNCHANGED <<live, nextUid>>, faults' \in Nat,
           late' \subseteq [entry : Entry, index : Nat, since : Nat]
    PROVE  Placed' /\ pc' = "next"
<1>1. <<>> \in Seq(Entry) /\ FALSE \in BOOLEAN
  OBVIOUS
<1> QED BY <1>1, StartPlaced

\* A pass ends: what it reserved stays or is released, nothing else changes.
LEMMA ConcludeKeeps == LoopInv /\ Conclude /\ Notice => LoopInv'
<1> SUFFICES ASSUME LoopInv, Conclude, Notice PROVE LoopInv'
    OBVIOUS
<1>1. /\ StartPass(<<>>, FALSE) /\ phase' = "idle"
      /\ UNCHANGED <<live, nextUid, late, changes, faults, snapshot, observed>>
      /\ nextId' = nextId
      /\ reservations' = reservations \/ Ledger!Release(held)
  BY DEF Conclude, world, Ledger!Release
<1>2. Placed /\ LedgerTypes /\ LoopTypes
  BY DEF LoopInv
<1>3. Placed' /\ pc' = "next"
  BY <1>1, <1>2, RestPlaced DEF Placed, WorldTypes, Position
<1>4. NoNewReservation
  BY <1>1 DEF NoNewReservation, Ledger!Release, Ledger!Restrict, Ledger!Ids
<1>5. LedgerTypes'
  BY <1>1, <1>2, <1>4, LessIsTyped DEF LedgerTypes, NoNewReservation
<1>6. LoopTypes' /\ Sent' /\ PlanReserved'
  BY <1>1, <1>2, <1>3 DEF LoopTypes, Sent, PlanReserved
<1>7. Moves
  BY <1>1 DEF Moves
<1> QED BY <1>1, <1>3, <1>4, <1>5, <1>6, <1>7, Carried

\* A crash forgets the ledger; from then on a bind may be unaccounted for, but
\* none is on a node without room as long as there is no such bind.
LEMMA RestartKeeps == LoopInv /\ Restart /\ Notice => LoopInv'
<1> SUFFICES ASSUME LoopInv, Restart, Notice PROVE LoopInv'
    OBVIOUS
<1>1. /\ StartPass(<<>>, FALSE) /\ phase' = "idle"
      /\ UNCHANGED <<live, nextUid>>
      /\ faults' = faults + 1
      /\ reservations' = NoReservations /\ nextId' = 1
      /\ observed' = [p \in Pod |-> 0]
      /\ \/ late' = late
         \/ /\ pc = "post"
            /\ late' = late \cup {[entry |-> Current, index |-> i, since |-> horizon]}
  BY DEF Restart
<1>2. Placed /\ LedgerTypes /\ LoopTypes
  BY DEF LoopInv
<1>3. late' \subseteq [entry : Entry, index : Nat, since : Nat]
  <2>1. pc = "post" => Current \in Entry /\ i \in Nat /\ horizon \in Nat
    BY <1>2, CurrentIsEntry DEF Placed, LocalTypes
  <2> QED BY <1>1, <1>2, <2>1 DEF Placed, WorldTypes
<1>4. Placed' /\ pc' = "next"
  BY <1>1, <1>2, <1>3, RestPlaced DEF Placed, Position
<1>5. DOMAIN reservations' = {}
  BY <1>1 DEF NoReservations
<1>6. NoNewReservation /\ LedgerTypes'
  BY <1>1, <1>5 DEF NoNewReservation, LedgerTypes
<1>7. LoopTypes' /\ Sent' /\ PlanReserved'
  BY <1>1, <1>2, <1>4 DEF LoopTypes, Sent, PlanReserved
<1>8. Moves
  BY <1>1 DEF Moves
<1> QED BY <1>1, <1>4, <1>6, <1>7, <1>8, Carried

\* Reservations grow older, but stay until the ledger is asked again.
LEMMA TimeKeeps == LoopInv /\ TimePasses /\ Notice => LoopInv'
<1> SUFFICES ASSUME LoopInv, TimePasses, Notice PROVE LoopInv'
    OBVIOUS
<1>1. /\ UNCHANGED <<live, nextUid, late, changes, faults, locals>>
      /\ UNCHANGED <<snapshot, observed, phase, held>> /\ nextId' = nextId
      /\ DOMAIN reservations' = DOMAIN reservations
      /\ \A id \in DOMAIN reservations :
            reservations'[id].entries = reservations[id].entries
  BY DEF TimePasses, world, loop, Ledger!Tick, Ledger!Ids
<1>2. Placed /\ LedgerTypes /\ LoopTypes /\ Sent /\ PlanReserved
  BY DEF LoopInv
<1>3. Placed'
  BY <1>1, <1>2 DEF locals, Placed, PlanTypes, LocalTypes, WorldTypes, Position, Current
<1>4. NoNewReservation
  BY <1>1 DEF NoNewReservation
<1>5. LedgerTypes'
  BY <1>1, <1>2, <1>4, LessIsTyped DEF LedgerTypes
<1>6. LoopTypes' /\ Sent'
  BY <1>1, <1>2 DEF LoopTypes, Sent, Current, locals
<1>7. PlanReserved'
  BY <1>1, <1>2, PlanStaysReserved DEF locals
<1>8. Moves
  BY <1>1 DEF Moves
<1> QED BY <1>1, <1>3, <1>4, <1>5, <1>6, <1>7, <1>8, Carried

\* Others move pods off nodes; a late POST moves one only to where it was reserved.
LEMMA ClusterKeeps == LoopInv /\ ClusterMoves /\ Notice => LoopInv'
<1> SUFFICES ASSUME LoopInv, ClusterMoves, Notice PROVE LoopInv'
    OBVIOUS
<1>1. /\ PodsChange \/ \E l \in late : LatePostArrives(l)
      /\ UNCHANGED <<reservations, nextId, snapshot, observed, phase, held>>
  BY DEF ClusterMoves, loop
<1>2. Placed /\ LedgerTypes /\ LoopTypes /\ Sent /\ PlanReserved /\ Noticed
  BY DEF LoopInv
<1>3. Placed'
  BY <1>1, <1>2, OthersPlaced DEF Others
<1>4. UNCHANGED <<plan, pc, i>>
  BY <1>1 DEF PodsChange, Terminates, Disappears, Recreated, LatePostArrives, locals
<1>5. live \in [Pod -> PodView]
  BY <1>2 DEF Placed, WorldTypes
<1>6. ASSUME ~uncovered PROVE Moves
  <2>1. CASE PodsChange
    BY <1>5, <2>1 DEF PodsChange, Terminates, Disappears, Recreated, Gone, Fresh, Moves
  <2>2. ASSUME NEW l \in late, LatePostArrives(l) PROVE Moves
    <3>1. Covers(l.entry.pod, l.entry.node)
      BY <1>2, <1>6 DEF Noticed, Unaccounted, Covered, Reserved, Covers
    <3>2. UNCHANGED live \/ live' = [live EXCEPT ![l.entry.pod]
                                        = OnNode(live[l.entry.pod], l.entry.node)]
      BY <2>2 DEF LatePostArrives, Persist
    <3> QED BY <1>5, <3>1, <3>2 DEF Moves, OnNode
  <2> QED BY <1>1, <2>1, <2>2
<1>7. NoNewReservation
  BY <1>1 DEF NoNewReservation
<1>8. LedgerTypes' /\ LoopTypes' /\ Sent'
  BY <1>1, <1>2, <1>4 DEF LedgerTypes, LoopTypes, Ledger!Entry, Sent, Current
<1>9. PlanReserved'
  BY <1>1, <1>2, <1>4, PlanStaysReserved
<1> QED BY <1>1, <1>3, <1>6, <1>7, <1>8, <1>9, Carried

\* The watch, a pass that ends before it starts the binder, and no step at all.
LEMMA IdleKeeps ==
    LoopInv /\ (CollectFails \/ NothingPending \/ SolveFails
                   \/ \E p \in Pod : WatchDelivers(p)) /\ Notice => LoopInv'
<1> SUFFICES ASSUME LoopInv, Notice, CollectFails \/ NothingPending \/ SolveFails
                                        \/ \E p \in Pod : WatchDelivers(p)
             PROVE  LoopInv'
    OBVIOUS
<1>1. Placed /\ LedgerTypes /\ LoopTypes /\ Sent /\ PlanReserved
  BY DEF LoopInv
<1>2. /\ UNCHANGED <<live, nextUid, late, changes, locals, reservations, nextId, snapshot>>
      /\ faults' \in {faults, faults + 1}
      /\ phase' = phase \/ (phase' = "idle" /\ phase # "applying")
      /\ observed' = observed \/ \E p \in Pod :
             observed' = [observed EXCEPT ![p] = IF Pending(p) THEN live[p].uid ELSE 0]
  BY DEF CollectFails, NothingPending, SolveFails, WatchDelivers, world, loop
<1>3. Placed'
  BY <1>1, <1>2 DEF locals, Placed, PlanTypes, LocalTypes, WorldTypes, Position, Current
<1>4. observed' \in [Pod -> Nat]
  <2>1. \A p \in Pod : live[p].uid \in Nat
    BY <1>1 DEF Placed, WorldTypes, PodView
  <2> QED BY <1>1, <1>2, <2>1 DEF LoopTypes
<1>5. LedgerTypes' /\ LoopTypes'
  BY <1>1, <1>2, <1>4 DEF LedgerTypes, LoopTypes, Ledger!Entry
<1>6. Sent' /\ PlanReserved'
  BY <1>1, <1>2 DEF Sent, PlanReserved, Covered, Current, locals
<1>7. Moves /\ NoNewReservation
  BY <1>2 DEF Moves, NoNewReservation
<1> QED BY <1>2, <1>3, <1>5, <1>6, <1>7, Carried

(* Every step of the loop keeps LoopInv. *)
LEMMA NextKeepsLoop == LoopInv /\ [Next]_allVars => LoopInv'
<1>1. LoopInv /\ Next => LoopInv'
  BY CollectKeeps, SolveKeeps, ApplyKeeps, ConcludeKeeps, RestartKeeps, TimeKeeps,
     ClusterKeeps, IdleKeeps DEF Next, Loop
<1>2. ASSUME LoopInv, UNCHANGED allVars PROVE LoopInv'
  <2>1. /\ UNCHANGED <<live, nextUid, late, changes, faults, uncovered>>
        /\ UNCHANGED locals
        /\ UNCHANGED <<reservations, nextId, snapshot, observed, phase, held>>
    BY <1>2 DEF allVars, world, loop
  <2>2. Placed'
    BY <1>2, <2>1 DEF LoopInv, locals, Placed, PlanTypes, LocalTypes, WorldTypes, Position,
                      Current
  <2>3. LedgerTypes' /\ LoopTypes'
    BY <1>2, <2>1 DEF LoopInv, LedgerTypes, LoopTypes, Ledger!Entry
  <2>4. Sent' /\ PlanReserved'
    BY <1>2, <2>1 DEF LoopInv, locals, Sent, PlanReserved, Current, Covered, Reserved
  <2>5. ReservedIsOpen' /\ SeenStays'
    BY <1>2, <2>1 DEF LoopInv, ReservedIsOpen, SeenStays, Ledger!StillOpen
  <2>6. Noticed'
    BY <1>2, <2>1 DEF LoopInv, Noticed, Unaccounted, Covered, Reserved
  <2>7. Room'
    BY <1>2, <2>1, RoomStays DEF LoopInv, Covers
  <2> QED BY <2>2, <2>3, <2>4, <2>5, <2>6, <2>7 DEF LoopInv
<1> QED BY <1>1, <1>2

-----------------------------------------------------------------------------
\* Whatever the solver places, however often calls fail, POSTs land late, the
\* process dies and reservations run out during a pass: each POST goes out under a
\* reservation of exactly its pod, identity and node.
THEOREM PostsReserved == Spec => []PostsAreReserved
<1>1. LoopInv => PostsAreReserved
  BY CurrentIsEntry DEF LoopInv, Sent, PlanReserved, PostsAreReserved, Current
<1> QED BY <1>1, InitLoop, NextKeepsLoop, PTL DEF Spec

\* No node ever runs more than its capacity, for any pods, GPUs, nodes, quotas and
\* ttl, as long as every bind behind the snapshot is one the ledger still holds.
THEOREM NoNodeIsOvercommitted == Spec => []ReservationsHoldNodes
<1>1. LoopInv => ReservationsHoldNodes
  <2> SUFFICES ASSUME LoopInv, ~uncovered, NEW n \in Node PROVE GpusLive(n) <= Capacity[n]
      BY DEF ReservationsHoldNodes, NoOvercommit
  <2>1. SumFunctionOnSet(GpusOf, Holding(n)) <= Capacity[n] /\ Capacity[n] \in Nat
    BY LoopAssumption DEF LoopInv, Room
  <2>2. /\ Holding(n) \in SUBSET Pod
        /\ {p \in Pod : live[p].node = n} \in SUBSET Holding(n)
    BY DEF Holding
  <2> QED BY <2>1, <2>2, FewerPods DEF GpusLive
<1> QED BY <1>1, InitLoop, NextKeepsLoop, PTL DEF Spec
=============================================================================
