------------------------------- MODULE Binder -------------------------------
(***************************************************************************)
(* The only code that mutates the cluster: apply_bindings (binder.rs), one *)
(* pass over a rendered binding plan.  The pass is sequential; every call  *)
(* to the API server is a step of its own, so pods may be bound, deleted   *)
(* or recreated by others between the preflight of a group, the final GET  *)
(* of an entry, its POST and the GET that confirms a failed POST.          *)
(*                                                                         *)
(* The API server is external: it binds the pod that has the name in the   *)
(* URL now, if it is unbound and not terminating.  A call may fail for the *)
(* caller although the server took it, or takes it later.                  *)
(***************************************************************************)
EXTENDS Integers, Sequences, FiniteSets, SequencesExt

CONSTANTS Pod,          \* namespace/name keys
          Node,
          Group,        \* solver workload ids: the binding groups
          NoGroup,      \* an empty binding_group
          NoNode,       \* an empty nodeName
          MaxBinds,     \* max_binds_per_pass
          LowRiskOnly,  \* binding_canary_mode == LowRisk
          LowRiskGpus,  \* binding_low_risk_max_gpus
          DryRun,       \* real_binding_dry_run
          MaxFaults,    \* bound: failed API calls
          MaxLate,      \* bound: POSTs on their way at once
          MaxChanges,   \* bound: steps of other actors on the pods
          MaxRecreated  \* bound: pods recreated under the same name

ASSUME PolicyAssumption ==
    /\ NoNode \notin Node
    /\ NoGroup \notin Group
    /\ MaxBinds \in Nat \ {0}
    /\ LowRiskOnly \in BOOLEAN
    /\ DryRun \in BOOLEAN
    /\ LowRiskGpus \in Nat
    /\ MaxFaults \in Nat /\ MaxLate \in Nat
    /\ MaxChanges \in Nat /\ MaxRecreated \in Nat

ASSUME PodsAssumption == IsFiniteSet(Pod)

VARIABLES
    live,       \* the pods in the API server, by name
    nextUid,    \* the uid the next created pod gets
    late,       \* POSTs that failed for the binder but may still arrive
    plan,       \* the (entry, readiness) pairs of the pass
    blocked,    \* the pass is gated: binding disabled or regret unknown
    pc,         \* where apply_bindings stands
    i,          \* the entry it works on
    seen,       \* seen_groups
    skipped,    \* dynamic_group_skips and live_group_skips
    cache,      \* live_cache: the pods read by the group preflights
    applied,    \* binds counted so far
    outcomes,   \* one result per entry
    mutations,  \* history: binds this pass persisted
    horizon,    \* history: nextUid at the last final GET
    faults, changes

world  == <<live, nextUid, late, changes>>
locals == <<plan, blocked, pc, i, seen, skipped, cache, applied, outcomes,
            mutations, horizon>>
vars   == <<world, locals, faults>>

-----------------------------------------------------------------------------
\* A pod as live_pod_view sees it.  Its kind says whether ksolver may bind it:
\* "ours" (Pending, our scheduler, no resourceClaims) or one of the refusals.
Kind == {"ours", "dra", "foreign", "finished"}

PodView == [uid : Nat, node : Node \cup {NoNode}, deleting : BOOLEAN, kind : Kind]

Fresh(uid) == [uid |-> uid, node |-> NoNode, deleting |-> FALSE, kind |-> "ours"]

Gone == Fresh(0)

Entry == [pod : Pod, uid : Nat, group : Group \cup {NoGroup}, node : Node,
          gpus : Nat, ready : BOOLEAN]

Result == {"bound", "validated", "skipped", "failed"}

Unread ==                                        \* not in the cache
    [uid |-> 0, node |-> NoNode, deleting |-> FALSE, kind |-> "finished"]

ShouldApply_AssumesReady(e, view) ==
    /\ view.uid # 0 /\ e.uid # 0 /\ view.uid = e.uid
    /\ ~view.deleting
    /\ view.kind = "ours"
    /\ view.node = NoNode

ShouldApply(e, view) ==
    /\ e.ready
    /\ view.uid # 0                              \* the pod was found
    /\ e.uid # 0                                 \* never bind blind
    /\ view.uid = e.uid
    /\ ~view.deleting
    /\ view.kind = "ours"
    /\ view.node = NoNode

CanaryRefuses(e) == LowRiskOnly /\ e.gpus > LowRiskGpus

Members(g)   == {k \in DOMAIN plan : plan[k].group = g}
GroupSize(g) == Cardinality(Members(g))

\* static_group_skip_reasons: decided on the plan alone, before any call.
StaticallySkipped(g) ==
    /\ GroupSize(g) > 1
    /\ \E k \in Members(g) : ~plan[k].ready \/ CanaryRefuses(plan[k])

-----------------------------------------------------------------------------
StartPass(p, gated) ==
    /\ plan' = p
    /\ blocked' = gated
    /\ pc' = "next"
    /\ i' = 1
    /\ seen' = {} /\ skipped' = {}
    /\ cache' = [x \in Pod |-> Unread]
    /\ applied' = 0
    /\ outcomes' = <<>>
    /\ mutations' = {}
    /\ horizon' = 0

Report_Silent(result) ==        \* a continue without the push
    /\ i' = i + 1
    /\ pc' = "next"
    /\ UNCHANGED outcomes

\* Record the result of the current entry and go on with the next one.
Report(result) ==
    /\ outcomes' = Append(outcomes, result)
    /\ i' = i + 1
    /\ pc' = "next"

Finish ==
    /\ pc = "next"
    /\ i > Len(plan)
    /\ pc' = "done"
    /\ UNCHANGED <<world, plan, blocked, i, seen, skipped, cache, applied,
                   outcomes, mutations, horizon, faults>>

InPlan  == pc = "next" /\ i <= Len(plan)
Current == plan[i]

Refused(e) ==
    \/ blocked
    \/ e.group # NoGroup /\ (StaticallySkipped(e.group) \/ e.group \in skipped)

\* The gate is closed for the pass, or an earlier member sealed the group's fate.
SkipRefused ==
    /\ InPlan
    /\ Refused(Current)
    /\ Report("skipped")
    /\ UNCHANGED <<world, plan, blocked, seen, skipped, cache, applied,
                   mutations, horizon, faults>>

FirstSight(e) == e.group # NoGroup /\ e.group \notin seen

Exceeds_OneSlot(g) == applied + 1 > MaxBinds      \* only its first member fits

Exceeds(g) == applied + GroupSize(g) > MaxBinds

\* The group does not fit what is left of the pass.
SkipLargeGroup ==
    /\ InPlan
    /\ ~Refused(Current) /\ FirstSight(Current) /\ Exceeds(Current.group)
    /\ seen' = seen \cup {Current.group}
    /\ skipped' = skipped \cup {Current.group}
    /\ Report("skipped")
    /\ UNCHANGED <<world, plan, blocked, cache, applied, mutations, horizon,
                   faults>>

\* The first member of a real group: read every member before binding any.
StartPreflight ==
    /\ InPlan
    /\ ~Refused(Current) /\ FirstSight(Current) /\ ~Exceeds(Current.group)
    /\ seen' = seen \cup {Current.group}
    /\ pc' = IF GroupSize(Current.group) > 1 THEN "preflight" ELSE "admit"
    /\ UNCHANGED <<world, plan, blocked, i, skipped, cache, applied, outcomes,
                   mutations, horizon, faults>>

\* A later member of a group that passed, or an entry without a group.
Continue ==
    /\ InPlan
    /\ ~Refused(Current) /\ ~FirstSight(Current)
    /\ pc' = "admit"
    /\ UNCHANGED <<world, plan, blocked, i, seen, skipped, cache, applied,
                   outcomes, mutations, horizon, faults>>

UnreadMembers == {k \in Members(Current.group) : cache[plan[k].pod] = Unread}

SkipGroup ==
    /\ skipped' = skipped \cup {Current.group}
    /\ Report("skipped")

ReadMember ==
    /\ pc = "preflight"
    /\ \E k \in UnreadMembers :
           /\ \A j \in UnreadMembers : k <= j
           /\ cache' = [cache EXCEPT ![plan[k].pod] = live[plan[k].pod]]
    /\ UNCHANGED <<world, plan, blocked, pc, i, seen, skipped, applied,
                   outcomes, mutations, horizon, faults>>

ReadMemberFails ==
    /\ pc = "preflight"
    /\ UnreadMembers # {}
    /\ faults < MaxFaults /\ faults' = faults + 1
    /\ SkipGroup
    /\ UNCHANGED <<world, plan, blocked, seen, cache, applied, mutations,
                   horizon>>

Preflighted_FirstOnly(g) == ShouldApply(Current, cache[Current.pod])

Preflighted(g) ==
    \A k \in Members(g) : ShouldApply(plan[k], cache[plan[k].pod])

JudgeGroup ==
    /\ pc = "preflight"
    /\ UnreadMembers = {}
    /\ IF Preflighted(Current.group)
       THEN pc' = "admit" /\ UNCHANGED <<i, skipped, outcomes>>
       ELSE SkipGroup
    /\ UNCHANGED <<world, plan, blocked, seen, cache, applied, mutations,
                   horizon, faults>>

Admit_Unthrottled ==
    /\ pc = "admit"
    /\ IF CanaryRefuses(Current)
       THEN Report("skipped")
       ELSE pc' = "get" /\ UNCHANGED <<i, outcomes>>
    /\ UNCHANGED <<world, plan, blocked, seen, skipped, cache, applied,
                   mutations, horizon, faults>>

\* The throttle and the canary policy of the entry itself.
Admit ==
    /\ pc = "admit"
    /\ IF applied >= MaxBinds \/ CanaryRefuses(Current)
       THEN Report("skipped")
       ELSE pc' = "get" /\ UNCHANGED <<i, outcomes>>
    /\ UNCHANGED <<world, plan, blocked, seen, skipped, cache, applied,
                   mutations, horizon, faults>>

FinalCheck_Cached ==            \* trusts what the group preflight read
    /\ pc = "get"
    /\ horizon' = nextUid
    /\ IF ShouldApply(Current, IF cache[Current.pod] = Unread
                               THEN live[Current.pod] ELSE cache[Current.pod])
       THEN pc' = "post" /\ UNCHANGED <<i, outcomes>>
       ELSE Report("skipped")
    /\ UNCHANGED <<world, plan, blocked, seen, skipped, cache, applied,
                   mutations, faults>>

\* The final GET right before the POST, and the gate on what it shows.
FinalCheck ==
    /\ pc = "get"
    /\ horizon' = nextUid
    /\ IF ShouldApply(Current, live[Current.pod])
       THEN pc' = "post" /\ UNCHANGED <<i, outcomes>>
       ELSE Report("skipped")
    /\ UNCHANGED <<world, plan, blocked, seen, skipped, cache, applied,
                   mutations, faults>>

FinalCheckFails ==
    /\ pc = "get"
    /\ faults < MaxFaults /\ faults' = faults + 1
    /\ Report("failed")
    /\ UNCHANGED <<world, plan, blocked, seen, skipped, cache, applied,
                   mutations, horizon>>

-----------------------------------------------------------------------------
\* The API server's binding subresource.  The POST names the pod, not its uid.
Accepts(p) == live[p].uid # 0 /\ live[p].node = NoNode /\ ~live[p].deleting

OnNode(view, n) ==
    [uid |-> view.uid, node |-> n, deleting |-> view.deleting, kind |-> view.kind]

Persist(e, k, since) ==
    IF DryRun
    THEN UNCHANGED <<live, mutations>>
    ELSE /\ live' = [live EXCEPT ![e.pod] = OnNode(live[e.pod], e.node)]
         /\ mutations' = mutations \cup
               {[entry |-> k, uid |-> live[e.pod].uid, since |-> since,
                 during |-> i]}

PostAccepted ==
    /\ pc = "post"
    /\ Accepts(Current.pod)
    /\ Persist(Current, i, horizon)
    /\ applied' = applied + 1
    /\ Report(IF DryRun THEN "validated" ELSE "bound")
    /\ UNCHANGED <<nextUid, late, changes, plan, blocked, seen, skipped, cache,
                   horizon, faults>>

AfterPostError_NoConfirm == Report("failed")

\* An error: look at the pod again, unless a dry run persisted nothing anyway.
AfterPostError ==
    IF DryRun THEN Report("failed")
              ELSE pc' = "confirm" /\ UNCHANGED <<i, outcomes>>

PostRejected ==
    /\ pc = "post"
    /\ ~Accepts(Current.pod)
    /\ AfterPostError
    /\ UNCHANGED <<world, plan, blocked, seen, skipped, cache, applied,
                   mutations, horizon, faults>>

\* The caller sees an error; the server bound the pod, never will, or will later.
PostFails ==
    /\ pc = "post"
    /\ faults < MaxFaults /\ faults' = faults + 1
    /\ \/ /\ Accepts(Current.pod)
          /\ Persist(Current, i, horizon)
          /\ UNCHANGED late
       \/ UNCHANGED <<live, mutations, late>>
       \/ /\ ~DryRun /\ Cardinality(late) < MaxLate
          /\ late' = late \cup {[entry |-> Current, index |-> i, since |-> horizon]}
          /\ UNCHANGED <<live, mutations>>
    /\ AfterPostError
    /\ UNCHANGED <<nextUid, changes, plan, blocked, seen, skipped, cache,
                   applied, horizon>>

\* Only our own pod on the target node counts as a success after an error.
Confirm ==
    /\ pc = "confirm"
    /\ IF live[Current.pod].uid = Current.uid /\ live[Current.pod].node = Current.node
       THEN applied' = applied + 1 /\ Report("bound")
       ELSE UNCHANGED applied /\ Report("failed")
    /\ UNCHANGED <<world, plan, blocked, seen, skipped, cache, mutations,
                   horizon, faults>>

ConfirmFails ==
    /\ pc = "confirm"
    /\ faults < MaxFaults /\ faults' = faults + 1
    /\ Report("failed")
    /\ UNCHANGED <<world, plan, blocked, seen, skipped, cache, applied,
                   mutations, horizon>>

LatePostArrives(l) ==
    /\ late' = late \ {l}
    /\ IF Accepts(l.entry.pod)
       THEN Persist(l.entry, l.index, l.since)
       ELSE UNCHANGED <<live, mutations>>
    /\ UNCHANGED <<nextUid, changes, plan, blocked, pc, i, seen, skipped,
                   cache, applied, outcomes, horizon, faults>>

-----------------------------------------------------------------------------
\* Other actors: another scheduler, users, controllers that recreate pods.
Change == changes < MaxChanges /\ changes' = changes + 1

BoundByOther(p, n) ==
    /\ Change
    /\ Accepts(p)
    /\ live' = [live EXCEPT ![p] = OnNode(live[p], n)]
    /\ UNCHANGED <<nextUid, late, locals, faults>>

Terminates(p) ==
    /\ Change
    /\ live[p].uid # 0 /\ ~live[p].deleting
    /\ live' = [live EXCEPT ![p] =
           [uid |-> @.uid, node |-> @.node, deleting |-> TRUE, kind |-> @.kind]]
    /\ UNCHANGED <<nextUid, late, locals, faults>>

Disappears(p) ==
    /\ Change
    /\ live[p].uid # 0
    /\ live' = [live EXCEPT ![p] = Gone]
    /\ UNCHANGED <<nextUid, late, locals, faults>>

Recreated(p) ==
    /\ live[p].uid = 0
    /\ nextUid <= Cardinality(Pod) + MaxRecreated
    /\ nextUid' = nextUid + 1
    /\ live' = [live EXCEPT ![p] = Fresh(nextUid)]
    /\ UNCHANGED <<late, changes, locals, faults>>

PodsChange == \E p \in Pod : Terminates(p) \/ Disappears(p) \/ Recreated(p)

Others ==
    \/ PodsChange
    \/ \E p \in Pod, n \in Node : BoundByOther(p, n)
    \/ \E l \in late : LatePostArrives(l)

Step ==
    \/ Finish \/ SkipRefused \/ SkipLargeGroup \/ StartPreflight \/ Continue
    \/ ReadMember \/ ReadMemberFails \/ JudgeGroup
    \/ Admit \/ FinalCheck \/ FinalCheckFails
    \/ PostAccepted \/ PostRejected \/ PostFails \/ Confirm \/ ConfirmFails

-----------------------------------------------------------------------------
TypeOK ==
    /\ live \in [Pod -> PodView]
    /\ nextUid \in Nat
    /\ late \subseteq [entry : Entry, index : Nat, since : Nat]
    /\ plan \in Seq(Entry)
    /\ blocked \in BOOLEAN
    /\ pc \in {"next", "preflight", "admit", "get", "post", "confirm", "done"}
    /\ i \in 1..(Len(plan) + 1)
    /\ seen \subseteq Group /\ skipped \subseteq seen
    /\ cache \in [Pod -> PodView]
    /\ applied \in 0..Len(plan)
    /\ outcomes \in Seq(Result) /\ Len(outcomes) = i - 1
    /\ mutations \subseteq [entry : Nat, uid : Nat, since : Nat, during : Nat]
    /\ horizon \in Nat

\* max_binds_per_pass bounds what the pass does to the cluster, not only what it
\* counts: it can be exceeded only by binds whose every answer was lost.
Throttled == Cardinality(mutations) <= MaxBinds + faults

\* A persisted bind hits a pod that the final GET vetted, or one created under
\* its name after that GET: the window between GET and POST is all that is open.
FinalCheckVets ==
    \A m \in mutations :
        LET e == plan[m.entry]
        IN  /\ e.ready
            /\ ~CanaryRefuses(e)
            /\ m.uid = e.uid \/ m.uid >= m.since

\* No member of a real group is bound before every member was found ready, small
\* enough for the canary policy, and bindable in the API server (the preflight).
GroupVettedAsAWhole ==
    \A m \in mutations :
        LET g == plan[m.entry].group
        IN  g # NoGroup /\ GroupSize(g) > 1 =>
                \A k \in Members(g) : /\ ~CanaryRefuses(plan[k])
                                      /\ ShouldApply(plan[k], cache[plan[k].pod])

\* A bind the server persisted before the binder gave its entry up is reported as
\* bound: the GET after a failed POST finds it, unless that GET fails as well.
ConfirmFindsBinds ==
    LET lost == {m \in mutations : /\ m.during = m.entry
                                   /\ m.entry < i
                                   /\ outcomes[m.entry] # "bound"}
    IN  changes = 0 => 2 * Cardinality(lost) <= faults

BoundMembers(g) == {k \in Members(g) : outcomes[k] \in {"bound", "validated"}}

Contiguous(g) == \A j, k \in Members(g) : j..k \subseteq Members(g)

Undisturbed == faults = 0 /\ changes = 0

\* With the members side by side in the plan and nobody interfering, a group is
\* bound completely or not at all, whatever the throttle.
ContiguousGroupIsWhole ==
    pc = "done" /\ Undisturbed =>
        \A g \in Group : Contiguous(g) => BoundMembers(g) \in {{}, Members(g)}
=============================================================================
