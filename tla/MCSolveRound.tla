---------------------------- MODULE MCSolveRound ----------------------------
(* Nodes with two or three free GPUs and workloads of one or two GPUs per     *)
(* replica: small ones can fragment what large ones need.                      *)
EXTENDS SolveRound

\* The nodes of each workload in two orders, among nodes of equal score.
Orders(free) ==
    [w \in Workload |-> [n \in Node |->
        8 * free[n] + (IF w % 2 = 0 THEN n ELSE Max(Node) - n)]]

Problem(free, gpus, replicas, suits, urgent, late, max) ==
    [free |-> free, gpus |-> gpus, replicas |-> replicas,
     suits |-> [w \in Workload |-> {n \in suits[w] : free[n] >= gpus[w]}],
     order |-> Orders(free), urgent |-> urgent, late |-> late,
     limit |-> max]

Anywhere  == [w \in Workload |-> Node]
ButFirst  == [w \in Workload |-> CASE w = 2 -> Node \ {Min(Node)}
                                   [] w = 4 -> {}
                                   [] OTHER -> Node]
OneOrTwo  == {gpus \in [Workload -> {1, 2}] : gpus[1] = 1}
Equal     == [n \in Node |-> 3]
Alone     == [w \in Workload |-> 1]

Pair      == [w \in Workload |-> IF w = 1 THEN 2 ELSE 1]
Last      == {3}

\* The first workload may be a pair, the third urgent or bound to be late; a node does
\* not suit the second and no node the fourth.
MCMixed ==
    {Problem(Equal, gpus, kind[1], ButFirst, kind[2], kind[3], 1) :
        gpus \in {gpus \in OneOrTwo : gpus[3] = 2 /\ gpus[4] = 1},
        kind \in {<<Pair, {}, {}>>, <<Alone, Last, {}>>, <<Alone, {}, Last>>}}

ButFull   == [n \in Node |-> IF n = Max(Node) THEN 0 ELSE 3]

\* One node is full; with all candidates the others are one group.
MCEqual == {Problem(ButFull, gpus, Alone, Anywhere, {}, {}, 0) : gpus \in OneOrTwo}

MCProblems == MCMixed \cup MCEqual
=============================================================================
