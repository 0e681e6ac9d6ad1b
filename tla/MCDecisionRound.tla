--------------------------- MODULE MCDecisionRound ---------------------------
(* Three nodes.  In one half of the clusters a gang of two and a single pod    *)
(* wait beside running pods, with all kinds of restrictions; in the other a    *)
(* single pod waits for GPUs that running pods of two nodes would have to give.*)
EXTENDS DecisionRound

None == [p \in Pod |-> {}]

AllNodes(cap) ==
    [cap |-> cap, vram |-> [n \in Node |-> Unknown], zone |-> [n \in Node |-> (n + 1) \div 2],
     island |-> [n \in Node |-> NoLabel], quota |-> [s \in Namespace |-> Unlimited]]

AllPods(at, gpus) ==
    [known |-> Pod, at |-> at, pending |-> {p \in Pod : at[p] = NoNode},
     namespace |-> [p \in Pod |-> 1], gpus |-> gpus,
     peak |-> [p \in Pod |-> Unknown], suits |-> [p \in Pod |-> Node],
     gang |-> [p \in Pod |-> NoGang], colocate |-> [p \in Pod |-> FALSE],
     link |-> [p \in Pod |-> NoLabel], repels |-> None, zoneRepels |-> None,
     attracts |-> None, spreads |-> None, skew |-> [p \in Pod |-> 0]]

Gentle ==
    [priority |-> [p \in Pod |-> 0], value |-> [p \in Pod |-> 0],
     latest |-> [p \in Pod |-> Unknown], cost |-> [p \in Pod |-> 1],
     fixed |-> {}, migrate |-> Pod, preempt |-> Pod,
     covers |-> [s \in Namespace |-> {}], allowed |-> [s \in Namespace |-> 1],
     vague |-> {}]

Pair == {1, 2}

\* The pair, pod 3 and the running pods 4 and 5.
Crowd ==
    AllPods([p \in Pod |-> CASE p = 4 -> 1 [] p >= 5 -> 2 [] OTHER -> NoNode],
            [p \in Pod |-> IF p = 3 THEN 2 ELSE 1])

Crowded(repels3, repels4, repelsPair, zone3, zone4, together, quota) ==
    [nodes  |-> [AllNodes([n \in Node |-> 3])
                    EXCEPT !.quota = [s \in Namespace |-> quota]],
     pods   |-> [Crowd EXCEPT
                    !.gang = [p \in Pod |-> IF p \in Pair THEN 1 ELSE NoGang],
                    !.colocate = [p \in Pod |-> p \in Pair /\ together],
                    !.repels = [p \in Pod |-> CASE p \in Pair -> repelsPair
                                                [] p = 3 -> repels3
                                                [] p = 4 -> repels4
                                                [] OTHER -> {}],
                    !.zoneRepels = [p \in Pod |-> CASE p = 3 -> zone3
                                                    [] p = 4 -> zone4
                                                    [] OTHER -> {}]],
     policy |-> Gentle]

MCCrowded ==
    {Crowded(r3, r4, rp, z[1], z[2], together, quota) :
        r3 \in {{}, {1}, Pair, {4}}, r4 \in {{}, {1}, {3}}, rp \in {{}, Pair, {3, 5}},
        z \in {<<{}, {}>>, <<{5}, {}>>, <<{}, {3}>>},
        together \in BOOLEAN, quota \in {Unlimited, 4}}

\* One restriction at a time: memory, links, peers, spread, malformed gangs and pods
\* the watch still shows as waiting.
MCSpecial ==
    LET c == Crowded({}, {}, {}, {}, {}, FALSE, Unlimited)
    IN  {[c EXCEPT !.nodes.vram = [n \in Node |-> n], !.pods.peak = [p \in Pod |-> peak]] :
            peak \in {2, 4}}
        \cup {[c EXCEPT !.nodes.island = [n \in Node |-> n % 2],
                        !.pods.link = [p \in Pod |-> IF p = 3 THEN 1 ELSE NoLabel]]}
        \cup {[c EXCEPT !.pods.attracts = [p \in Pod |-> {4}]]}
        \cup {[c EXCEPT !.pods.spreads = [p \in Pod |-> {1, 2, 3, 4}],
                        !.pods.skew = [p \in Pod |-> 1], !.pods.at[5] = 3]}
        \cup {[c EXCEPT !.pods.known = Pod \ {k}] : k \in {1, 3}}
        \cup {[c EXCEPT !.pods.gpus[k] = 0] : k \in {1, 3}}
        \cup {[c EXCEPT !.pods.pending = @ \cup {4}]}
        \cup {[c EXCEPT !.nodes.cap[2] = 0]}
        \cup {[c EXCEPT !.nodes.quota = [s \in Namespace |-> 1]]}

\* Pod 1 needs three GPUs of node 1, where 2, 3 and 4 run, or of node 2, where 5 runs.
Packed ==
    [p \in Pod |-> CASE p = 1 -> NoNode [] p = 5 -> 2 [] OTHER -> 1]

MCPacked ==
    {[nodes  |-> AllNodes(1 :> cap @@ 3 :> room @@ [m \in Node |-> 4]),
      pods   |-> [AllPods(Packed, [p \in Pod |-> CASE p = 1 -> 3 [] p = 5 -> 2
                                                   [] p = 4 -> large [] OTHER -> 1])
                     EXCEPT !.suits[2] = suits],
      policy |-> [Gentle EXCEPT !.cost = [p \in Pod |-> CASE p = 2 -> cost
                                                          [] p = 4 -> last [] OTHER -> 0],
                                !.migrate = migrate, !.preempt = preempt,
                                !.covers = [s \in Namespace |-> covers],
                                !.value[5] = value]] :
        cap \in {4, 5}, room \in 0..2, last \in {0, 1}, large \in {1, 2}, suits \in {Node, {1}},
        cost \in {0, 1}, migrate \in {Pod, Pod \ {3}, {}}, preempt \in {Pod, {4, 5}, {}},
        covers \in {{}, {2, 3}, {2, 3, 4}}, value \in {0, 1}}

MCClusters == MCCrowded \cup MCSpecial \cup MCPacked

\* Pod 1 suits no node.
MCUnsuited ==
    {[c EXCEPT !.pods.suits[1] = {}] : c \in {c \in MCPacked : c.policy.value[5] = 0}}
=============================================================================
