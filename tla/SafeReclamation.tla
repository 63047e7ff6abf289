-------------------------- MODULE SafeReclamation --------------------------
(***************************************************************************)
(* What a hazard-pointer SMR promises its clients, independent of how the *)
(* registry and the scans are built.  A node is live (reachable in some   *)
(* container), then retired (unlinked, its disposal deferred), then freed *)
(* (its disposer ran).  A node may become protected only while it is      *)
(* live, and a node is freed only while nothing protects it.  Teardown of *)
(* the whole SMR drops every protection and frees every retired node.     *)
(***************************************************************************)
EXTENDS FiniteSets

CONSTANT Addrs

VARIABLES node, guarded

NodeStates == {"live", "retired", "freed"}

LiveNodes == {a \in Addrs : node[a] = "live"}

TypeOK ==
    /\ node \in [Addrs -> NodeStates]
    /\ guarded \subseteq Addrs

Init ==
    /\ node = [a \in Addrs |-> "live"]
    /\ guarded = {}

\* Publishing and retracting protections: a new protection is only ever
\* granted on a node that is still live.
ChangeGuards ==
    /\ guarded' \subseteq guarded \cup LiveNodes
    /\ UNCHANGED node

Retire(a) ==
    /\ node[a] = "live"
    /\ node' = [node EXCEPT ![a] = "retired"]
    /\ guarded' \subseteq guarded \cup (LiveNodes \ {a})

\* A set of retired nodes is disposed of, none of them protected.
Reclaim(S) ==
    /\ S # {}
    /\ \A a \in S : node[a] = "retired"
    /\ S \cap guarded = {}
    /\ node' = [a \in Addrs |-> IF a \in S THEN "freed" ELSE node[a]]
    /\ UNCHANGED guarded

Teardown ==
    /\ guarded' = {}
    /\ node' = [a \in Addrs |-> IF node[a] = "retired" THEN "freed" ELSE node[a]]

Next ==
    \/ ChangeGuards
    \/ \E a \in Addrs : Retire(a)
    \/ \E S \in SUBSET Addrs : Reclaim(S)
    \/ Teardown

Spec == Init /\ [][Next]_<<node, guarded>>

=============================================================================
