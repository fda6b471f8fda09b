---------------------------- MODULE MCWorkQueue ----------------------------
(* Instances of WorkQueue for TLC. *)
EXTENDS WorkQueue

(* repo:X overlaps path:X/a and path:X/b, which are disjoint. *)
RepoTokens == {"repo", "path_a", "path_b"}

MCOverlaps(a, b) == a = b \/ "*" \in {a, b} \/ "repo" \in {a, b}

(* One path, the other, or the whole repository. *)
NarrowOrBroad == {{"path_a"}, {"path_b"}, {"repo"}}

Paths == {{"path_a"}, {"path_b"}}

LifecycleVerbs ==
    {"add", "register", "pop", "done", "abandon", "release", "resurrect",
     "wedge", "unwedge", "block", "unblock"}

(* Every verb that moves an item or its priority through the gate. *)
GateVerbs == LifecycleVerbs \cup {"promote", "prune"}

(* The verbs that claim or widen a scope without a conflict check. *)
OverrideVerbs ==
    {"add", "register", "done", "block", "unblock",
     "force-start", "co-run", "new-scope", "unblock --force",
     "update-scope", "update"}

(* Dependencies, operator locks and the queue order. *)
DependVerbs ==
    {"add", "register", "done", "abandon", "block", "unblock", "depend", "lock",
     "prune", "unlock", "resurrect"}

(* The main loop of the daemon's owner at work, with no operator override. *)
LiveVerbs ==
    {"add", "pop", "done", "abandon", "release", "resurrect", "wedge",
     "unwedge", "block", "unblock", "reprioritize"}
=============================================================================
