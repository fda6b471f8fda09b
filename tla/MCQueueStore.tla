---------------------------- MODULE MCQueueStore ----------------------------
(* Instances of QueueStore for TLC. *)
EXTENDS QueueStore

CONSTANTS h1, h2, c1, c2

OneDomain == [p \in Procs |-> "host"]

HostAndContainer ==
    [p \in Procs |-> IF p \in {h1, h2} THEN "host" ELSE "container"]

=============================================================================
