------------------------------ MODULE MCJobGC -------------------------------
(* JobGC for TLC. *)
EXTENDS JobGC

\* At-least-once jobs, synchronously replicated to two nodes.
Sync2 == {[repl |-> 2, retry |-> TRUE, delay |-> FALSE, async |-> FALSE]}

\* Two clients that acknowledge the job, or one and messages that are lost, or
\* one and a crash.
MCBudgets == {[acks |-> 2, losses |-> 0, crashes |-> 0],
              [acks |-> 1, losses |-> 2, crashes |-> 0],
              [acks |-> 1, losses |-> 0, crashes |-> 1]}
=============================================================================
