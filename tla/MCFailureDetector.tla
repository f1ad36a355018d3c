------------------------- MODULE MCFailureDetector -------------------------
(***************************************************************************)
(* FailureDetector for TLC: two observers and a subject that crashes, with *)
(* packets in flight for any time; or three observers, of which two lose   *)
(* sight of the subject now and then, the answers being timely.            *)
(***************************************************************************)
EXTENDS FailureDetector

CONSTANT o3

VARIABLE scenario

Minority == INSTANCE FailureDetector WITH Observers <- Observers \cup {o3},
    Failures <- {{o} : o \in Observers}, Timely <- TRUE

MCInit == \/ scenario = "crash" /\ Init
          \/ scenario = "minority" /\ Minority!Init

MCNext == \/ scenario = "crash" /\ Next /\ UNCHANGED scenario
          \/ scenario = "minority" /\ Minority!Next /\ UNCHANGED scenario

MCSpec == MCInit /\ [][MCNext]_<<vars, scenario>>

\* While the failed paths are those of a minority, and pongs arrive in time,
\* no node is ever flagged FAIL, whatever the order of gossip, expiry and loss.
MinorityNeverFails == scenario = "minority" => Minority!MinorityCannotFail

-----------------------------------------------------------------------------
\* The scenario of the configuration alone, with fairness.
LiveInit == Init /\ scenario = "crash"
LiveNext == Next /\ UNCHANGED scenario
LiveSpec == LiveInit /\ [][LiveNext]_<<vars, scenario>> /\ Fairness
=============================================================================
