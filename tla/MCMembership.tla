---------------------------- MODULE MCMembership ----------------------------
(***************************************************************************)
(* Membership for TLC.  Two servers that start as strangers and are given  *)
(* commands and restarts, or as friends and whose links break and whose    *)
(* addresses change; or three servers and a careful operator.              *)
(***************************************************************************)
EXTENDS Membership, TLC

CONSTANT x   \* one more name, address or server

VARIABLE scenario

mcvars == <<vars, scenario>>

Strangers == {}
Friends(S) == {<<i, j>> \in S \X S : i # j}
Three == Servers \cup {x}
Symmetry == Permutations(Servers)

Moved == INSTANCE Membership WITH Names <- Servers, Addresses <- Servers \cup {x},
    Known <- Friends(Servers), MaxAdmin <- 2,
    Admin <- {"meet", "leaving", "suspect", "move", "break"}

Quiet == INSTANCE Membership WITH Servers <- Three, Names <- Three, Addresses <- Three,
    Known <- Friends(Three), Admin <- {"forget"}, MaxAdmin <- 1, MaxPackets <- 1, Expire <- FALSE,
    Careful <- {"meet", "forget"}

MCInit == \/ scenario = "met" /\ Init
          \/ scenario = "moved" /\ Moved!Init
          \* The order of the lines of nodes.conf does not matter.
          \/ scenario = "quiet" /\ Quiet!Init /\ \A i \in Servers : nodes[i][1].name = x

MCNext == \/ scenario = "met" /\ Next /\ UNCHANGED scenario
          \/ scenario = "moved" /\ Moved!Next /\ UNCHANGED scenario
          \/ scenario = "quiet" /\ Quiet!Next /\ UNCHANGED scenario

MCSpec == MCInit /\ [][MCNext]_mcvars

\* A node that was forgotten is not a member again while it is blacklisted,
\* as long as the operator calls no MEET in between and no handshake with it
\* is going on (clusterBlacklistExists).
ForgottenStaysOutQuietly == scenario = "quiet" => Quiet!ForgottenStaysOut

-----------------------------------------------------------------------------
\* The servers in a row, each knowing its neighbours; nobody intervenes.
Place == CHOOSE f \in [1 .. Cardinality(Servers) -> Servers] : Range(f) = Servers
Row == {<<Place[m], Place[n]>> : <<m, n>> \in {p \in (DOMAIN Place) \X (DOMAIN Place) :
                                                 p[1] - p[2] \in {-1, 1}}}

\* The order of the lines of nodes.conf does not matter.
LiveInit == Init /\ scenario = "row" /\ nodes[Place[2]][1].name = Place[1]
LiveNext == Next /\ UNCHANGED scenario
LiveSpec == LiveInit /\ [][LiveNext]_mcvars /\ Fairness
=============================================================================
