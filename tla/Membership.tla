----------------------------- MODULE Membership -----------------------------
(***************************************************************************)
(* The nodes table of cluster.c: how servers come to know each other (MEET,*)
(* handshake, gossip), forget each other (FORGET and its blacklist, RESET),*)
(* follow a change of address, and keep nodes.conf across restarts.        *)
(*                                                                         *)
(* A server is one process.  It has a name (node ID), an address, and a    *)
(* table of node structures.  A structure is known by a handle, which      *)
(* stands for its pointer, since its name changes when the handshake ends. *)
(* The link of a structure carries at most one packet: a PING or MEET on   *)
(* its way to the server at the other end, or the PONG on its way back.    *)
(***************************************************************************)
EXTENDS Integers, FiniteSets, Functions

CONSTANTS Servers,
          Names,       \* node IDs; a server's first one is the server itself
          Addresses,   \* a server's first one is the server itself
          Known,       \* pairs of servers: the first finds the second in its
                       \* nodes.conf when it starts
          Admin,       \* subset of {"meet", "forget", "soft", "hard",
                       \*            "leaving", "restart", "move", "suspect", "break"}
          MaxAdmin,    \* bound: number of these
          MaxNodes,    \* bound: node structures of a server, myself excluded
          MaxPackets,  \* bound: packets in flight
          Expire,      \* handshakes may time out
          Careful      \* subset of {"meet", "forget"}: the operator calls no
                       \* MEET while a node is blacklisted, and no FORGET
                       \* while a handshake is going on

VARIABLES name,   \* myself->name
          addr,   \* address the server listens at
          myip,   \* myself->ip
          leaves, \* LEAVING is set in myself->flags
          nodes,  \* cluster->nodes without myself: handle -> structure
          black,  \* nodes_black_list
          reach,  \* reachable_nodes, as handles
          size,   \* cluster->size
          todo,   \* todo_before_sleep
          conf,   \* what nodes.conf says
          admin   \* commands and faults so far

vars == <<name, addr, myip, leaves, nodes, black, reach, size, todo, conf, admin>>

NoAddress == "noaddress"
NoMsg == [type |-> "none"]
NoLink == [peer |-> "none", msg |-> NoMsg]
Handles == 1..MaxNodes
Temporary(h) == <<"random", h>>   \* the random name of a structure in handshake

\* A random name is nobody's ID.
ASSUME MembershipAssumption ==
    /\ IsFiniteSet(Servers) /\ Servers \subseteq Names /\ Servers \subseteq Addresses
    /\ MaxNodes \in Nat
    /\ \A h \in Handles : Temporary(h) \notin Names

Members(t) == {h \in DOMAIN t : ~t[h].handshake}
Lookup(t, id) == {h \in DOMAIN t : t[h].name = id}

\* What is saved of a table: structures in handshake are left out.
Description(n, ip, leaving, t) ==
    [name |-> n, ip |-> ip, leaving |-> leaving,
     nodes |-> {[name |-> t[h].name, ip |-> t[h].ip, noaddr |-> t[h].noaddr,
                 leaving |-> t[h].leaving] : h \in Members(t)}]

Empty == [h \in {} |-> 0]

\* clusterLoadConfig: a structure for every line, in any order of handles.
Loaded(c) ==
    LET node(line) == [name |-> line.name, ip |-> line.ip, handshake |-> FALSE, meet |-> FALSE,
                       noaddr |-> line.noaddr, leaving |-> line.leaving, pfail |-> FALSE,
                       link |-> NoLink]
    IN  {[h \in DOMAIN f |-> node(f[h])] :
           f \in {f \in [1..Cardinality(c.nodes) -> c.nodes] : Range(f) = c.nodes}}

Reachable(t) == {h \in Members(t) : ~t[h].leaving /\ ~t[h].pfail}
ClusterSize(t) == Cardinality(Members(t)) + 1

Init ==
    /\ name = [i \in Servers |-> i]
    /\ addr = [i \in Servers |-> i]
    /\ conf = [i \in Servers |-> [name |-> i, ip |-> NoAddress, leaving |-> FALSE,
                 nodes |-> {[name |-> j, ip |-> j, noaddr |-> FALSE, leaving |-> FALSE] :
                              j \in {k \in Servers : <<i, k>> \in Known}}]]
    /\ nodes \in {n \in [Servers -> UNION {Loaded(conf[i]) : i \in Servers}] :
                   \A i \in Servers : n[i] \in Loaded(conf[i])}
    /\ myip = [i \in Servers |-> NoAddress]
    /\ leaves = [i \in Servers |-> FALSE]
    /\ black = [i \in Servers |-> {}]
    /\ reach = [i \in Servers |-> Reachable(nodes[i])]
    /\ size = [i \in Servers |-> ClusterSize(nodes[i])]
    /\ todo = [i \in Servers |-> {}]
    /\ admin = 0

Command(kind) == kind \in Admin /\ admin < MaxAdmin /\ admin' = admin + 1

(***************************************************************************)
(* Operations on a table.                                                  *)
(***************************************************************************)
\* Bound: there is room for one more structure.
HasRoom(t) == Cardinality(DOMAIN t) < MaxNodes
Free(t) == CHOOSE h \in Handles : h \notin DOMAIN t

CreateHandshake(t, ip, meet) ==
    LET h == Free(t)
    IN  [g \in DOMAIN t \cup {h} |-> IF g # h THEN t[g]
         ELSE [name |-> Temporary(h), ip |-> ip, handshake |-> TRUE, meet |-> meet,
               noaddr |-> FALSE, leaving |-> FALSE, pfail |-> FALSE, link |-> NoLink]]

HandshakeInProgress(t, ip) == \E h \in DOMAIN t : t[h].handshake /\ t[h].ip = ip

StartHandshake(t, ip) ==
    IF HandshakeInProgress(t, ip) \/ ~HasRoom(t) THEN t ELSE CreateHandshake(t, ip, TRUE)

DelNode(t, h) == Restrict(t, DOMAIN t \ {h})

FreeLink(t, h) == [t EXCEPT ![h].link = NoLink]

\* nodeUpdateAddressIfNeeded for a link that is not the one of the node.
UpdateAddress(t, h, ip) ==
    IF t[h].ip = ip THEN t
    ELSE [t EXCEPT ![h].ip = ip, ![h].link = NoLink, ![h].noaddr = FALSE]

\* Mutant: the blacklist is not consulted.
GossipNoBlacklist(t, blacklist, trusted, entry) ==
    LET known == Lookup(t, entry.name)
    IN  IF known # {} /\ \A h \in known : ~t[h].pfail \/ t[h].ip = entry.ip THEN t
        ELSE IF known = {} /\ ~trusted THEN t
        ELSE StartHandshake(t, entry.ip)

\* Mutant: an entry only ever updates a node that is known.
GossipKnownOnly(t, blacklist, trusted, entry) ==
    IF \E h \in Lookup(t, entry.name) : t[h].pfail /\ t[h].ip # entry.ip
    THEN StartHandshake(t, entry.ip) ELSE t

\* An entry of the gossip section.  trusted: the sender is a known node.
ProcessGossip(t, blacklist, trusted, entry) ==
    LET known == Lookup(t, entry.name)
    IN  IF known # {} /\ \A h \in known : ~t[h].pfail \/ t[h].ip = entry.ip THEN t
        ELSE IF known = {} /\ (~trusted \/ entry.name \in blacklist) THEN t
        ELSE StartHandshake(t, entry.ip)

ProcessGossipSection(t, self, blacklist, trusted, gossip) ==
    IF gossip = {} \/ \E e \in gossip : e.name = self THEN t
    ELSE ProcessGossip(t, blacklist, trusted, CHOOSE e \in gossip : TRUE)

\* The gossip sections a packet of server i may have: bound, one entry.
Gossip(t) ==
    {{}} \cup {{[name |-> t[h].name, ip |-> t[h].ip]} :
                 h \in {g \in Members(t) : ~t[g].noaddr /\ t[g].link # NoLink}}

Packet(i, type, gossip) ==
    [type |-> type, sender |-> name[i], leaving |-> leaves[i], gossip |-> gossip]

(***************************************************************************)
(* clusterCron does one of these for each structure: delete one that is    *)
(* too long in handshake, make a link, or ping an idle link that is due.   *)
(* One of them changes here; the others are not due, or fail to connect.   *)
(***************************************************************************)
ServerAt(ip) == {j \in Servers : addr[j] = ip}
InFlight == UNION {{<<i, h>> : h \in {g \in DOMAIN nodes[i] : nodes[i][g].link.msg # NoMsg}} :
                     i \in Servers}

Expired(t, h) ==
    IF Expire /\ t[h].handshake THEN {DelNode(t, h)} ELSE {}

Connect(i, t, h, gossip) ==
    IF t[h].link # NoLink \/ t[h].noaddr THEN {}
    ELSE {[t EXCEPT ![h].meet = FALSE,
             ![h].link = [peer |-> j,
                          msg |-> Packet(i, IF t[h].meet THEN "MEET" ELSE "PING", gossip)]] :
            j \in ServerAt(t[h].ip)}

Ping(i, t, h, gossip) ==
    IF t[h].handshake \/ t[h].link = NoLink \/ t[h].link.msg # NoMsg THEN {}
    ELSE {[t EXCEPT ![h].link.msg = Packet(i, "PING", gossip)]}

CronStep(i, h, gossip) ==
    /\ \E t \in Expired(nodes[i], h) \cup
               (IF Cardinality(InFlight) < MaxPackets
                THEN Connect(i, nodes[i], h, gossip) \cup Ping(i, nodes[i], h, gossip) ELSE {}) :
         nodes' = [nodes EXCEPT ![i] = t] /\ reach' = [reach EXCEPT ![i] = Reachable(t)]
    /\ UNCHANGED <<name, addr, myip, leaves, black, size, todo, conf, admin>>

clusterCron(i) == \E h \in DOMAIN nodes[i], gossip \in Gossip(nodes[i]) : CronStep(i, h, gossip)

(***************************************************************************)
(* A PING or MEET on the link of structure h of server i reaches server j. *)
(***************************************************************************)
ReceivePing(i, h) ==
    LET m == nodes[i][h].link.msg
        j == nodes[i][h].link.peer
        t == nodes[j]
        known == Lookup(t, m.sender)
        sender == CHOOSE g \in known : TRUE
        trusted == known # {} \/ m.sender = name[j]
        met == m.type = "MEET" /\ ~trusted
        \* the receiver learns its own address from the socket
        ip == IF m.type = "MEET" \/ myip[j] = NoAddress THEN addr[j] ELSE myip[j]
        t1 == IF met THEN ProcessGossipSection(CreateHandshake(t, addr[i], FALSE), name[j],
                                               black[j], FALSE, m.gossip)
              ELSE t
        \* the address of a known sender is updated, its LEAVING flag copied
        t2 == IF known # {} /\ m.type = "PING" THEN UpdateAddress(t1, sender, addr[i]) ELSE t1
        t3 == IF known # {} THEN [t2 EXCEPT ![sender].leaving = m.leaving] ELSE t2
        t4 == IF trusted THEN ProcessGossipSection(t3, name[j], black[j], TRUE, m.gossip) ELSE t3
    IN  /\ m.type \in {"PING", "MEET"}
        /\ met => HasRoom(t)
        /\ \E g \in Gossip(t1) :
             nodes' = [[nodes EXCEPT ![j] = t4] EXCEPT ![i][h].link.msg = Packet(j, "PONG", g)]
        /\ myip' = [myip EXCEPT ![j] = ip]
        /\ todo' = [todo EXCEPT ![j] = @
             \cup (IF ip # myip[j] \/ met \/ t3 # t1 THEN {"save"} ELSE {})
             \cup (IF t2 # t1 THEN {"state"} ELSE {})]
        /\ UNCHANGED <<name, addr, leaves, black, reach, size, conf, admin>>

(***************************************************************************)
(* The PONG comes back to the structure h of server i.                     *)
(***************************************************************************)
\* Handshake with a node that is already known: its address may be new, and
\* the structure in handshake goes.
\* Mutant: the structure takes the name of the node all the same.
RenameKnown(i, h, known, ip) ==
    /\ nodes' = [nodes EXCEPT ![i][h].name = nodes[i][h].link.msg.sender,
                              ![i][h].handshake = FALSE, ![i][h].link.msg = NoMsg]
    /\ myip' = myip
    /\ todo' = [todo EXCEPT ![i] = @ \cup {"save", "state"}]

HandshakeKnown(i, h, known, ip) ==
    LET t == IF known = {} THEN nodes[i]
             ELSE UpdateAddress(nodes[i], CHOOSE g \in known : TRUE, ip)
    IN  /\ nodes' = [nodes EXCEPT ![i] = DelNode(t, h)]
        /\ myip' = IF known = {} THEN [myip EXCEPT ![i] = ip] ELSE myip
        /\ todo' = IF t # nodes[i] \/ myip'[i] # myip[i]
                   THEN [todo EXCEPT ![i] = @ \cup {"save", "state"}] ELSE todo

\* Mutant: the size of the cluster is not recomputed.
RenameStaleSize(i, h, id) ==
    /\ nodes' = [nodes EXCEPT ![i][h].name = id, ![i][h].handshake = FALSE, ![i][h].pfail = FALSE,
                              ![i][h].link.msg = NoMsg]
    /\ todo' = [todo EXCEPT ![i] = @ \cup {"save"}]
    /\ UNCHANGED myip

HandshakeDone(i, h, id) ==
    /\ nodes' = [nodes EXCEPT ![i][h].name = id, ![i][h].handshake = FALSE, ![i][h].pfail = FALSE,
                              ![i][h].link.msg = NoMsg]
    /\ todo' = [todo EXCEPT ![i] = @ \cup {"save", "state"}]
    /\ UNCHANGED myip

\* Mutant: the lost address is not saved.
WrongSenderNotSaved(i, h) ==
    /\ nodes' = [nodes EXCEPT ![i][h].noaddr = TRUE, ![i][h].ip = NoAddress, ![i][h].link = NoLink]
    /\ UNCHANGED <<todo, myip>>

WrongSender(i, h) ==
    /\ nodes' = [nodes EXCEPT ![i][h].noaddr = TRUE, ![i][h].ip = NoAddress, ![i][h].link = NoLink]
    /\ todo' = [todo EXCEPT ![i] = @ \cup {"save"}]
    /\ UNCHANGED myip

PongOfMember(i, h, m) ==
    LET t == [nodes[i] EXCEPT ![h].leaving = m.leaving, ![h].pfail = FALSE, ![h].link.msg = NoMsg]
    IN  /\ nodes' = [nodes EXCEPT ![i] = ProcessGossipSection(t, name[i], black[i], TRUE, m.gossip)]
        /\ todo' = [todo EXCEPT ![i] = @
             \cup (IF nodes[i][h].pfail THEN {"save", "state"} ELSE {})
             \cup (IF nodes[i][h].leaving # m.leaving THEN {"save"} ELSE {})]
        /\ UNCHANGED myip

ReceivePong(i, h) ==
    LET n == nodes[i][h]
        m == n.link.msg
        known == Lookup(nodes[i], m.sender)
    IN  /\ m.type = "PONG"
        /\ \/ n.handshake /\ (known # {} \/ m.sender = name[i])
              /\ HandshakeKnown(i, h, known, n.ip)
           \/ n.handshake /\ known = {} /\ m.sender # name[i] /\ HandshakeDone(i, h, m.sender)
           \/ ~n.handshake /\ n.name # m.sender /\ WrongSender(i, h)
           \/ ~n.handshake /\ n.name = m.sender /\ PongOfMember(i, h, m)
        /\ UNCHANGED <<name, addr, leaves, black, reach, size, conf, admin>>

(***************************************************************************)
(* The CLUSTER command.                                                    *)
(***************************************************************************)
Meet(i, ip) ==
    /\ Command("meet")
    /\ "meet" \in Careful => \A j \in Servers : black[j] = {}
    /\ nodes' = [nodes EXCEPT ![i] = StartHandshake(@, ip)]
    /\ UNCHANGED <<name, addr, myip, leaves, black, reach, size, todo, conf>>

\* Mutant: the list of reachable nodes keeps the forgotten node.
ForgetStillReachable(i, h) ==
    /\ Command("forget")
    /\ "forget" \in Careful => \A j \in Servers : DOMAIN nodes[j] = Members(nodes[j])
    /\ black' = [black EXCEPT ![i] = @ \cup {nodes[i][h].name}]
    /\ nodes' = [nodes EXCEPT ![i] = DelNode(@, h)]
    /\ todo' = [todo EXCEPT ![i] = @ \cup {"save", "state"}]
    /\ UNCHANGED <<name, addr, myip, leaves, reach, size, conf>>

Forget(i, h) ==
    /\ Command("forget")
    /\ "forget" \in Careful => \A j \in Servers : DOMAIN nodes[j] = Members(nodes[j])
    /\ black' = [black EXCEPT ![i] = @ \cup {nodes[i][h].name}]
    /\ nodes' = [nodes EXCEPT ![i] = DelNode(@, h)]
    /\ reach' = [reach EXCEPT ![i] = Reachable(nodes'[i])]
    /\ todo' = [todo EXCEPT ![i] = @ \cup {"save", "state"}]
    /\ UNCHANGED <<name, addr, myip, leaves, size, conf>>

Reset(i, id) ==
    /\ Command(IF id = name[i] THEN "soft" ELSE "hard")
    /\ name' = [name EXCEPT ![i] = id]
    /\ nodes' = [nodes EXCEPT ![i] = Empty]
    /\ reach' = [reach EXCEPT ![i] = {}]
    /\ todo' = [todo EXCEPT ![i] = @ \cup {"save", "state"}]
    /\ UNCHANGED <<addr, myip, leaves, black, size, conf>>

Leaving(i) ==
    /\ Command("leaving")
    /\ leaves' = [leaves EXCEPT ![i] = ~@]
    /\ todo' = [todo EXCEPT ![i] = @ \cup {"save"}]
    /\ UNCHANGED <<name, addr, myip, nodes, black, reach, size, conf>>

(***************************************************************************)
(* The end of an iteration of the event loop, restarts, and time.          *)
(***************************************************************************)
clusterBeforeSleep(i) ==
    /\ todo[i] # {}
    /\ size' = IF "state" \in todo[i] THEN [size EXCEPT ![i] = ClusterSize(nodes[i])] ELSE size
    /\ conf' = IF "save" \in todo[i]
               THEN [conf EXCEPT ![i] = Description(name[i], myip[i], leaves[i], nodes[i])] ELSE conf
    /\ todo' = [todo EXCEPT ![i] = {}]
    /\ UNCHANGED <<name, addr, myip, leaves, nodes, black, reach, admin>>

\* The sockets of a process that ends are closed, at both ends.
Disconnected(i, t) ==
    [h \in DOMAIN t |-> IF t[h].link.peer = i THEN [t[h] EXCEPT !.link = NoLink] ELSE t[h]]

Restart(i, ip) ==
    \E t \in Loaded(conf[i]) :
        /\ Command(IF ip = addr[i] THEN "restart" ELSE "move")
        /\ ServerAt(ip) \subseteq {i}
        /\ addr' = [addr EXCEPT ![i] = ip]
        /\ name' = [name EXCEPT ![i] = conf[i].name]
        /\ myip' = [myip EXCEPT ![i] = conf[i].ip]
        /\ leaves' = [leaves EXCEPT ![i] = conf[i].leaving]
        /\ nodes' = [j \in Servers |-> IF j = i THEN t ELSE Disconnected(i, nodes[j])]
        /\ black' = [black EXCEPT ![i] = {}]
        /\ reach' = [reach EXCEPT ![i] = Reachable(t)]
        /\ size' = [size EXCEPT ![i] = ClusterSize(t)]
        /\ todo' = [todo EXCEPT ![i] = {}]
        /\ UNCHANGED conf

ExpireBlacklist(i) ==
    /\ black[i] # {}
    /\ black' = [black EXCEPT ![i] = {}]
    /\ UNCHANGED <<name, addr, myip, leaves, nodes, reach, size, todo, conf, admin>>

\* A late PONG makes clusterCron flag the node PFAIL and recompute the size.
Suspect(i, h) ==
    /\ Command("suspect")
    /\ nodes[i][h].link = NoLink /\ ~nodes[i][h].handshake
    /\ nodes' = [nodes EXCEPT ![i][h].pfail = TRUE]
    /\ size' = [size EXCEPT ![i] = ClusterSize(nodes[i])]
    /\ reach' = [reach EXCEPT ![i] = Reachable(nodes'[i])]
    /\ UNCHANGED <<name, addr, myip, leaves, black, todo, conf>>

BreakLink(i, h) ==
    /\ Command("break")
    /\ nodes' = [nodes EXCEPT ![i] = FreeLink(@, h)]
    /\ UNCHANGED <<name, addr, myip, leaves, black, reach, size, todo, conf>>

Next ==
    \E i \in Servers :
      \/ clusterCron(i) \/ clusterBeforeSleep(i) \/ ExpireBlacklist(i) \/ Leaving(i)
      \/ \E h \in DOMAIN nodes[i] : ReceivePing(i, h) \/ ReceivePong(i, h)
      \/ \E h \in DOMAIN nodes[i] : Forget(i, h) \/ Suspect(i, h) \/ BreakLink(i, h)
      \/ \E ip \in Addresses : Meet(i, ip) \/ Restart(i, ip)
      \/ \E id \in Names : (id = name[i] \/ \A j \in Servers : id # name[j]) /\ Reset(i, id)

Spec == Init /\ [][Next]_vars

(***************************************************************************)
(* The cron and the socket handlers of every server keep running, and the  *)
(* random choice of gossip entries picks every node again and again.       *)
(***************************************************************************)
SendAbout(i, j, k) ==
    \E h \in DOMAIN nodes[i], gossip \in Gossip(nodes[i]) :
        /\ nodes[i][h].ip = addr[j]
        /\ \E e \in gossip : e.name = name[k]
        /\ CronStep(i, h, gossip)

MakeLink ==
    \E i \in Servers : \E h \in DOMAIN nodes[i], gossip \in Gossip(nodes[i]) :
        nodes[i][h].link = NoLink /\ CronStep(i, h, gossip)

Receive == \E i \in Servers : \E h \in DOMAIN nodes[i] : ReceivePing(i, h) \/ ReceivePong(i, h)

Fairness ==
    /\ WF_vars(Receive) /\ SF_vars(MakeLink)
    /\ \A i, j, k \in Servers : Cardinality({i, j, k}) = 3 => SF_vars(SendAbout(i, j, k))

FairSpec == Spec /\ Fairness
-----------------------------------------------------------------------------
TypeOK ==
    /\ name \in [Servers -> Names] /\ addr \in [Servers -> Addresses]
    /\ \A i \in Servers :
         /\ DOMAIN nodes[i] \subseteq Handles
         /\ \A h \in DOMAIN nodes[i] :
              nodes[i][h].name \in Names \cup {Temporary(h)} /\ nodes[i][h].link.peer \in Servers \cup {"none"}
         /\ reach[i] \subseteq Handles /\ todo[i] \subseteq {"save", "state"}

\* A node is never known twice: however many handshakes with its addresses
\* are going on, started by MEET, by gossip and by the other side, the first
\* PONG gives its structure the name and the later ones delete theirs.
KnownOnce ==
    \A i \in Servers : \A g, h \in DOMAIN nodes[i] :
        nodes[i][g].name = nodes[i][h].name => g = h

\* The list that jobs are replicated to holds no structure that was freed:
\* every entry is a node that completed its handshake and was not deleted.
ReachableAlive == \A i \in Servers : reach[i] \subseteq Members(nodes[i])

\* The size that quorums are computed from is that of the table, unless
\* clusterBeforeSleep is about to recompute it.
SizeFresh == \A i \in Servers : "state" \notin todo[i] => size[i] = ClusterSize(nodes[i])

\* nodes.conf is what the table says, unless it is about to be saved: every
\* change of a name, an address or a flag it records asks for a save.
ConfFresh ==
    \A i \in Servers :
        "save" \notin todo[i] => conf[i] = Description(name[i], myip[i], leaves[i], nodes[i])

\* A node that was forgotten is not a member again while it is blacklisted.
ForgottenStaysOut ==
    \A i \in Servers : \A h \in Members(nodes[i]) : nodes[i][h].name \notin black[i]

\* The gossip of a MEET is trusted: the entry about a node that the receiver
\* does not know starts a handshake with that node.
MeetGossipTrusted ==
    [][\A i \in Servers : \A h \in DOMAIN nodes[i] :
         LET j == nodes[i][h].link.peer
             m == nodes[i][h].link.msg
         IN  ReceivePing(i, h) /\ m.type = "MEET" =>
               \A e \in m.gossip :
                 e.name = name[j] \/ e.name \in black[j] \/ Lookup(nodes'[j], e.name) # {}
                 \/ HandshakeInProgress(nodes'[j], e.ip)]_vars

\* Servers connected by MEETs end up as a full mesh: everybody knows
\* everybody by its current name and address, through gossip.
FullMesh ==
    \A i, j \in Servers : i # j =>
        \E h \in Members(nodes[i]) : nodes[i][h].name = name[j] /\ nodes[i][h].ip = addr[j]

EventuallyFullMesh == <>[]FullMesh
=============================================================================
