-------------------------- MODULE MembershipProofs --------------------------
(***************************************************************************)
(* The node tables stay consistent, for any number of servers, names and   *)
(* addresses and any sequence of commands, packets, faults and restarts.   *)
(***************************************************************************)
EXTENDS Membership, FiniteSetTheorems, TLAPS

Ips == Addresses \cup {NoAddress}

Messages ==
    {NoMsg} \cup [type : {"PING", "MEET", "PONG"}, sender : Names, leaving : BOOLEAN,
                  gossip : SUBSET [name : Names, ip : Ips]]

\* A packet that is still to be answered has a server to go to.
Links ==
    {l \in [peer : Servers \cup {"none"}, msg : Messages] :
        l.msg.type \in {"PING", "MEET"} => l.peer \in Servers}

Structures ==
    [name : Names \cup {Temporary(h) : h \in Handles}, ip : Ips, handshake : BOOLEAN,
     meet : BOOLEAN, noaddr : BOOLEAN, leaving : BOOLEAN, pfail : BOOLEAN, link : Links]

\* A structure has a random name until its handshake is over.
Named(t, h) ==
    /\ t[h].handshake => h \in Handles /\ t[h].name = Temporary(h)
    /\ ~t[h].handshake => t[h].name \in Names

Table(t) ==
    /\ IsFiniteSet(DOMAIN t) /\ t \in [DOMAIN t -> Structures]
    /\ \A h \in DOMAIN t : Named(t, h)
    /\ \A g, h \in DOMAIN t : t[g].name = t[h].name => g = h

\* What nodes.conf keeps of a structure.
Lines == [name : Names, ip : Ips, noaddr : BOOLEAN, leaving : BOOLEAN]
Line(s) == [name |-> s.name, ip |-> s.ip, noaddr |-> s.noaddr, leaving |-> s.leaving]

Saved(c) ==
    /\ c \in [name : Names, ip : Ips, leaving : BOOLEAN, nodes : SUBSET Lines]
    /\ IsFiniteSet(c.nodes)
    /\ \A l, k \in c.nodes : l.name = k.name => l = k

\* Table u has the members of t, and says the same of them.
Same(t, u) ==
    /\ Members(u) = Members(t)
    /\ \A h \in Members(t) : Line(u[h]) = Line(t[h])

-----------------------------------------------------------------------------
LEMMA SameDescription ==
    ASSUME NEW t, NEW u, Same(t, u), NEW n, NEW ip, NEW l
    PROVE  /\ Description(n, ip, l, u) = Description(n, ip, l, t)
           /\ ClusterSize(u) = ClusterSize(t)
<1>1. {Line(u[h]) : h \in Members(u)} = {Line(t[h]) : h \in Members(t)}
  BY DEF Same
<1> QED
  BY <1>1 DEF Same, Description, ClusterSize, Line

LEMMA SameTransitive ==
    ASSUME NEW t, NEW u, NEW v, Same(t, u), Same(u, v) PROVE Same(t, v)
BY DEF Same

\* Changing what a structure says, but not its name.
LEMMA UpdateTable ==
    ASSUME NEW t, Table(t), NEW h \in DOMAIN t, NEW s \in Structures,
           s.name = t[h].name, s.handshake = t[h].handshake
    PROVE  LET u == [t EXCEPT ![h] = s] IN
           /\ Table(u) /\ DOMAIN u = DOMAIN t /\ Members(u) = Members(t)
           /\ Line(s) = Line(t[h]) => Same(t, u)
<1> DEFINE u == [t EXCEPT ![h] = s]
<1>1. DOMAIN u = DOMAIN t /\ u[h] = s /\ \A g \in DOMAIN t : g # h => u[g] = t[g]
  BY DEF Table
<1>2. u \in [DOMAIN u -> Structures]
  BY <1>1 DEF Table
<1> HIDE DEF u
<1>3. Table(u)
  BY <1>1, <1>2 DEF Table, Named
<1>4. Members(u) = Members(t)
  BY <1>1 DEF Members
<1>5. Line(s) = Line(t[h]) => Same(t, u)
  BY <1>1, <1>4 DEF Same, Members
<1> QED
  BY <1>1, <1>3, <1>4, <1>5 DEF u

LEMMA FreeHandle ==
    ASSUME NEW t, IsFiniteSet(DOMAIN t), HasRoom(t)
    PROVE  Free(t) \in Handles \ DOMAIN t
<1>1. IsFiniteSet(Handles) /\ Cardinality(Handles) = MaxNodes
  BY FS_Interval, MembershipAssumption DEF Handles
<1>2. ~(Handles \subseteq DOMAIN t)
  BY <1>1, FS_Subset, FS_CardinalityType, MembershipAssumption DEF HasRoom
<1> QED
  BY <1>2 DEF Free

LEMMA NoLinkType == NoLink \in Links
BY DEF NoLink, Links, Messages, NoMsg

LEMMA CreateHandshakeTable ==
    ASSUME NEW t, Table(t), HasRoom(t), NEW ip \in Ips, NEW meet \in BOOLEAN
    PROVE  LET u == CreateHandshake(t, ip, meet) IN
           /\ Table(u) /\ Same(t, u) /\ DOMAIN t \subseteq DOMAIN u
           /\ \A h \in DOMAIN t : u[h] = t[h]
<1> DEFINE h == Free(t)
           s == [name |-> Temporary(h), ip |-> ip, handshake |-> TRUE, meet |-> meet,
                 noaddr |-> FALSE, leaving |-> FALSE, pfail |-> FALSE, link |-> NoLink]
           u == CreateHandshake(t, ip, meet)
<1>1. h \in Handles /\ h \notin DOMAIN t
  BY FreeHandle DEF Table
<1>2. s \in Structures /\ s.handshake = TRUE /\ s.name = Temporary(h)
  BY <1>1, NoLinkType DEF Structures
<1>3. u = [g \in DOMAIN t \cup {h} |-> IF g # h THEN t[g] ELSE s]
  BY DEF CreateHandshake
<1> HIDE DEF h, s, u
<1>4. /\ DOMAIN u = DOMAIN t \cup {h} /\ u[h] = s /\ \A g \in DOMAIN t : u[g] = t[g]
      /\ u \in [DOMAIN u -> Structures]
  BY <1>1, <1>2, <1>3 DEF Table
<1>5. IsFiniteSet(DOMAIN u)
  BY <1>4, FS_AddElement DEF Table
<1>6. \A g \in DOMAIN u : Named(u, g)
  BY <1>1, <1>2, <1>4 DEF Table, Named
<1>7. \A g \in DOMAIN t : t[g].name # Temporary(h)
  <2> SUFFICES ASSUME NEW g \in DOMAIN t PROVE t[g].name # Temporary(h)
    OBVIOUS
  <2>1. CASE t[g].handshake
    BY <1>1, <2>1 DEF Table, Named, Temporary
  <2>2. CASE ~t[g].handshake
    BY <1>1, <2>2, MembershipAssumption DEF Table, Named
  <2> QED
    BY <2>1, <2>2
<1>8. \A f, g \in DOMAIN u : u[f].name = u[g].name => f = g
  BY <1>2, <1>4, <1>7 DEF Table
<1>9. Members(u) = Members(t)
  BY <1>1, <1>2, <1>4 DEF Members
<1>10. Same(t, u)
  BY <1>4, <1>9 DEF Same, Members
<1> QED
  BY <1>4, <1>5, <1>6, <1>8, <1>10 DEF Table, u

LEMMA StartHandshakeTable ==
    ASSUME NEW t, Table(t), NEW ip \in Ips
    PROVE  LET u == StartHandshake(t, ip) IN
           /\ Table(u) /\ Same(t, u) /\ DOMAIN t \subseteq DOMAIN u
           /\ \A h \in DOMAIN t : u[h] = t[h]
<1>1. Same(t, t)
  BY DEF Same
<1> QED
  BY <1>1, CreateHandshakeTable DEF StartHandshake

\* A gossip section starts a handshake at most.
LEMMA GossipTable ==
    ASSUME NEW t, Table(t), NEW self, NEW blacklist, NEW trusted,
           NEW gossip \in SUBSET [name : Names, ip : Ips]
    PROVE  LET u == ProcessGossipSection(t, self, blacklist, trusted, gossip) IN
           /\ Table(u) /\ Same(t, u) /\ DOMAIN t \subseteq DOMAIN u
           /\ \A h \in DOMAIN t : u[h] = t[h]
<1>1. Same(t, t)
  BY DEF Same
<1>2. CASE gossip = {}
  BY <1>1, <1>2 DEF ProcessGossipSection
<1>3. CASE gossip # {}
  <2> DEFINE e == CHOOSE e \in gossip : TRUE
  <2>1. e.ip \in Ips
    BY <1>3
  <2> HIDE DEF e
  <2>2. ProcessGossip(t, blacklist, trusted, e) \in {t, StartHandshake(t, e.ip)}
    BY DEF ProcessGossip
  <2>3. ProcessGossipSection(t, self, blacklist, trusted, gossip) \in {t, StartHandshake(t, e.ip)}
    BY <2>2 DEF ProcessGossipSection, e
  <2> QED
    BY <1>1, <2>1, <2>3, StartHandshakeTable
<1> QED
  BY <1>2, <1>3

LEMMA DelNodeTable ==
    ASSUME NEW t, Table(t), NEW h \in DOMAIN t
    PROVE  LET u == DelNode(t, h) IN
           /\ Table(u) /\ DOMAIN u = DOMAIN t \ {h} /\ Members(u) = Members(t) \ {h}
           /\ \A g \in DOMAIN u : u[g] = t[g]
           /\ t[h].handshake => Same(t, u)
<1> DEFINE u == DelNode(t, h)
<1>1. DOMAIN u = DOMAIN t \ {h} /\ u \in [DOMAIN u -> Structures] /\ \A g \in DOMAIN u : u[g] = t[g]
  BY DEF DelNode, Restrict, Table
<1> HIDE DEF u
<1>2. IsFiniteSet(DOMAIN u)
  BY <1>1, FS_RemoveElement DEF Table
<1>3. Table(u)
  BY <1>1, <1>2 DEF Table, Named
<1>4. Members(u) = Members(t) \ {h}
  BY <1>1 DEF Members
<1>5. t[h].handshake => Same(t, u)
  BY <1>1, <1>4 DEF Same, Members
<1> QED
  BY <1>1, <1>3, <1>4, <1>5 DEF u

\* What clusterSaveConfig writes is a file that clusterLoadConfig reads.
LEMMA DescriptionSaved ==
    ASSUME NEW t, Table(t), NEW n \in Names, NEW ip \in Ips, NEW l \in BOOLEAN
    PROVE  Saved(Description(n, ip, l, t))
<1> DEFINE L == {Line(t[h]) : h \in Members(t)}
           f == [h \in Members(t) |-> Line(t[h])]
           d == [name |-> n, ip |-> ip, leaving |-> l, nodes |-> L]
<1>1. Description(n, ip, l, t) = d
  BY DEF Description, Line
<1>2. IsFiniteSet(Members(t))
  <2>1. Members(t) \in SUBSET DOMAIN t
    BY DEF Members
  <2> QED
    BY <2>1, FS_Subset DEF Table
<1>3. f \in Surjection(Members(t), L)
  BY DEF Surjection
<1>4. IsFiniteSet(L)
  BY <1>2, <1>3, FS_Surjection
<1>5. \A h \in Members(t) : Line(t[h]) \in Lines /\ Line(t[h]).name = t[h].name
  BY DEF Members, Table, Named, Structures, Line, Lines
<1>6. L \subseteq Lines
  BY <1>5
<1>7. \A k, m \in L : k.name = m.name => k = m
  BY <1>5 DEF Members, Table
<1> HIDE DEF L
<1>8. d \in [name : Names, ip : Ips, leaving : BOOLEAN, nodes : SUBSET Lines] /\ d.nodes = L
  BY <1>6
<1> QED
  BY <1>1, <1>4, <1>7, <1>8 DEF Saved

\* A restart finds what was saved: every line once, no handshake.
LEMMA LoadedTable ==
    ASSUME NEW c, Saved(c), NEW t \in Loaded(c)
    PROVE  Table(t) /\ Description(c.name, c.ip, c.leaving, t) = c
<1> DEFINE node(line) == [name |-> line.name, ip |-> line.ip, handshake |-> FALSE, meet |-> FALSE,
                          noaddr |-> line.noaddr, leaving |-> line.leaving, pfail |-> FALSE,
                          link |-> NoLink]
           N == Cardinality(c.nodes)
<1>1. PICK f \in [1..N -> c.nodes] : Range(f) = c.nodes /\ t = [h \in DOMAIN f |-> node(f[h])]
  BY DEF Loaded
<1>2. N \in Nat /\ c.nodes \subseteq Lines
  BY FS_CardinalityType DEF Saved
<1>3. IsFiniteSet(1..N) /\ Cardinality(1..N) = N
  BY <1>2, FS_Interval
<1>4. f \in Surjection(1..N, c.nodes)
  BY <1>1 DEF Surjection, Range
<1>5. \A g, h \in 1..N : f[g] = f[h] => g = h
  <2>1. f \in Injection(1..N, c.nodes)
    BY <1>3, <1>4, FS_SurjSameCardinalityImpliesInj
  <2> QED
    BY <2>1 DEF Injection, IsInjective
<1>6. DOMAIN t = 1..N /\ \A h \in 1..N : t[h] = node(f[h])
  BY <1>1
<1>7. \A h \in 1..N :
        /\ t[h] \in Structures /\ ~t[h].handshake /\ t[h].name = f[h].name
        /\ t[h].name \in Names /\ Line(t[h]) = f[h]
  BY <1>1, <1>2, <1>6, NoLinkType DEF Structures, Lines, Line
<1>8. t \in [DOMAIN t -> Structures]
  BY <1>1, <1>6, <1>7
<1>9. \A g, h \in 1..N : t[g].name = t[h].name => g = h
  BY <1>1, <1>5, <1>7 DEF Saved
<1>10. Table(t)
  BY <1>3, <1>6, <1>7, <1>8, <1>9 DEF Table, Named
<1>11. Members(t) = 1..N
  BY <1>6, <1>7 DEF Members
<1>12. {Line(t[h]) : h \in Members(t)} = c.nodes
  <2>1. \A l \in c.nodes : \E h \in 1..N : l = f[h]
    BY <1>1 DEF Range
  <2>2. \A h \in Members(t) : Line(t[h]) = f[h] /\ f[h] \in c.nodes
    BY <1>1, <1>7, <1>11
  <2> QED
    BY <1>11, <2>1, <2>2
<1>13. Description(c.name, c.ip, c.leaving, t) = [name |-> c.name, ip |-> c.ip, leaving |-> c.leaving, nodes |-> c.nodes]
  BY <1>12 DEF Description, Line
<1> QED
  BY <1>10, <1>13 DEF Saved

-----------------------------------------------------------------------------
\* What holds of each server.
Right(i) ==
    /\ name[i] \in Names /\ addr[i] \in Addresses /\ myip[i] \in Ips /\ leaves[i] \in BOOLEAN
    /\ Table(nodes[i]) /\ Saved(conf[i])
    /\ reach[i] \subseteq Members(nodes[i])
    /\ "state" \notin todo[i] => size[i] = ClusterSize(nodes[i])
    /\ "save" \notin todo[i] => conf[i] = Description(name[i], myip[i], leaves[i], nodes[i])

Shape ==
    /\ DOMAIN name = Servers /\ DOMAIN addr = Servers /\ DOMAIN myip = Servers
    /\ DOMAIN leaves = Servers /\ DOMAIN nodes = Servers /\ DOMAIN conf = Servers
    /\ DOMAIN reach = Servers /\ DOMAIN size = Servers /\ DOMAIN todo = Servers

MemInv == Shape /\ \A i \in Servers : Right(i)

\* The step is one of server i alone.
Only(i) ==
    \A j \in Servers \ {i} :
        /\ name'[j] = name[j] /\ addr'[j] = addr[j] /\ myip'[j] = myip[j] /\ leaves'[j] = leaves[j]
        /\ nodes'[j] = nodes[j] /\ conf'[j] = conf[j] /\ reach'[j] = reach[j]
        /\ size'[j] = size[j] /\ todo'[j] = todo[j]

LEMMA OwnStep ==
    ASSUME MemInv, NEW i \in Servers, Shape', Only(i), Right(i)' PROVE MemInv'
<1>1. ASSUME NEW j \in Servers \ {i} PROVE Right(j)'
  BY <1>1 DEF MemInv, Only, Right
<1> QED
  BY <1>1 DEF MemInv

\* A step that keeps the members of server i, and asks for a save if it changes
\* anything that nodes.conf says.
LEMMA ServerKept ==
    ASSUME MemInv, NEW i \in Servers,
           name'[i] = name[i], addr'[i] = addr[i], leaves'[i] = leaves[i], conf'[i] = conf[i],
           myip'[i] \in Ips, Table(nodes'[i]), Members(nodes'[i]) = Members(nodes[i]),
           reach'[i] = reach[i] \/ reach'[i] \subseteq Members(nodes'[i]),
           size'[i] = size[i] \/ size'[i] = ClusterSize(nodes'[i]),
           todo[i] \subseteq todo'[i],
           "save" \notin todo'[i] => Same(nodes[i], nodes'[i]) /\ myip'[i] = myip[i]
    PROVE  Right(i)'
<1>1. ClusterSize(nodes'[i]) = ClusterSize(nodes[i])
  BY DEF ClusterSize
<1>2. "save" \notin todo'[i] => Description(name[i], myip'[i], leaves[i], nodes'[i])
                                  = Description(name[i], myip[i], leaves[i], nodes[i])
  BY SameDescription
<1>3. Right(i)
  BY DEF MemInv
<1> QED
  BY <1>1, <1>2, <1>3 DEF Right

\* A step that changes no member of the table of server i.
LEMMA QuietStep ==
    ASSUME MemInv, NEW i \in Servers, Shape', Only(i),
           name'[i] = name[i], addr'[i] = addr[i], myip'[i] = myip[i], leaves'[i] = leaves[i],
           Table(nodes'[i]), Same(nodes[i], nodes'[i]),
           reach'[i] = reach[i] \/ reach'[i] \subseteq Members(nodes'[i]),
           size'[i] = size[i] \/ size'[i] = ClusterSize(nodes'[i]),
           conf'[i] = conf[i], todo[i] \subseteq todo'[i]
    PROVE  MemInv'
<1>1. myip[i] \in Ips
  BY DEF MemInv, Right
<1>2. Right(i)'
  BY <1>1, ServerKept DEF Same
<1> QED
  BY <1>2, OwnStep

\* The gossip section of a packet names members only.
LEMMA PacketType ==
    ASSUME MemInv, NEW i \in Servers, NEW t, Table(t), NEW gossip \in Gossip(t),
           NEW type \in {"PING", "MEET", "PONG"}
    PROVE  /\ Packet(i, type, gossip) \in Messages /\ Packet(i, type, gossip).type = type
           /\ Packet(i, type, gossip) # NoMsg
<1>1. gossip \in SUBSET [name : Names, ip : Ips]
  BY DEF Gossip, Members, Table, Named, Structures
<1>2. name[i] \in Names /\ leaves[i] \in BOOLEAN
  BY DEF MemInv, Right
<1> QED
  BY <1>1, <1>2 DEF Packet, Messages, NoMsg

LEMMA CronKeeps == ASSUME MemInv, NEW i \in Servers, clusterCron(i) PROVE MemInv'
<1>1. PICK h \in DOMAIN nodes[i], gossip \in Gossip(nodes[i]) : CronStep(i, h, gossip)
  BY DEF clusterCron
<1>2. PICK u \in Expired(nodes[i], h) \cup Connect(i, nodes[i], h, gossip) \cup Ping(i, nodes[i], h, gossip) :
         nodes' = [nodes EXCEPT ![i] = u] /\ reach' = [reach EXCEPT ![i] = Reachable(u)]
  BY <1>1 DEF CronStep
<1>3. UNCHANGED <<name, addr, myip, leaves, size, todo, conf>>
  BY <1>1 DEF CronStep
<1> DEFINE t == nodes[i]
<1>4. Table(t) /\ t[h] \in Structures
  BY DEF MemInv, Right, Table
<1>5. Table(u) /\ Same(t, u)
  <2>1. CASE u \in Expired(t, h)
    <3>1. u = DelNode(t, h) /\ t[h].handshake
      BY <2>1 DEF Expired
    <3> QED
      BY <1>4, <3>1, DelNodeTable
  <2>2. CASE u \in Connect(i, t, h, gossip)
    <3> DEFINE type == IF t[h].meet THEN "MEET" ELSE "PING"
               m == Packet(i, type, gossip)
    <3>1. PICK j \in Servers :
            u = [t EXCEPT ![h].meet = FALSE, ![h].link = [peer |-> j, msg |-> m]]
      BY <2>2 DEF Connect, ServerAt
    <3>2. m \in Messages
      BY <1>4, PacketType
    <3> HIDE DEF m
    <3> DEFINE s == [t[h] EXCEPT !.meet = FALSE, !.link = [peer |-> j, msg |-> m]]
    <3>3. [peer |-> j, msg |-> m] \in Links
      BY <3>2 DEF Links
    <3>4. s \in Structures /\ s.name = t[h].name /\ s.handshake = t[h].handshake /\ Line(s) = Line(t[h])
      BY <1>4, <3>3 DEF Structures, Line
    <3>5. u = [t EXCEPT ![h] = s]
      BY <1>4, <3>1 DEF Table
    <3> HIDE DEF s
    <3> QED
      BY <1>4, <3>4, <3>5, UpdateTable
  <2>3. CASE u \in Ping(i, t, h, gossip)
    <3> DEFINE m == Packet(i, "PING", gossip)
    <3>1. /\ u = [t EXCEPT ![h].link.msg = m]
          /\ t[h].link # NoLink /\ t[h].link.msg = NoMsg
      BY <2>3 DEF Ping
    <3>2. m \in Messages
      BY <1>4, PacketType
    <3> HIDE DEF m
    <3> DEFINE l == [t[h].link EXCEPT !.msg = m]
               s == [t[h] EXCEPT !.link = l]
    <3>3. l \in Links
      BY <1>4, <3>1, <3>2 DEF Structures, Links, NoLink
    <3> HIDE DEF l
    <3>4. s \in Structures /\ s.name = t[h].name /\ s.handshake = t[h].handshake /\ Line(s) = Line(t[h])
      BY <1>4, <3>3 DEF Structures, Line
    <3>5. u = [t EXCEPT ![h] = s]
      BY <1>4, <3>1 DEF Table, Structures, l
    <3> HIDE DEF s
    <3> QED
      BY <1>4, <3>4, <3>5, UpdateTable
  <2> QED
    BY <1>2, <2>1, <2>2, <2>3
<1>6. nodes'[i] = u /\ reach'[i] \subseteq Members(u)
  BY <1>2 DEF MemInv, Shape, Reachable
<1>7. Shape' /\ Only(i)
  BY <1>2, <1>3 DEF MemInv, Shape, Only
<1> QED
  BY <1>3, <1>5, <1>6, <1>7, QuietStep

\* Updating the address of a structure keeps it.
LEMMA UpdateAddressTable ==
    ASSUME NEW t, Table(t), NEW h \in DOMAIN t, NEW ip \in Ips
    PROVE  LET u == UpdateAddress(t, h, ip) IN
           Table(u) /\ DOMAIN u = DOMAIN t /\ Members(u) = Members(t)
<1> DEFINE s == [t[h] EXCEPT !.ip = ip, !.link = NoLink, !.noaddr = FALSE]
<1>1. t[h] \in Structures
  BY DEF Table
<1>2. s \in Structures /\ s.name = t[h].name /\ s.handshake = t[h].handshake
  BY <1>1, NoLinkType DEF Structures
<1>3. UpdateAddress(t, h, ip) \in {t, [t EXCEPT ![h] = s]}
  BY <1>1 DEF UpdateAddress, Table
<1> HIDE DEF s
<1> QED
  BY <1>2, <1>3, UpdateTable

LEMMA PingKeeps ==
    ASSUME MemInv, NEW i \in Servers, NEW h \in DOMAIN nodes[i], ReceivePing(i, h) PROVE MemInv'
<1> DEFINE m == nodes[i][h].link.msg
           j == nodes[i][h].link.peer
           t == nodes[j]
           known == Lookup(t, m.sender)
           sender == CHOOSE g \in known : TRUE
           trusted == known # {} \/ m.sender = name[j]
           met == m.type = "MEET" /\ ~trusted
           ip == IF m.type = "MEET" \/ myip[j] = NoAddress THEN addr[j] ELSE myip[j]
           t1 == IF met THEN ProcessGossipSection(CreateHandshake(t, addr[i], FALSE), name[j],
                                                  black[j], FALSE, m.gossip)
                 ELSE t
           t2 == IF known # {} /\ m.type = "PING" THEN UpdateAddress(t1, sender, addr[i]) ELSE t1
           t3 == IF known # {} THEN [t2 EXCEPT ![sender].leaving = m.leaving] ELSE t2
           t4 == IF trusted THEN ProcessGossipSection(t3, name[j], black[j], TRUE, m.gossip) ELSE t3
<1>1. /\ m.type \in {"PING", "MEET"}
      /\ met => HasRoom(t)
      /\ \E g \in Gossip(t1) :
             nodes' = [[nodes EXCEPT ![j] = t4] EXCEPT ![i][h].link.msg = Packet(j, "PONG", g)]
      /\ myip' = [myip EXCEPT ![j] = ip]
      /\ todo' = [todo EXCEPT ![j] = @
             \cup (IF ip # myip[j] \/ met \/ t3 # t1 THEN {"save"} ELSE {})
             \cup (IF t2 # t1 THEN {"state"} ELSE {})]
      /\ UNCHANGED <<name, addr, leaves, reach, size, conf>>
  BY DEF ReceivePing
<1>2. /\ j \in Servers /\ m.sender \in Names /\ m.leaving \in BOOLEAN
      /\ m.gossip \in SUBSET [name : Names, ip : Ips]
  <2>1. nodes[i][h].link \in Links
    BY DEF MemInv, Right, Table, Structures
  <2>2. m.type \in {"PING", "MEET"}
    BY <1>1
  <2>3. m \in Messages /\ (m.type \in {"PING", "MEET"} => j \in Servers)
    BY <2>1 DEF Links
  <2> HIDE DEF m, j
  <2> QED
    BY <2>2, <2>3 DEF Messages, NoMsg
<1>3. Table(t) /\ Right(i) /\ Right(j)
  BY <1>2 DEF MemInv, Right
<1>4. addr[i] \in Ips /\ ip \in Ips /\ name[j] \in Names
  BY <1>3 DEF Right, Ips
<1>5. /\ Table(t1) /\ Same(t, t1) /\ DOMAIN t \subseteq DOMAIN t1
      /\ known # {} => t1 = t /\ sender \in DOMAIN t
  <2>1. Same(t, t)
    BY DEF Same
  <2>2. known # {} => t1 = t /\ sender \in DOMAIN t
    BY DEF Lookup
  <2>3. CASE met
    <3> DEFINE c == CreateHandshake(t, addr[i], FALSE)
    <3>1. Table(c) /\ Same(t, c) /\ DOMAIN t \subseteq DOMAIN c
      BY <1>1, <1>3, <1>4, <2>3, CreateHandshakeTable
    <3> HIDE DEF c
    <3>2. t1 = ProcessGossipSection(c, name[j], black[j], FALSE, m.gossip)
      BY <2>3 DEF c
    <3> HIDE DEF t1
    <3>3. Table(t1) /\ Same(c, t1) /\ DOMAIN c \subseteq DOMAIN t1
      BY <1>2, <3>1, <3>2, GossipTable
    <3> QED
      BY <2>2, <3>1, <3>3, SameTransitive
  <2>4. CASE ~met
    BY <1>3, <2>1, <2>2, <2>4
  <2> QED
    BY <2>3, <2>4
<1> HIDE DEF t1
<1>6. Table(t2) /\ DOMAIN t2 = DOMAIN t1 /\ Members(t2) = Members(t1)
  BY <1>4, <1>5, UpdateAddressTable
<1> HIDE DEF t2
<1>7. Table(t3) /\ DOMAIN t3 = DOMAIN t1 /\ Members(t3) = Members(t1)
  <2>1. CASE known # {}
    <3> DEFINE s == [t2[sender] EXCEPT !.leaving = m.leaving]
    <3>1. sender \in DOMAIN t2 /\ t2[sender] \in Structures
      BY <1>5, <1>6, <2>1 DEF Table
    <3>2. s \in Structures /\ s.name = t2[sender].name /\ s.handshake = t2[sender].handshake
      BY <1>2, <3>1 DEF Structures
    <3>3. t3 = [t2 EXCEPT ![sender] = s]
      BY <1>6, <2>1, <3>1 DEF Table
    <3> HIDE DEF s, t3, sender
    <3> QED
      BY <1>6, <3>1, <3>2, <3>3, UpdateTable
  <2>2. CASE known = {}
    BY <1>6, <2>2
  <2> QED
    BY <2>1, <2>2
<1> HIDE DEF t3
<1>8. Table(t4) /\ Same(t3, t4) /\ DOMAIN t3 \subseteq DOMAIN t4
  <2>1. Same(t3, t3)
    BY DEF Same
  <2> QED
    BY <1>2, <1>7, <2>1, GossipTable
<1> HIDE DEF t4
<1>9. PICK g \in Gossip(t1) :
        nodes' = [[nodes EXCEPT ![j] = t4] EXCEPT ![i][h].link.msg = Packet(j, "PONG", g)]
  BY <1>1
<1> DEFINE A == [nodes EXCEPT ![j] = t4]
           pong == Packet(j, "PONG", g)
           l == [A[i][h].link EXCEPT !.msg = pong]
           s == [A[i][h] EXCEPT !.link = l]
<1>10. DOMAIN A = Servers /\ A[j] = t4 /\ \A k \in Servers : k # j => A[k] = nodes[k]
  BY <1>2 DEF MemInv, Shape
<1>11. pong \in Messages /\ pong.type = "PONG"
  BY <1>2, <1>5, PacketType
<1> HIDE DEF A, pong
<1>12. Table(A[i]) /\ h \in DOMAIN A[i] /\ A[i][h] \in Structures
  <2>1. CASE i = j
    BY <1>5, <1>7, <1>8, <1>10, <2>1 DEF Table
  <2>2. CASE i # j
    BY <1>3, <1>10, <2>2 DEF Right, Table
  <2> QED
    BY <2>1, <2>2
<1>13. l \in Links
  BY <1>11, <1>12 DEF Structures, Links
<1>14. nodes' = [A EXCEPT ![i] = [A[i] EXCEPT ![h] = s]]
  BY <1>9, <1>10, <1>12 DEF A, pong, Table, Structures
<1> HIDE DEF l
<1>15. s \in Structures /\ s.name = A[i][h].name /\ s.handshake = A[i][h].handshake /\ Line(s) = Line(A[i][h])
  BY <1>12, <1>13 DEF Structures, Line
<1> HIDE DEF s
<1>16. /\ DOMAIN nodes' = Servers
       /\ \A k \in Servers : Table(nodes'[k]) /\ Same(A[k], nodes'[k])
  <2>1. Table(nodes'[i]) /\ Same(A[i], nodes'[i])
    BY <1>10, <1>12, <1>14, <1>15, UpdateTable
  <2>2. ASSUME NEW k \in Servers, k # i PROVE Table(nodes'[k]) /\ Same(A[k], nodes'[k])
    <3>1. nodes'[k] = A[k]
      BY <1>10, <1>14, <2>2
    <3>2. Table(A[k])
      BY <1>8, <1>10 DEF MemInv, Right
    <3> QED
      BY <3>1, <3>2 DEF Same
  <2>3. DOMAIN nodes' = Servers
    BY <1>10, <1>14
  <2> QED
    BY <2>1, <2>2, <2>3
<1>17. ASSUME NEW k \in Servers PROVE Right(k)'
  <2>1. /\ name'[k] = name[k] /\ addr'[k] = addr[k] /\ leaves'[k] = leaves[k] /\ conf'[k] = conf[k]
        /\ reach'[k] = reach[k] /\ size'[k] = size[k] /\ todo[k] \subseteq todo'[k]
        /\ k # j => todo'[k] = todo[k] /\ myip'[k] = myip[k]
    BY <1>1, <1>2 DEF MemInv, Shape
  <2>2. k = j => myip'[k] = ip /\ ("save" \notin todo'[k] => ip = myip[j] /\ ~met /\ t3 = t1)
    BY <1>1, <1>2 DEF MemInv, Shape
  <2>3. myip'[k] \in Ips
    BY <1>4, <2>1, <2>2 DEF MemInv, Right
  <2>4. Members(nodes'[k]) = Members(nodes[k])
    BY <1>5, <1>7, <1>8, <1>10, <1>16 DEF Same
  <2>5. "save" \notin todo'[k] => Same(nodes[k], nodes'[k]) /\ myip'[k] = myip[k]
    <3>1. CASE k = j
      <4>1. "save" \notin todo'[k] => Same(t1, t4)
        BY <1>8, <2>2, <3>1
      <4>2. "save" \notin todo'[k] => Same(t, t4)
        BY <1>5, <4>1, SameTransitive
      <4>3. Same(t4, nodes'[k])
        BY <1>10, <1>16, <3>1
      <4>4. "save" \notin todo'[k] => Same(t, nodes'[k])
        BY <4>2, <4>3, SameTransitive
      <4> QED
        BY <2>2, <3>1, <4>4
    <3>2. CASE k # j
      BY <1>10, <1>16, <2>1, <3>2
    <3> QED
      BY <3>1, <3>2
  <2> QED
    BY <1>16, <2>1, <2>3, <2>4, <2>5, ServerKept
<1>18. Shape'
  BY <1>1, <1>16 DEF MemInv, Shape
<1> QED
  BY <1>17, <1>18 DEF MemInv

LEMMA PongKeeps ==
    ASSUME MemInv, NEW i \in Servers, NEW h \in DOMAIN nodes[i], ReceivePong(i, h) PROVE MemInv'
<1> DEFINE t == nodes[i]
           n == t[h]
           m == n.link.msg
           known == Lookup(t, m.sender)
<1>1. /\ m.type = "PONG"
      /\ \/ n.handshake /\ (known # {} \/ m.sender = name[i]) /\ HandshakeKnown(i, h, known, n.ip)
         \/ n.handshake /\ known = {} /\ m.sender # name[i] /\ HandshakeDone(i, h, m.sender)
         \/ ~n.handshake /\ WrongSender(i, h)
         \/ ~n.handshake /\ PongOfMember(i, h, m)
      /\ UNCHANGED <<name, addr, leaves, reach, size, conf>>
  BY DEF ReceivePong
<1>2. Table(t) /\ n \in Structures /\ Right(i)
  BY DEF MemInv, Right, Table
<1>3. /\ m \in Messages /\ n.link \in Links /\ m.sender \in Names /\ m.leaving \in BOOLEAN
      /\ m.gossip \in SUBSET [name : Names, ip : Ips] /\ n.ip \in Ips
  <2>1. n.link \in Links /\ n.ip \in Ips
    BY <1>2 DEF Structures
  <2>2. m \in Messages /\ m.type = "PONG"
    BY <1>1, <2>1 DEF Links
  <2> HIDE DEF m
  <2> QED
    BY <2>1, <2>2 DEF Messages, NoMsg
<1> DEFINE quiet == [n.link EXCEPT !.msg = NoMsg]
<1>4. quiet \in Links
  BY <1>3 DEF Links, Messages, NoMsg
<1> HIDE DEF m, known
<1>5. CASE n.handshake /\ HandshakeKnown(i, h, known, n.ip)
  <2> DEFINE g == CHOOSE g \in known : TRUE
             u == IF known = {} THEN t ELSE UpdateAddress(t, g, n.ip)
  <2>1. /\ nodes' = [nodes EXCEPT ![i] = DelNode(u, h)]
        /\ myip' = IF known = {} THEN [myip EXCEPT ![i] = n.ip] ELSE myip
        /\ todo' = IF u # t \/ myip'[i] # myip[i]
                   THEN [todo EXCEPT ![i] = @ \cup {"save", "state"}] ELSE todo
    BY <1>5 DEF HandshakeKnown
  <2>2. known # {} => g \in DOMAIN t
    BY DEF known, Lookup
  <2> HIDE DEF g
  <2>3. Table(u) /\ DOMAIN u = DOMAIN t /\ Members(u) = Members(t)
    BY <1>2, <1>3, <2>2, UpdateAddressTable
  <2>4. u[h].handshake
    BY <1>5, <2>3 DEF Members, Table, Structures
  <2> HIDE DEF u
  <2>5. Table(DelNode(u, h)) /\ Same(u, DelNode(u, h))
    BY <2>3, <2>4, DelNodeTable
  <2>6. nodes'[i] = DelNode(u, h) /\ myip'[i] \in Ips
    BY <1>2, <1>3, <2>1 DEF MemInv, Shape, Right
  <2>7. Members(nodes'[i]) = Members(t)
    BY <2>3, <2>5, <2>6 DEF Same
  <2>8. todo[i] \subseteq todo'[i] /\ ("save" \notin todo'[i] => u = t /\ myip'[i] = myip[i])
    BY <2>1 DEF MemInv, Shape
  <2>9. Right(i)'
    BY <1>1, <2>5, <2>6, <2>7, <2>8, ServerKept
  <2>10. Shape' /\ Only(i)
    BY <1>1, <2>1 DEF MemInv, Shape, Only
  <2> QED
    BY <2>9, <2>10, OwnStep
<1>6. CASE n.handshake /\ known = {} /\ HandshakeDone(i, h, m.sender)
  <2> DEFINE s == [n EXCEPT !.name = m.sender, !.handshake = FALSE, !.pfail = FALSE, !.link = quiet]
             u == [t EXCEPT ![h] = s]
  <2>1. /\ nodes' = [nodes EXCEPT ![i] = u]
        /\ todo' = [todo EXCEPT ![i] = @ \cup {"save", "state"}]
        /\ UNCHANGED myip
    BY <1>2, <1>6 DEF HandshakeDone, MemInv, Shape, Table, Structures
  <2>2. s \in Structures /\ s.name = m.sender /\ s.handshake = FALSE
    BY <1>2, <1>3, <1>4 DEF Structures
  <2> HIDE DEF s
  <2>3. DOMAIN u = DOMAIN t /\ u[h] = s /\ (\A g \in DOMAIN t : g # h => u[g] = t[g])
    BY <1>2 DEF Table
  <2>4. u \in [DOMAIN u -> Structures]
    BY <1>2, <2>2, <2>3 DEF Table
  <2> HIDE DEF u
  <2>5. \A g \in DOMAIN t : t[g].name # m.sender
    BY <1>6 DEF known, Lookup
  <2>6. Table(u)
    BY <1>2, <1>3, <2>2, <2>3, <2>4, <2>5 DEF Table, Named
  <2>7. Members(t) \subseteq Members(u)
    BY <2>2, <2>3 DEF Members
  <2>8. /\ nodes'[i] = u /\ todo'[i] = todo[i] \cup {"save", "state"} /\ myip'[i] = myip[i]
        /\ name'[i] = name[i] /\ addr'[i] = addr[i] /\ leaves'[i] = leaves[i]
        /\ conf'[i] = conf[i] /\ reach'[i] = reach[i]
    BY <1>1, <2>1 DEF MemInv, Shape
  <2>9. Right(i)'
    BY <1>2, <2>6, <2>7, <2>8 DEF Right
  <2>10. Shape' /\ Only(i)
    BY <1>1, <2>1 DEF MemInv, Shape, Only
  <2> QED
    BY <2>9, <2>10, OwnStep
<1>7. CASE ~n.handshake /\ WrongSender(i, h)
  <2> DEFINE s == [n EXCEPT !.noaddr = TRUE, !.ip = NoAddress, !.link = NoLink]
             u == [t EXCEPT ![h] = s]
  <2>1. nodes' = [nodes EXCEPT ![i] = u] /\ todo' = [todo EXCEPT ![i] = @ \cup {"save"}] /\ myip' = myip
    BY <1>2, <1>7 DEF WrongSender, MemInv, Shape, Table, Structures
  <2>2. s \in Structures /\ s.name = n.name /\ s.handshake = n.handshake
    BY <1>2, NoLinkType DEF Structures, Ips
  <2> HIDE DEF s
  <2>3. Table(u) /\ Members(u) = Members(t)
    BY <1>2, <2>2, UpdateTable
  <2> HIDE DEF u
  <2>4. nodes'[i] = u /\ "save" \in todo'[i] /\ todo[i] \subseteq todo'[i]
    BY <2>1 DEF MemInv, Shape
  <2>5. Right(i)'
    BY <1>1, <1>2, <2>1, <2>3, <2>4, ServerKept DEF Right
  <2>6. Shape' /\ Only(i)
    BY <1>1, <2>1 DEF MemInv, Shape, Only
  <2> QED
    BY <2>5, <2>6, OwnStep
<1>8. CASE ~n.handshake /\ PongOfMember(i, h, m)
  <2> DEFINE s == [n EXCEPT !.leaving = m.leaving, !.pfail = FALSE, !.link = quiet]
             u == [t EXCEPT ![h] = s]
             v == ProcessGossipSection(u, name[i], black[i], TRUE, m.gossip)
  <2>1. [t EXCEPT ![h].leaving = m.leaving, ![h].pfail = FALSE, ![h].link.msg = NoMsg] = u
    BY <1>2 DEF Table, Structures
  <2>2. /\ nodes' = [nodes EXCEPT ![i] = v] /\ myip' = myip
        /\ todo' = [todo EXCEPT ![i] = @
             \cup (IF n.pfail THEN {"save", "state"} ELSE {})
             \cup (IF n.leaving # m.leaving THEN {"save"} ELSE {})]
    BY <1>8, <2>1 DEF PongOfMember
  <2>3. /\ s \in Structures /\ s.name = n.name /\ s.handshake = n.handshake
        /\ n.leaving = m.leaving => Line(s) = Line(n)
    BY <1>2, <1>3, <1>4 DEF Structures, Line
  <2> HIDE DEF s
  <2>4. Table(u) /\ Members(u) = Members(t) /\ (n.leaving = m.leaving => Same(t, u))
    BY <1>2, <2>3, UpdateTable
  <2> HIDE DEF u
  <2>5. Table(v) /\ Same(u, v)
    BY <1>3, <2>4, GossipTable
  <2> HIDE DEF v
  <2>6. /\ nodes'[i] = v /\ todo[i] \subseteq todo'[i]
        /\ "save" \notin todo'[i] => n.leaving = m.leaving
    BY <2>2 DEF MemInv, Shape
  <2>7. "save" \notin todo'[i] => Same(t, v)
    BY <2>4, <2>5, <2>6, SameTransitive
  <2>8. Members(v) = Members(t)
    BY <2>4, <2>5 DEF Same
  <2>9. Right(i)'
    BY <1>1, <1>2, <2>2, <2>5, <2>6, <2>7, <2>8, ServerKept DEF Right
  <2>10. Shape' /\ Only(i)
    BY <1>1, <2>2 DEF MemInv, Shape, Only
  <2> QED
    BY <2>9, <2>10, OwnStep
<1> QED
  BY <1>1, <1>5, <1>6, <1>7, <1>8 DEF m, known

LEMMA CommandsKeep ==
    ASSUME MemInv, NEW i \in Servers,
           \/ \E h \in DOMAIN nodes[i] : Forget(i, h) \/ Suspect(i, h) \/ BreakLink(i, h)
           \/ \E ip \in Addresses : Meet(i, ip)
           \/ \E id \in Names : Reset(i, id)
           \/ Leaving(i)
    PROVE  MemInv'
<1> DEFINE t == nodes[i]
<1>1. Table(t) /\ Right(i)
  BY DEF MemInv, Right
<1>2. ASSUME NEW h \in DOMAIN t, Forget(i, h) PROVE MemInv'
  <2>1. Table(DelNode(t, h)) /\ Reachable(DelNode(t, h)) \subseteq Members(DelNode(t, h))
    BY <1>1, DelNodeTable DEF Reachable
  <2>2. /\ nodes'[i] = DelNode(t, h) /\ reach'[i] = Reachable(DelNode(t, h))
        /\ todo'[i] = todo[i] \cup {"save", "state"}
        /\ UNCHANGED <<name, addr, myip, leaves, size, conf>>
    BY <1>2 DEF Forget, MemInv, Shape
  <2>3. Right(i)'
    BY <1>1, <2>1, <2>2 DEF Right
  <2>4. Shape' /\ Only(i)
    BY <1>2 DEF Forget, MemInv, Shape, Only
  <2> QED
    BY <2>3, <2>4, OwnStep
<1>3. ASSUME NEW h \in DOMAIN t, Suspect(i, h) PROVE MemInv'
  <2> DEFINE s == [t[h] EXCEPT !.pfail = TRUE]
             u == [t EXCEPT ![h] = s]
  <2>1. /\ s \in Structures /\ s.name = t[h].name /\ s.handshake = t[h].handshake
        /\ Line(s) = Line(t[h])
    BY <1>1 DEF Table, Structures, Line
  <2>2. Table(u) /\ Same(t, u)
    BY <1>1, <2>1, UpdateTable
  <2>3. /\ nodes' = [nodes EXCEPT ![i] = u] /\ reach' = [reach EXCEPT ![i] = Reachable(nodes'[i])]
        /\ size' = [size EXCEPT ![i] = ClusterSize(t)]
        /\ UNCHANGED <<name, addr, myip, leaves, todo, conf>>
    BY <1>1, <1>3 DEF Suspect, MemInv, Shape, Table, Structures
  <2> HIDE DEF u
  <2>4. /\ nodes'[i] = u /\ reach'[i] \subseteq Members(u) /\ size'[i] = ClusterSize(t)
    BY <2>3 DEF MemInv, Shape, Reachable
  <2>5. ClusterSize(u) = ClusterSize(t)
    BY <2>2 DEF Same, ClusterSize
  <2>6. Shape' /\ Only(i)
    BY <2>3 DEF MemInv, Shape, Only
  <2> QED
    BY <2>2, <2>3, <2>4, <2>5, <2>6, QuietStep
<1>4. ASSUME NEW h \in DOMAIN t, BreakLink(i, h) PROVE MemInv'
  <2> DEFINE s == [t[h] EXCEPT !.link = NoLink]
             u == [t EXCEPT ![h] = s]
  <2>1. /\ s \in Structures /\ s.name = t[h].name /\ s.handshake = t[h].handshake
        /\ Line(s) = Line(t[h])
    BY <1>1, NoLinkType DEF Table, Structures, Line
  <2>2. Table(u) /\ Same(t, u)
    BY <1>1, <2>1, UpdateTable
  <2>3. nodes' = [nodes EXCEPT ![i] = u] /\ UNCHANGED <<name, addr, myip, leaves, reach, size, todo, conf>>
    BY <1>1, <1>4 DEF BreakLink, FreeLink, MemInv, Shape, Table, Structures
  <2> HIDE DEF u
  <2>4. nodes'[i] = u
    BY <2>3 DEF MemInv, Shape
  <2>5. Shape' /\ Only(i)
    BY <2>3 DEF MemInv, Shape, Only
  <2> QED
    BY <2>2, <2>3, <2>4, <2>5, QuietStep
<1>5. ASSUME NEW ip \in Addresses, Meet(i, ip) PROVE MemInv'
  <2> DEFINE u == StartHandshake(t, ip)
  <2>1. Table(u) /\ Same(t, u)
    BY <1>1, StartHandshakeTable DEF Ips
  <2>2. nodes' = [nodes EXCEPT ![i] = u] /\ UNCHANGED <<name, addr, myip, leaves, reach, size, todo, conf>>
    BY <1>5 DEF Meet
  <2> HIDE DEF u
  <2>3. nodes'[i] = u
    BY <2>2 DEF MemInv, Shape
  <2>4. Shape' /\ Only(i)
    BY <2>2 DEF MemInv, Shape, Only
  <2> QED
    BY <2>1, <2>2, <2>3, <2>4, QuietStep
<1>6. ASSUME NEW id \in Names, Reset(i, id) PROVE MemInv'
  <2>1. Table(Empty)
    BY FS_EmptySet DEF Table, Empty
  <2>2. /\ nodes'[i] = Empty /\ reach'[i] = {} /\ name'[i] = id
        /\ todo'[i] = todo[i] \cup {"save", "state"}
        /\ UNCHANGED <<addr, myip, leaves, size, conf>>
    BY <1>6 DEF Reset, MemInv, Shape
  <2>3. Right(i)'
    BY <1>1, <2>1, <2>2 DEF Right
  <2>4. Shape' /\ Only(i)
    BY <1>6 DEF Reset, MemInv, Shape, Only
  <2> QED
    BY <2>3, <2>4, OwnStep
<1>7. CASE Leaving(i)
  <2>1. /\ leaves'[i] = ~leaves[i] /\ todo'[i] = todo[i] \cup {"save"}
        /\ UNCHANGED <<name, addr, myip, nodes, reach, size, conf>>
    BY <1>7 DEF Leaving, MemInv, Shape
  <2>2. Right(i)'
    BY <1>1, <2>1 DEF Right
  <2>3. Shape' /\ Only(i)
    BY <1>7 DEF Leaving, MemInv, Shape, Only
  <2> QED
    BY <2>2, <2>3, OwnStep
<1> QED
  BY <1>2, <1>3, <1>4, <1>5, <1>6, <1>7

LEMMA SleepKeeps ==
    ASSUME MemInv, NEW i \in Servers, clusterBeforeSleep(i) \/ ExpireBlacklist(i) PROVE MemInv'
<1>1. CASE clusterBeforeSleep(i)
  <2> DEFINE d == Description(name[i], myip[i], leaves[i], nodes[i])
  <2>1. Right(i)
    BY DEF MemInv
  <2>2. Saved(d)
    BY <2>1, DescriptionSaved DEF Right
  <2>3. /\ size'[i] = IF "state" \in todo[i] THEN ClusterSize(nodes[i]) ELSE size[i]
        /\ conf'[i] = IF "save" \in todo[i] THEN d ELSE conf[i]
        /\ UNCHANGED <<name, addr, myip, leaves, nodes, reach>>
    BY <1>1 DEF clusterBeforeSleep, MemInv, Shape
  <2> HIDE DEF d
  <2>4. Saved(conf'[i]) /\ conf'[i] = d /\ size'[i] = ClusterSize(nodes[i])
    BY <2>1, <2>2, <2>3 DEF Right, d
  <2>5. Right(i)'
    BY <2>1, <2>3, <2>4 DEF Right, d
  <2>6. Shape' /\ Only(i)
    BY <1>1 DEF clusterBeforeSleep, MemInv, Shape, Only
  <2> QED
    BY <2>5, <2>6, OwnStep
<1>2. CASE ExpireBlacklist(i)
  BY <1>2 DEF ExpireBlacklist, MemInv, Shape, Right
<1> QED
  BY <1>1, <1>2

LEMMA DisconnectedTable ==
    ASSUME NEW i, NEW t, Table(t)
    PROVE  Table(Disconnected(i, t)) /\ Same(t, Disconnected(i, t))
<1> DEFINE u == Disconnected(i, t)
           off(h) == [t[h] EXCEPT !.link = NoLink]
<1>1. \A h \in DOMAIN t : t[h] \in Structures
  BY DEF Table
<1>2. \A h \in DOMAIN t : off(h) \in Structures /\ off(h).name = t[h].name
                          /\ off(h).handshake = t[h].handshake /\ Line(off(h)) = Line(t[h])
  BY <1>1, NoLinkType DEF Structures, Line
<1>3. u = [h \in DOMAIN t |-> IF t[h].link.peer = i THEN off(h) ELSE t[h]]
  BY DEF Disconnected
<1> HIDE DEF u, off
<1>4. /\ DOMAIN u = DOMAIN t /\ u \in [DOMAIN u -> Structures]
      /\ \A h \in DOMAIN t : u[h].name = t[h].name /\ u[h].handshake = t[h].handshake
                             /\ Line(u[h]) = Line(t[h])
  BY <1>1, <1>2, <1>3
<1>5. Table(u)
  BY <1>4 DEF Table, Named
<1>6. Same(t, u)
  BY <1>4 DEF Same, Members
<1> QED
  BY <1>5, <1>6 DEF u

LEMMA RestartKeeps ==
    ASSUME MemInv, NEW i \in Servers, NEW ip \in Addresses, Restart(i, ip) PROVE MemInv'
<1>1. PICK t \in Loaded(conf[i]) :
        /\ addr' = [addr EXCEPT ![i] = ip]
        /\ name' = [name EXCEPT ![i] = conf[i].name]
        /\ myip' = [myip EXCEPT ![i] = conf[i].ip]
        /\ leaves' = [leaves EXCEPT ![i] = conf[i].leaving]
        /\ nodes' = [j \in Servers |-> IF j = i THEN t ELSE Disconnected(i, nodes[j])]
        /\ reach' = [reach EXCEPT ![i] = Reachable(t)]
        /\ size' = [size EXCEPT ![i] = ClusterSize(t)]
        /\ todo' = [todo EXCEPT ![i] = {}]
        /\ UNCHANGED conf
  BY DEF Restart
<1>2. Shape'
  BY <1>1 DEF MemInv, Shape
<1>3. Right(i)'
  <2>1. Saved(conf[i])
    BY DEF MemInv, Right
  <2>2. /\ Table(t) /\ Description(conf[i].name, conf[i].ip, conf[i].leaving, t) = conf[i]
        /\ Reachable(t) \subseteq Members(t)
    BY <2>1, LoadedTable DEF Reachable
  <2>3. conf[i].name \in Names /\ conf[i].ip \in Ips /\ conf[i].leaving \in BOOLEAN
    BY <2>1 DEF Saved
  <2>4. /\ name'[i] = conf[i].name /\ myip'[i] = conf[i].ip /\ leaves'[i] = conf[i].leaving
        /\ addr'[i] = ip /\ nodes'[i] = t /\ reach'[i] = Reachable(t)
        /\ size'[i] = ClusterSize(t) /\ conf'[i] = conf[i]
    BY <1>1 DEF MemInv, Shape
  <2> QED
    BY <2>1, <2>2, <2>3, <2>4 DEF Right
<1>4. ASSUME NEW j \in Servers, j # i PROVE Right(j)'
  <2>1. Table(nodes[j]) /\ myip[j] \in Ips
    BY DEF MemInv, Right
  <2>2. /\ name'[j] = name[j] /\ addr'[j] = addr[j] /\ myip'[j] = myip[j] /\ leaves'[j] = leaves[j]
        /\ nodes'[j] = Disconnected(i, nodes[j]) /\ conf'[j] = conf[j] /\ reach'[j] = reach[j]
        /\ size'[j] = size[j] /\ todo'[j] = todo[j]
    BY <1>1, <1>4 DEF MemInv, Shape
  <2>3. Table(nodes'[j]) /\ Same(nodes[j], nodes'[j])
    BY <2>1, <2>2, DisconnectedTable
  <2> QED
    BY <2>1, <2>2, <2>3, ServerKept DEF Same
<1> QED
  BY <1>2, <1>3, <1>4 DEF MemInv

LEMMA InitMemInv == Init => MemInv
<1> SUFFICES ASSUME Init PROVE MemInv
  OBVIOUS
<1>1. Shape
  BY DEF Init, Shape
<1>2. ASSUME NEW i \in Servers PROVE Right(i)
  <2> DEFINE line(j) == [name |-> j, ip |-> j, noaddr |-> FALSE, leaving |-> FALSE]
             K == {k \in Servers : <<i, k>> \in Known}
             L == {line(j) : j \in K}
             f == [j \in K |-> line(j)]
  <2>1. conf[i] = [name |-> i, ip |-> NoAddress, leaving |-> FALSE, nodes |-> L]
    BY DEF Init
  <2>2. i \in Names /\ \A j \in K : line(j) \in Lines
    BY MembershipAssumption DEF Lines, Ips
  <2>3. IsFiniteSet(L)
    <3>1. f \in Surjection(K, L)
      BY DEF Surjection
    <3>2. IsFiniteSet(K)
      BY FS_Subset, MembershipAssumption
    <3> QED
      BY <3>1, <3>2, FS_Surjection
  <2>4. L \subseteq Lines /\ \A l, k \in L : l.name = k.name => l = k
    <3>1. \A j \in K : line(j).name = j
      OBVIOUS
    <3> HIDE DEF line
    <3> QED
      BY <2>2, <3>1
  <2> HIDE DEF L
  <2>5. Saved(conf[i]) /\ conf[i].name = i /\ conf[i].ip = NoAddress /\ conf[i].leaving = FALSE
    <3> DEFINE c == [name |-> i, ip |-> NoAddress, leaving |-> FALSE, nodes |-> L]
    <3>1. c \in [name : Names, ip : Ips, leaving : BOOLEAN, nodes : SUBSET Lines] /\ c.nodes = L
      BY <2>2, <2>4 DEF Ips
    <3>2. Saved(c)
      BY <2>3, <2>4, <3>1 DEF Saved
    <3> QED
      BY <2>1, <3>2
  <2>6. nodes[i] \in Loaded(conf[i])
    BY DEF Init
  <2>7. Table(nodes[i]) /\ Description(i, NoAddress, FALSE, nodes[i]) = conf[i]
    BY <2>5, <2>6, LoadedTable
  <2>8. /\ name[i] = i /\ addr[i] = i /\ myip[i] = NoAddress /\ leaves[i] = FALSE
        /\ reach[i] = Reachable(nodes[i]) /\ size[i] = ClusterSize(nodes[i])
    BY DEF Init
  <2>9. Reachable(nodes[i]) \subseteq Members(nodes[i])
    BY DEF Reachable
  <2> QED
    BY <2>2, <2>5, <2>7, <2>8, <2>9, MembershipAssumption DEF Right, Ips
<1> QED
  BY <1>1, <1>2 DEF MemInv

LEMMA StepMemInv == MemInv /\ [Next]_vars => MemInv'
<1> SUFFICES ASSUME MemInv, [Next]_vars PROVE MemInv'
  OBVIOUS
<1>1. CASE UNCHANGED vars
  BY <1>1 DEF vars, MemInv, Shape, Right
<1>2. CASE Next
  BY <1>2, CronKeeps, PingKeeps, PongKeeps, CommandsKeep, SleepKeeps, RestartKeeps DEF Next
<1> QED
  BY <1>1, <1>2

LEMMA Inductive == Spec => []MemInv
<1>1. Init => MemInv
  BY InitMemInv
<1>2. MemInv /\ [Next]_vars => MemInv'
  BY StepMemInv
<1> QED
  BY <1>1, <1>2, PTL DEF Spec

\* No server ever has two structures with the same name: the first PONG of a
\* handshake names the structure, the others find the name taken and delete
\* theirs, and nodes.conf never brings a node back twice.
THEOREM NodesKnownOnce == Spec => []KnownOnce
<1>1. MemInv => KnownOnce
  BY DEF MemInv, Right, Table, KnownOnce
<1> QED
  BY <1>1, Inductive, PTL

\* The list of reachable nodes, which ADDJOB picks replicas from, never holds
\* a structure that FORGET, a reset, a restart or a failed handshake freed.
THEOREM ReachableNeverFreed == Spec => []ReachableAlive
<1>1. MemInv => ReachableAlive
  BY DEF MemInv, Right, ReachableAlive
<1> QED
  BY <1>1, Inductive, PTL

\* The cluster size that quorums are computed from is that of the node table,
\* or clusterBeforeSleep is about to recompute it.
THEOREM SizeNeverStale == Spec => []SizeFresh
<1>1. MemInv => SizeFresh
  BY DEF MemInv, Right, SizeFresh
<1> QED
  BY <1>1, Inductive, PTL

\* A crash between two iterations of the event loop loses nothing of the
\* configuration: nodes.conf agrees with the table, or a save is due.
THEOREM ConfNeverStale == Spec => []ConfFresh
<1>1. MemInv => ConfFresh
  BY DEF MemInv, Right, ConfFresh
<1> QED
  BY <1>1, Inductive, PTL
=============================================================================
