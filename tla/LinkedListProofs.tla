-------------------------- MODULE LinkedListProofs --------------------------
(***************************************************************************)
(* The lists of adlist.c stay linked both ways, and iterators over them    *)
(* alive, for any nodes and values and any sequence of calls.              *)
(*                                                                         *)
(* The witness of LinksAgree is the order c of the allocated nodes.  Each  *)
(* function that changes the list gives the order after the call: the      *)
(* three insertions put a node at a position k of it, listDelNode closes   *)
(* the gap at a position, listRotate moves the last place to the front.    *)
(* An iterator stays alive because the node it follows next is not the one *)
(* it returned, which is the only one that may be removed.                 *)
(***************************************************************************)
EXTENDS LinkedList, TLAPS

\* The order c of the allocated nodes is that of the links.
Linked(c) ==
    /\ c \in [1 .. list.len -> Used]
    /\ \A n \in Used : \E i \in 1 .. list.len : c[i] = n
    /\ \A i, j \in 1 .. list.len : c[i] = c[j] => i = j
    /\ list.head = (IF list.len = 0 THEN Null ELSE c[1])
    /\ list.tail = (IF list.len = 0 THEN Null ELSE c[list.len])
    /\ \A i \in 1 .. list.len :
          /\ heap[c[i]].prev = (IF i = 1 THEN Null ELSE c[i - 1])
          /\ heap[c[i]].next = (IF i = list.len THEN Null ELSE c[i + 1])

\* What heap is: each address has a node or is free.
Heaps == [Nodes -> Cell \cup {Null}]

\* The types of the fields of the structures of adlist.h.
Shape ==
    /\ heap \in Heaps
    /\ list \in [head : Nodes \cup {Null}, tail : Nodes \cup {Null}, len : Nat]

\* Between two calls: the iterator is off, or what it returns next is allocated
\* and is not what it returned last.
IterOK ==
    /\ li \in [on : BOOLEAN, direction : {"head", "tail"}, next : Nodes \cup {Null}]
    /\ ~li.on => li.next = Null
    /\ li.next # Null => li.next \in Used /\ li.next # current

ListInv == Shape /\ LinksAgree /\ IterOK

-----------------------------------------------------------------------------
Addresses == Nodes \cup {Null}

\* A pointer that is NULL or points to a node of the heap h.
Valid(h, p) == p \in Addresses /\ (p # Null => h[p] \in Cell)

\* g is h with the next field of p, and the prev field of q, set to y and to z.
Relinked(g, h, p, y, q, z) ==
    /\ g \in Heaps
    /\ \A m \in Nodes : h[m] \in Cell =>
          /\ g[m] \in Cell
          /\ g[m].next = IF m = p THEN y ELSE h[m].next
          /\ g[m].prev = IF m = q THEN z ELSE h[m].prev
    /\ \A m \in Nodes : h[m] = Null => g[m] = Null

\* A field of a node is set, if there is a node: "if (p) p->next = y".
LEMMA SetNextAt ==
    ASSUME NEW h \in Heaps, NEW p, Valid(h, p), NEW y \in Addresses
    PROVE  Relinked(SetNext(h, p, y), h, p, y, Null, Null)
<1>1. CASE p = Null
  BY <1>1, ListAssumption DEF SetNext, Relinked
<1>2. CASE p # Null
  <2>1. p \in Nodes /\ h[p] \in Cell
    BY <1>2 DEF Valid, Addresses
  <2>2. SetNext(h, p, y) = [h EXCEPT ![p] = [h[p] EXCEPT !.next = y]]
    BY <1>2 DEF SetNext
  <2>3. /\ [h[p] EXCEPT !.next = y] \in Cell
        /\ [h[p] EXCEPT !.next = y].next = y
        /\ [h[p] EXCEPT !.next = y].prev = h[p].prev
    BY <2>1 DEF Cell, Addresses
  <2> QED
    BY <2>1, <2>2, <2>3, <1>2, ListAssumption DEF Heaps, Relinked
<1> QED
  BY <1>1, <1>2

\* The same for the other field: "if (q) q->prev = z".
LEMMA SetPrevAt ==
    ASSUME NEW h \in Heaps, NEW q, Valid(h, q), NEW z \in Addresses
    PROVE  Relinked(SetPrev(h, q, z), h, Null, Null, q, z)
<1>1. CASE q = Null
  BY <1>1, ListAssumption DEF SetPrev, Relinked
<1>2. CASE q # Null
  <2>1. q \in Nodes /\ h[q] \in Cell
    BY <1>2 DEF Valid, Addresses
  <2>2. SetPrev(h, q, z) = [h EXCEPT ![q] = [h[q] EXCEPT !.prev = z]]
    BY <1>2 DEF SetPrev
  <2>3. /\ [h[q] EXCEPT !.prev = z] \in Cell
        /\ [h[q] EXCEPT !.prev = z].prev = z
        /\ [h[q] EXCEPT !.prev = z].next = h[q].next
    BY <2>1 DEF Cell, Addresses
  <2> QED
    BY <2>1, <2>2, <2>3, <1>2, ListAssumption DEF Heaps, Relinked
<1> QED
  BY <1>1, <1>2

\* Both, one after the other, as the functions of adlist.c do.
LEMMA LinkBoth ==
    ASSUME NEW h \in Heaps, NEW p, Valid(h, p), NEW q, Valid(h, q),
           NEW y \in Addresses, NEW z \in Addresses
    PROVE  Relinked(SetPrev(SetNext(h, p, y), q, z), h, p, y, q, z)
<1> DEFINE f == SetNext(h, p, y)
           g == SetPrev(f, q, z)
<1>1. Relinked(f, h, p, y, Null, Null)
  BY SetNextAt
<1> HIDE DEF f
<1>2. f \in Heaps /\ Valid(f, q)
  BY <1>1 DEF Relinked, Valid, Addresses
<1>3. Relinked(g, f, Null, Null, q, z)
  BY <1>2, SetPrevAt
<1> HIDE DEF g
<1>4. Relinked(g, h, p, y, q, z)
  BY <1>1, <1>3, ListAssumption DEF Relinked
<1> QED
  BY <1>4 DEF f, g

\* An insertion at position k of the order: what listAddNodeHead,
\* listAddNodeTail and listInsertNode have in common.
LEMMA InsertAt ==
    ASSUME Shape, NEW c, Linked(c), NEW n \in Free, NEW v \in Values,
           NEW k \in 1 .. list.len + 1, NEW prev, NEW next,
           prev = (IF k = 1 THEN Null ELSE c[k - 1]),
           next = (IF k = list.len + 1 THEN Null ELSE c[k]),
           heap' = SetPrev(SetNext(Allocate(heap, n, prev, next, v), prev, n), next, n),
           list' = [head |-> IF k = 1 THEN n ELSE list.head,
                    tail |-> IF k = list.len + 1 THEN n ELSE list.tail,
                    len |-> list.len + 1]
    PROVE  Shape' /\ LinksAgree' /\ Used' = Used \cup {n}
<1> DEFINE len == list.len
           x == [prev |-> prev, next |-> next, value |-> v]
           h == Allocate(heap, n, prev, next, v)
           d == [i \in 1 .. len + 1 |-> IF i < k THEN c[i] ELSE IF i = k THEN n ELSE c[i - 1]]
<1>1. len \in Nat /\ k \in Nat /\ n \in Nodes /\ n \notin Used /\ Used \subseteq Nodes
  BY DEF Shape, Free, Used
<1>2. c \in [1 .. len -> Used] /\ \A i, j \in 1 .. len : c[i] = c[j] => i = j
  BY DEF Linked
<1>3. prev \in Used \cup {Null} /\ next \in Used \cup {Null}
  BY <1>1, <1>2
<1>4. x \in Cell /\ x.prev = prev /\ x.next = next
  BY <1>1, <1>3 DEF Cell
<1>5. Null \notin Used /\ Null \notin Cell
  BY <1>1, ListAssumption
<1>6. \A m \in Nodes : (m \in Used => heap[m] \in Cell) /\ (m \notin Used => heap[m] = Null)
  BY DEF Shape, Used, Free, Heaps
<1>7. /\ h \in Heaps /\ h[n] = x
      /\ \A m \in Nodes : m # n => h[m] = heap[m]
  BY <1>1, <1>4 DEF Shape, Allocate, Heaps
<1> HIDE DEF h, x
<1>8. Relinked(heap', h, prev, n, next, n)
  <2>1. n \in Addresses
    BY <1>1 DEF Addresses
  <2>2. Valid(h, prev) /\ Valid(h, next)
    BY <1>1, <1>3, <1>6, <1>7 DEF Valid, Addresses
  <2>3. heap' = SetPrev(SetNext(h, prev, n), next, n)
    BY DEF h
  <2> QED
    BY <2>1, <2>2, <2>3, <1>7, LinkBoth
<1>9. heap'[n] \in Cell /\ heap'[n].prev = prev /\ heap'[n].next = next
  <2>1. n \in Nodes /\ h[n] \in Cell /\ h[n].prev = prev /\ h[n].next = next
    BY <1>1, <1>4, <1>7
  <2>2. n # prev /\ n # next
    BY <1>1, <1>3, ListAssumption
  <2> QED
    BY ONLY <2>1, <2>2, <1>8 DEF Relinked
<1>10. \A m \in Used : /\ heap'[m] \in Cell
                       /\ heap'[m].next = IF m = prev THEN n ELSE heap[m].next
                       /\ heap'[m].prev = IF m = next THEN n ELSE heap[m].prev
  <2> SUFFICES ASSUME NEW m \in Used
               PROVE  /\ heap'[m] \in Cell
                      /\ heap'[m].next = IF m = prev THEN n ELSE heap[m].next
                      /\ heap'[m].prev = IF m = next THEN n ELSE heap[m].prev
    OBVIOUS
  <2>1. m \in Nodes /\ h[m] = heap[m] /\ h[m] \in Cell
    BY <1>1, <1>6, <1>7
  <2> QED
    BY ONLY <2>1, <1>8 DEF Relinked
<1>11. Used' = Used \cup {n}
  <2>1. \A m \in Nodes : m \notin Used /\ m # n => heap'[m] = Null
    BY <1>6, <1>7, <1>8 DEF Relinked
  <2>2. \A m \in Nodes : heap'[m] # Null <=> m = n \/ m \in Used
    BY ONLY <2>1, <1>5, <1>9, <1>10
  <2> QED
    BY <2>2, <1>1 DEF Used, Free
<1>12. Shape'
  BY <1>1, <1>8 DEF Shape, Relinked
<1>13. d \in [1 .. len + 1 -> Used \cup {n}]
  BY <1>1, <1>2
<1>14. \A i \in 1 .. len + 1 : /\ i < k => d[i] = c[i] /\ i \in 1 .. len
                               /\ i = k => d[i] = n
                               /\ i > k => d[i] = c[i - 1] /\ i - 1 \in 1 .. len
  BY <1>1
<1> HIDE DEF d
<1>15. ASSUME NEW m \in Used \cup {n} PROVE \E i \in 1 .. len + 1 : d[i] = m
  <2>1. CASE m = n
    BY <2>1, <1>1, <1>14
  <2>2. CASE m \in Used
    <3>1. PICK i \in 1 .. len : c[i] = m
      BY <2>2 DEF Linked
    <3>2. CASE i < k
      BY <3>1, <3>2, <1>1, <1>14
    <3>3. CASE i >= k
      <4>1. i + 1 \in 1 .. len + 1 /\ i + 1 > k /\ i + 1 - 1 = i
        BY <3>3, <1>1
      <4> QED
        BY <4>1, <3>1, <1>14
    <3> QED
      BY <3>2, <3>3, <1>1
  <2> QED
    BY <2>1, <2>2
<1>16. ASSUME NEW i \in 1 .. len + 1, NEW j \in 1 .. len + 1, i < j PROVE d[i] # d[j]
  <2>1. CASE j < k
    BY <2>1, <1>1, <1>2, <1>14, <1>16
  <2>2. CASE j = k
    BY <2>2, <1>1, <1>2, <1>14, <1>16
  <2>3. CASE j > k /\ i < k
    <3>1. d[i] = c[i] /\ d[j] = c[j - 1] /\ i # j - 1 /\ i \in 1 .. len /\ j - 1 \in 1 .. len
      BY <2>3, <1>1, <1>14
    <3> QED
      BY <3>1, <1>2
  <2>4. CASE i = k
    BY <2>4, <1>1, <1>2, <1>14, <1>16
  <2>5. CASE i > k
    <3>1. d[i] = c[i - 1] /\ d[j] = c[j - 1] /\ i - 1 # j - 1 /\ i - 1 \in 1 .. len /\ j - 1 \in 1 .. len
      BY <2>5, <1>1, <1>14, <1>16
    <3> QED
      BY <3>1, <1>2
  <2> QED
    BY <2>1, <2>2, <2>3, <2>4, <2>5, <1>1
<1>17. list'.head = d[1] /\ list'.tail = d[len + 1] /\ list'.len = len + 1
  <2>1. list'.head = d[1]
    BY <1>1, <1>14 DEF Linked
  <2>2. list'.tail = d[len + 1]
    <3>1. CASE k = len + 1
      BY <3>1, <1>1, <1>14
    <3>2. CASE k # len + 1
      <4>1. len + 1 > k /\ len + 1 \in 1 .. len + 1 /\ (len + 1) - 1 = len /\ len # 0
        BY <3>2, <1>1
      <4> QED
        BY <4>1, <3>2, <1>14 DEF Linked
    <3> QED
      BY <3>1, <3>2
  <2> QED
    BY <2>1, <2>2
<1>18. ASSUME NEW i \in 1 .. len + 1
       PROVE  /\ heap'[d[i]].prev = (IF i = 1 THEN Null ELSE d[i - 1])
              /\ heap'[d[i]].next = (IF i = len + 1 THEN Null ELSE d[i + 1])
  <2>1. CASE i = k
    <3>1. i # 1 => i - 1 \in 1 .. len + 1 /\ i - 1 < k /\ d[i - 1] = c[i - 1]
      BY <2>1, <1>1, <1>14
    <3>2. i # len + 1 => i + 1 \in 1 .. len + 1 /\ i + 1 > k /\ d[i + 1] = c[i]
      BY <2>1, <1>1, <1>14
    <3> QED
      BY <3>1, <3>2, <2>1, <1>9, <1>14
  <2>2. CASE i < k
    <3>1. d[i] = c[i] /\ c[i] \in Used /\ i \in 1 .. len /\ i # len + 1
      BY <2>2, <1>1, <1>2, <1>14
    <3>2. c[i] # next
      BY <3>1, <2>2, <1>1, <1>2, <1>5
    <3>3. heap'[c[i]].prev = heap[c[i]].prev
      BY <3>1, <3>2, <1>10
    <3>4. heap'[c[i]].prev = IF i = 1 THEN Null ELSE d[i - 1]
      <4>1. i # 1 => i - 1 \in 1 .. len + 1 /\ i - 1 < k /\ d[i - 1] = c[i - 1]
        BY <2>2, <1>1, <1>14
      <4> QED
        BY <4>1, <3>1, <3>3 DEF Linked
    <3>5. heap'[c[i]].next = d[i + 1]
      <4>1. CASE i = k - 1
        <5>1. c[i] = prev /\ i + 1 \in 1 .. len + 1 /\ i + 1 = k
          BY <4>1, <3>1, <1>1
        <5> QED
          BY <5>1, <3>1, <1>10, <1>14
      <4>2. CASE i # k - 1
        <5>1. i + 1 < k /\ i + 1 \in 1 .. len + 1 /\ i # len
          BY <4>2, <2>2, <1>1
        <5>2. c[i] # prev
          BY <4>2, <3>1, <1>1, <1>2, <1>5
        <5>3. heap'[c[i]].next = heap[c[i]].next
          BY <5>2, <3>1, <1>10
        <5>4. heap[c[i]].next = c[i + 1]
          BY <5>1, <3>1 DEF Linked
        <5> QED
          BY <5>1, <5>3, <5>4, <1>14
      <4> QED
        BY <4>1, <4>2
    <3> QED
      BY <3>1, <3>4, <3>5
  <2>3. CASE i > k
    <3> DEFINE e == i - 1
    <3>1. d[i] = c[e] /\ c[e] \in Used /\ e \in 1 .. len /\ i # 1 /\ i = e + 1
      BY <2>3, <1>1, <1>2, <1>14
    <3> HIDE DEF e
    <3>2. c[e] # prev
      BY <3>1, <2>3, <1>1, <1>2, <1>5
    <3>3. heap'[c[e]].next = heap[c[e]].next
      BY <3>1, <3>2, <1>10
    <3>4. heap'[c[e]].next = IF i = len + 1 THEN Null ELSE d[i + 1]
      <4>1. i # len + 1 => i + 1 \in 1 .. len + 1 /\ i + 1 > k /\ d[i + 1] = c[e + 1] /\ e # len
        BY <3>1, <2>3, <1>1, <1>14
      <4>2. i = len + 1 => e = len
        BY <3>1, <1>1
      <4> QED
        BY <4>1, <4>2, <3>1, <3>3 DEF Linked
    <3>5. heap'[c[e]].prev = d[e]
      <4>1. CASE e = k
        <5>1. c[e] = next
          BY <4>1, <3>1, <1>1
        <5> QED
          BY <5>1, <4>1, <3>1, <1>10, <1>14
      <4>2. CASE e # k
        <5>1. e > k /\ e \in 1 .. len + 1 /\ e # 1
          BY <4>2, <3>1, <2>3, <1>1
        <5>2. c[e] # next
          BY <4>2, <3>1, <1>1, <1>2, <1>5
        <5>3. heap'[c[e]].prev = heap[c[e]].prev
          BY <5>2, <3>1, <1>10
        <5>4. heap[c[e]].prev = c[e - 1]
          BY <5>1, <3>1 DEF Linked
        <5> QED
          BY <5>1, <5>3, <5>4, <1>14
      <4> QED
        BY <4>1, <4>2
    <3>6. i - 1 = e
      BY <3>1, <1>1
    <3> QED
      BY <3>1, <3>4, <3>5, <3>6
  <2>4. i = k \/ i < k \/ i > k
    BY <1>1
  <2> QED
    BY <2>1, <2>2, <2>3, <2>4, Zenon
<1>19. \A i, j \in 1 .. len + 1 : d[i] = d[j] => i = j
  BY <1>16, <1>1
<1>20. LinksAgree'
  <2>1. /\ d \in [1 .. list'.len -> Used']
        /\ \A m \in Used' : \E i \in 1 .. list'.len : d[i] = m
        /\ \A i, j \in 1 .. list'.len : d[i] = d[j] => i = j
    BY <1>11, <1>13, <1>15, <1>17, <1>19
  <2>2. /\ list'.head = (IF list'.len = 0 THEN Null ELSE d[1])
        /\ list'.tail = (IF list'.len = 0 THEN Null ELSE d[list'.len])
    BY <1>1, <1>17
  <2>3. \A i \in 1 .. list'.len :
           /\ heap'[d[i]].prev = (IF i = 1 THEN Null ELSE d[i - 1])
           /\ heap'[d[i]].next = (IF i = list'.len THEN Null ELSE d[i + 1])
    BY <1>17, <1>18
  <2> QED
    BY <2>1, <2>2, <2>3 DEF LinksAgree
<1> QED
  BY <1>11, <1>12, <1>20

\* The removal of the node at position p of the order: listDelNode.
LEMMA DeleteAt ==
    ASSUME Shape, NEW c, Linked(c), NEW p \in 1 .. list.len, NEW n, n = c[p],
           NEW prev, prev = (IF p = 1 THEN Null ELSE c[p - 1]),
           NEW next, next = (IF p = list.len THEN Null ELSE c[p + 1]),
           heap' = [SetPrev(SetNext(heap, prev, next), next, prev) EXCEPT ![n] = Null],
           list' = [head |-> IF prev = Null THEN next ELSE list.head,
                    tail |-> IF next = Null THEN prev ELSE list.tail,
                    len |-> list.len - 1]
    PROVE  Shape' /\ LinksAgree' /\ Used' = Used \ {n}
<1> DEFINE len == list.len
           g == SetPrev(SetNext(heap, prev, next), next, prev)
           d == [i \in 1 .. len - 1 |-> IF i < p THEN c[i] ELSE c[i + 1]]
<1>1. /\ len \in Nat /\ p \in Nat /\ 1 <= p /\ p <= len /\ n \in Used /\ n \in Nodes
      /\ Used \subseteq Nodes /\ heap \in Heaps
  BY DEF Shape, Free, Used, Linked
<1>2. c \in [1 .. len -> Used] /\ \A i, j \in 1 .. len : c[i] = c[j] => i = j
  BY DEF Linked
<1>3. prev \in Used \cup {Null} /\ next \in Used \cup {Null}
  BY <1>1, <1>2
<1>4. prev # n /\ next # n
  BY <1>1, <1>2, ListAssumption
<1>5. Null \notin Used /\ Null \notin Cell
  BY <1>1, ListAssumption
<1>6. \A m \in Nodes : (m \in Used => heap[m] \in Cell) /\ (m \notin Used => heap[m] = Null)
  BY DEF Shape, Used, Free, Heaps
<1>7. Relinked(g, heap, prev, next, next, prev)
  <2>1. prev \in Addresses /\ next \in Addresses
    BY <1>1, <1>3 DEF Addresses
  <2>2. Valid(heap, prev) /\ Valid(heap, next)
    BY <1>1, <1>3, <1>6 DEF Valid, Addresses
  <2> QED
    BY <2>1, <2>2, <1>1, LinkBoth
<1> HIDE DEF g
<1>8. heap' \in Heaps /\ heap'[n] = Null /\ \A m \in Nodes : m # n => heap'[m] = g[m]
  <2>1. heap' = [g EXCEPT ![n] = Null]
    BY DEF g
  <2> QED
    BY <2>1, <1>1, <1>7 DEF Relinked, Heaps
<1>9. \A m \in Used \ {n} : /\ heap'[m] \in Cell
                            /\ heap'[m].next = IF m = prev THEN next ELSE heap[m].next
                            /\ heap'[m].prev = IF m = next THEN prev ELSE heap[m].prev
  <2> SUFFICES ASSUME NEW m \in Used \ {n}
               PROVE  /\ heap'[m] \in Cell
                      /\ heap'[m].next = IF m = prev THEN next ELSE heap[m].next
                      /\ heap'[m].prev = IF m = next THEN prev ELSE heap[m].prev
    OBVIOUS
  <2>1. m \in Nodes /\ heap[m] \in Cell /\ heap'[m] = g[m]
    BY <1>1, <1>6, <1>8
  <2> QED
    BY ONLY <2>1, <1>7 DEF Relinked
<1>10. Used' = Used \ {n}
  <2>1. \A m \in Nodes : m \notin Used /\ m # n => heap'[m] = Null
    BY <1>6, <1>7, <1>8 DEF Relinked
  <2>2. \A m \in Nodes : heap'[m] # Null <=> m \in Used /\ m # n
    BY ONLY <2>1, <1>5, <1>8, <1>9
  <2> QED
    BY <2>2, <1>1 DEF Used, Free
<1>11. Shape'
  <2>1. list.head \in Addresses /\ list.tail \in Addresses /\ prev \in Addresses /\ next \in Addresses
    BY <1>1, <1>3 DEF Shape, Addresses
  <2> QED
    BY <2>1, <1>1, <1>8 DEF Shape, Addresses
<1>12. d \in [1 .. len - 1 -> Used \ {n}]
  <2>1. ASSUME NEW i \in 1 .. len - 1 PROVE d[i] \in Used \ {n}
    <3>1. i \in 1 .. len /\ i + 1 \in 1 .. len /\ (i >= p => i + 1 # p)
      BY <1>1
    <3> QED
      BY <3>1, <1>1, <1>2
  <2> QED
    BY <2>1
<1>13. \A i \in 1 .. len - 1 : /\ i \in 1 .. len /\ i + 1 \in 1 .. len
                               /\ i < p => d[i] = c[i]
                               /\ i >= p => d[i] = c[i + 1]
  BY <1>1
<1> HIDE DEF d
<1>14. ASSUME NEW m \in Used \ {n} PROVE \E i \in 1 .. len - 1 : d[i] = m
  <2>1. PICK i \in 1 .. len : c[i] = m
    BY DEF Linked
  <2>2. CASE i < p
    <3>1. i \in 1 .. len - 1
      BY <2>2, <1>1
    <3> QED
      BY <3>1, <2>1, <2>2, <1>13
  <2>3. CASE i > p
    <3>1. i - 1 \in 1 .. len - 1 /\ i - 1 >= p /\ (i - 1) + 1 = i
      BY <2>3, <1>1
    <3> QED
      BY <3>1, <2>1, <1>13
  <2> QED
    BY <2>1, <2>2, <2>3, <1>1
<1>15. ASSUME NEW i \in 1 .. len - 1, NEW j \in 1 .. len - 1, i < j PROVE d[i] # d[j]
  <2>1. CASE j < p
    BY <2>1, <1>1, <1>2, <1>13, <1>15
  <2>2. CASE i < p /\ j >= p
    <3>1. d[i] = c[i] /\ d[j] = c[j + 1] /\ i # j + 1 /\ i \in 1 .. len /\ j + 1 \in 1 .. len
      BY <2>2, <1>1, <1>13, <1>15
    <3> QED
      BY <3>1, <1>2
  <2>3. CASE i >= p
    <3>1. d[i] = c[i + 1] /\ d[j] = c[j + 1] /\ i + 1 # j + 1 /\ i + 1 \in 1 .. len /\ j + 1 \in 1 .. len
      BY <2>3, <1>1, <1>13, <1>15
    <3> QED
      BY <3>1, <1>2
  <2> QED
    BY <2>1, <2>2, <2>3, <1>1
<1>16. \A i, j \in 1 .. len - 1 : d[i] = d[j] => i = j
  BY <1>15, <1>1
<1>17. /\ list'.len = len - 1
       /\ list'.head = IF len - 1 = 0 THEN Null ELSE d[1]
       /\ list'.tail = IF len - 1 = 0 THEN Null ELSE d[len - 1]
  <2>1. list'.head = IF len - 1 = 0 THEN Null ELSE d[1]
    <3>1. CASE p = 1
      <4>1. prev = Null /\ (len # 1 => 1 \in 1 .. len - 1 /\ d[1] = c[1 + 1])
        BY <3>1, <1>1, <1>13
      <4> QED
        BY <4>1, <3>1, <1>1
    <3>2. CASE p # 1
      <4>1. prev # Null /\ len - 1 # 0 /\ 1 \in 1 .. len - 1 /\ d[1] = c[1]
        BY <3>2, <1>1, <1>2, <1>5, <1>13
      <4> QED
        BY <4>1, <1>1 DEF Linked
    <3> QED
      BY <3>1, <3>2
  <2>2. list'.tail = IF len - 1 = 0 THEN Null ELSE d[len - 1]
    <3>1. CASE p = len
      <4>1. next = Null /\ (len # 1 => len - 1 \in 1 .. len - 1 /\ d[len - 1] = c[len - 1])
        BY <3>1, <1>1, <1>13
      <4> QED
        BY <4>1, <3>1, <1>1
    <3>2. CASE p # len
      <4>1. next # Null /\ len - 1 # 0 /\ len - 1 \in 1 .. len - 1 /\ len - 1 >= p /\ (len - 1) + 1 = len
        BY <3>2, <1>1, <1>2, <1>5
      <4>2. d[len - 1] = c[len]
        BY <4>1, <1>13
      <4> QED
        BY <4>1, <4>2, <1>1 DEF Linked
    <3> QED
      BY <3>1, <3>2
  <2> QED
    BY <2>1, <2>2
<1>18. ASSUME NEW i \in 1 .. len - 1
       PROVE  /\ heap'[d[i]].prev = (IF i = 1 THEN Null ELSE d[i - 1])
              /\ heap'[d[i]].next = (IF i = len - 1 THEN Null ELSE d[i + 1])
  <2>1. CASE i < p
    <3>1. d[i] = c[i] /\ i \in 1 .. len /\ i # len /\ c[i] \in Used \ {n}
      BY <2>1, <1>1, <1>2, <1>13
    <3>2. c[i] # next
      BY <3>1, <2>1, <1>1, <1>2, <1>5
    <3>3. heap'[c[i]].prev = heap[c[i]].prev
      BY <3>1, <3>2, <1>9
    <3>4. heap'[c[i]].prev = IF i = 1 THEN Null ELSE d[i - 1]
      <4>1. i # 1 => i - 1 \in 1 .. len - 1 /\ i - 1 < p /\ d[i - 1] = c[i - 1]
        BY <2>1, <1>1, <1>13
      <4> QED
        BY <4>1, <3>1, <3>3 DEF Linked
    <3>5. heap'[c[i]].next = IF i = len - 1 THEN Null ELSE d[i + 1]
      <4>1. CASE i = p - 1
        <5>1. c[i] = prev /\ i + 1 = p /\ (i = len - 1 <=> p = len)
          BY <4>1, <3>1, <1>1
        <5>2. heap'[c[i]].next = next
          BY <5>1, <3>1, <1>9
        <5>3. i # len - 1 => i + 1 \in 1 .. len - 1 /\ d[i + 1] = c[p + 1]
          BY <5>1, <1>1, <1>13
        <5> QED
          BY <5>1, <5>2, <5>3
      <4>2. CASE i # p - 1
        <5>1. i + 1 < p /\ i + 1 \in 1 .. len - 1 /\ i # len - 1
          BY <4>2, <2>1, <1>1
        <5>2. c[i] # prev
          BY <4>2, <3>1, <1>1, <1>2, <1>5
        <5>3. heap'[c[i]].next = c[i + 1]
          BY <5>2, <3>1, <1>9 DEF Linked
        <5> QED
          BY <5>1, <5>3, <1>13
      <4> QED
        BY <4>1, <4>2
    <3> QED
      BY <3>1, <3>4, <3>5
  <2>2. CASE i >= p
    <3> DEFINE e == i + 1
    <3>1. d[i] = c[e] /\ e \in 1 .. len /\ e # 1 /\ e > p /\ i = e - 1
      BY <2>2, <1>1, <1>13
    <3> HIDE DEF e
    <3>2. c[e] \in Used \ {n} /\ c[e] # prev
      BY <3>1, <1>1, <1>2, <1>5
    <3>3. heap'[c[e]].next = heap[c[e]].next
      BY <3>1, <3>2, <1>9
    <3>4. heap'[c[e]].next = IF i = len - 1 THEN Null ELSE d[i + 1]
      <4>1. i # len - 1 => i + 1 \in 1 .. len - 1 /\ i + 1 >= p /\ d[i + 1] = c[e + 1] /\ e # len
        BY <3>1, <2>2, <1>1, <1>13
      <4>2. i = len - 1 => e = len
        BY <3>1, <1>1
      <4> QED
        BY <4>1, <4>2, <3>1, <3>3 DEF Linked
    <3>5. heap'[c[e]].prev = IF i = 1 THEN Null ELSE d[i - 1]
      <4>1. CASE i = p
        <5>1. c[e] = next
          BY <4>1, <3>1, <1>1
        <5>2. heap'[c[e]].prev = prev
          BY <5>1, <3>2, <1>9
        <5>3. i # 1 => i - 1 \in 1 .. len - 1 /\ i - 1 < p /\ d[i - 1] = c[p - 1]
          BY <4>1, <1>1, <1>13
        <5> QED
          BY <5>2, <5>3, <4>1
      <4>2. CASE i # p
        <5>1. i - 1 \in 1 .. len - 1 /\ i - 1 >= p /\ (i - 1) + 1 = e - 1 /\ i # 1
          BY <4>2, <3>1, <2>2, <1>1
        <5>2. c[e] # next
          BY <4>2, <3>1, <1>1, <1>2, <1>5
        <5>3. heap'[c[e]].prev = c[e - 1]
          BY <5>2, <3>1, <3>2, <1>9 DEF Linked
        <5> QED
          BY <5>1, <5>3, <1>13
      <4> QED
        BY <4>1, <4>2
    <3> QED
      BY <3>1, <3>4, <3>5
  <2>3. i < p \/ i >= p
    BY <1>1
  <2> QED
    BY <2>1, <2>2, <2>3, Zenon
<1>19. LinksAgree'
  <2>1. /\ d \in [1 .. list'.len -> Used']
        /\ \A m \in Used' : \E i \in 1 .. list'.len : d[i] = m
        /\ \A i, j \in 1 .. list'.len : d[i] = d[j] => i = j
    BY <1>10, <1>12, <1>14, <1>16, <1>17
  <2>2. /\ list'.head = (IF list'.len = 0 THEN Null ELSE d[1])
        /\ list'.tail = (IF list'.len = 0 THEN Null ELSE d[list'.len])
    BY <1>1, <1>17
  <2>3. \A i \in 1 .. list'.len :
           /\ heap'[d[i]].prev = (IF i = 1 THEN Null ELSE d[i - 1])
           /\ heap'[d[i]].next = (IF i = list'.len THEN Null ELSE d[i + 1])
    BY <1>17, <1>18
  <2> QED
    BY <2>1, <2>2, <2>3 DEF LinksAgree
<1> QED
  BY <1>10, <1>11, <1>19

\* The node t is linked before y, with nothing before it.
AtFront(h, t, y) == [h EXCEPT ![t].prev = Null, ![t].next = y]

\* The last node becomes the first one: listRotate.
LEMMA RotateTo ==
    ASSUME Shape, NEW c, Linked(c), list.len > 1,
           NEW t, t = c[list.len], NEW p, p = c[list.len - 1],
           heap' = AtFront(SetPrev(SetNext(heap, p, Null), list.head, t), t, list.head),
           list' = [list EXCEPT !.head = t, !.tail = p]
    PROVE  Shape' /\ LinksAgree' /\ Used' = Used
<1> DEFINE len == list.len
           head == list.head
           g == SetPrev(SetNext(heap, p, Null), head, t)
           x == [[g[t] EXCEPT !.prev = Null] EXCEPT !.next = head]
           d == [i \in 1 .. len |-> IF i = 1 THEN c[len] ELSE c[i - 1]]
<1>1. /\ len \in Nat /\ len > 1 /\ len \in 1 .. len /\ len - 1 \in 1 .. len /\ 1 \in 1 .. len
      /\ Used \subseteq Nodes /\ heap \in Heaps
  BY DEF Shape, Free, Used
<1>2. c \in [1 .. len -> Used] /\ \A i, j \in 1 .. len : c[i] = c[j] => i = j
  BY DEF Linked
<1>3. head = c[1] /\ head \in Used /\ t \in Used /\ p \in Used /\ t # p /\ t # head
  BY <1>1, <1>2 DEF Linked
<1>4. Null \notin Used /\ Null \notin Cell
  BY <1>1, ListAssumption
<1>5. \A m \in Nodes : (m \in Used => heap[m] \in Cell) /\ (m \notin Used => heap[m] = Null)
  BY DEF Shape, Used, Free, Heaps
<1>6. Relinked(g, heap, p, Null, head, t)
  <2>1. Null \in Addresses /\ t \in Addresses
    BY <1>1, <1>3 DEF Addresses
  <2>2. Valid(heap, p) /\ Valid(heap, head)
    BY <1>1, <1>3, <1>5 DEF Valid, Addresses
  <2> QED
    BY <2>1, <2>2, <1>1, LinkBoth
<1>7. heap' = [g EXCEPT ![t] = x]
  BY DEF AtFront
<1> HIDE DEF g
<1>8. x \in Cell /\ x.prev = Null /\ x.next = head
  <2>1. g[t] \in Cell
    BY <1>1, <1>3, <1>5, <1>6 DEF Relinked
  <2> QED
    BY <2>1, <1>1, <1>3 DEF Cell
<1> HIDE DEF x
<1>9. heap' \in Heaps /\ heap'[t] = x /\ \A m \in Nodes : m # t => heap'[m] = g[m]
  BY <1>1, <1>3, <1>6, <1>7, <1>8 DEF Relinked, Heaps
<1>10. \A m \in Used \ {t} : /\ heap'[m] \in Cell
                             /\ heap'[m].next = IF m = p THEN Null ELSE heap[m].next
                             /\ heap'[m].prev = IF m = head THEN t ELSE heap[m].prev
  BY <1>1, <1>5, <1>6, <1>9 DEF Relinked
<1>11. Used' = Used
  <2>1. \A m \in Nodes : heap'[m] # Null <=> m \in Used
    BY <1>1, <1>3, <1>4, <1>5, <1>6, <1>8, <1>9, <1>10 DEF Relinked
  <2> QED
    BY <2>1, <1>1 DEF Used, Free
<1>12. Shape' /\ list'.len = len /\ list'.head = t /\ list'.tail = p
  BY <1>1, <1>3, <1>9 DEF Shape
<1>13. d \in [1 .. len -> Used] /\ d[1] = t /\ d[len] = p
  BY <1>1, <1>2
<1>14. \A i \in 1 .. len : i # 1 => i - 1 \in 1 .. len /\ i - 1 # len /\ d[i] = c[i - 1]
  BY <1>1
<1> HIDE DEF d
<1>15. ASSUME NEW m \in Used PROVE \E i \in 1 .. len : d[i] = m
  <2>1. PICK i \in 1 .. len : c[i] = m
    BY DEF Linked
  <2>2. i # len => i + 1 \in 1 .. len /\ i + 1 # 1 /\ (i + 1) - 1 = i
    BY <1>1
  <2> QED
    BY <2>1, <2>2, <1>1, <1>13, <1>14
<1>16. \A i, j \in 1 .. len : d[i] = d[j] => i = j
  <2>1. ASSUME NEW i \in 1 .. len, NEW j \in 1 .. len, i < j PROVE d[i] # d[j]
    <3>1. j # 1 /\ d[j] = c[j - 1] /\ j - 1 \in 1 .. len /\ j - 1 # len
      BY <2>1, <1>14
    <3>2. CASE i = 1
      BY <3>1, <3>2, <1>1, <1>2, <1>13
    <3>3. CASE i # 1
      <4>1. d[i] = c[i - 1] /\ i - 1 \in 1 .. len /\ i - 1 # j - 1
        BY <3>3, <2>1, <1>14
      <4> QED
        BY <4>1, <3>1, <1>2
    <3> QED
      BY <3>2, <3>3
  <2> QED
    BY <2>1, <1>1
<1>17. ASSUME NEW i \in 1 .. len
       PROVE  /\ heap'[d[i]].prev = (IF i = 1 THEN Null ELSE d[i - 1])
              /\ heap'[d[i]].next = (IF i = len THEN Null ELSE d[i + 1])
  <2>1. CASE i = 1
    <3>1. i + 1 \in 1 .. len /\ i + 1 # 1 /\ (i + 1) - 1 = 1 /\ i # len
      BY <2>1, <1>1
    <3>2. d[i + 1] = head
      BY <3>1, <1>3, <1>14
    <3> QED
      BY <3>1, <3>2, <2>1, <1>8, <1>9, <1>13
  <2>2. CASE i # 1
    <3> DEFINE e == i - 1
    <3>1. e \in 1 .. len /\ e # len /\ i = e + 1 /\ d[i] = c[e]
      BY <2>2, <1>1, <1>14
    <3> HIDE DEF e
    <3>2. c[e] \in Used \ {t}
      BY <3>1, <1>1, <1>2
    <3>3. heap'[c[e]].prev = d[e]
      <4>1. CASE e = 1
        BY <4>1, <3>2, <1>3, <1>10, <1>13
      <4>2. CASE e # 1
        <5>1. c[e] # head
          BY <4>2, <3>1, <1>1, <1>2, <1>3
        <5>2. heap'[c[e]].prev = heap[c[e]].prev
          BY <5>1, <3>2, <1>10
        <5>3. heap[c[e]].prev = c[e - 1]
          BY <4>2, <3>1 DEF Linked
        <5> QED
          BY <5>2, <5>3, <4>2, <3>1, <1>14
      <4> QED
        BY <4>1, <4>2
    <3>4. heap'[c[e]].next = IF i = len THEN Null ELSE d[i + 1]
      <4>1. CASE i = len
        <5>1. c[e] = p
          BY <4>1, <3>1, <1>1
        <5> QED
          BY <5>1, <4>1, <3>2, <1>10
      <4>2. CASE i # len
        <5>1. i + 1 \in 1 .. len /\ i + 1 # 1 /\ (i + 1) - 1 = e + 1 /\ e # len - 1
          BY <4>2, <3>1, <1>1
        <5>2. c[e] # p
          BY <5>1, <3>1, <1>1, <1>2
        <5>3. heap'[c[e]].next = heap[c[e]].next
          BY <5>2, <3>2, <1>10
        <5>4. heap[c[e]].next = c[e + 1]
          BY <3>1 DEF Linked
        <5> QED
          BY <5>1, <5>3, <5>4, <4>2, <1>14
      <4> QED
        BY <4>1, <4>2
    <3>5. i - 1 = e
      BY <3>1, <1>1
    <3> QED
      BY <3>1, <3>3, <3>4, <3>5, <2>2
  <2> QED
    BY <2>1, <2>2
<1>18. LinksAgree'
  <2>1. /\ d \in [1 .. list'.len -> Used']
        /\ \A m \in Used' : \E i \in 1 .. list'.len : d[i] = m
        /\ \A i, j \in 1 .. list'.len : d[i] = d[j] => i = j
    BY <1>11, <1>12, <1>13, <1>15, <1>16
  <2>2. /\ list'.head = (IF list'.len = 0 THEN Null ELSE d[1])
        /\ list'.tail = (IF list'.len = 0 THEN Null ELSE d[list'.len])
    BY <1>1, <1>12, <1>13
  <2>3. \A i \in 1 .. list'.len :
           /\ heap'[d[i]].prev = (IF i = 1 THEN Null ELSE d[i - 1])
           /\ heap'[d[i]].next = (IF i = list'.len THEN Null ELSE d[i + 1])
    BY <1>12, <1>17
  <2> QED
    BY <2>1, <2>2, <2>3 DEF LinksAgree
<1> QED
  BY <1>11, <1>12, <1>18

-----------------------------------------------------------------------------
\* Both links of a node lead to other nodes, or nowhere.
LEMMA Neighbours ==
    ASSUME Shape, NEW c, Linked(c), NEW m \in Used
    PROVE  /\ heap[m].next \in (Used \ {m}) \cup {Null}
           /\ heap[m].prev \in (Used \ {m}) \cup {Null}
<1>1. list.len \in Nat
  BY DEF Shape
<1>2. PICK i \in 1 .. list.len : c[i] = m
  BY DEF Linked
<1>3. i # list.len => i + 1 \in 1 .. list.len /\ i + 1 # i
  BY <1>1
<1>4. i # 1 => i - 1 \in 1 .. list.len /\ i - 1 # i
  BY <1>1
<1> QED
  BY <1>2, <1>3, <1>4 DEF Linked

\* The ends of the list are nodes of it.
LEMMA Ends ==
    ASSUME Shape, NEW c, Linked(c)
    PROVE  list.head \in Used \cup {Null} /\ list.tail \in Used \cup {Null}
<1>1. list.len \in Nat
  BY DEF Shape
<1>2. list.len # 0 => 1 \in 1 .. list.len /\ list.len \in 1 .. list.len
  BY <1>1
<1> QED
  BY <1>2 DEF Linked

\* An insertion leaves the iterator as it was.
LEMMA IterKept ==
    ASSUME IterOK, Used \subseteq Used', UNCHANGED <<li, current>>
    PROVE  IterOK'
BY DEF IterOK

\* listCreate makes an empty list, which is sound.
LEMMA InitOK == Init => ListInv
<1> SUFFICES ASSUME Init PROVE ListInv
  OBVIOUS
<1>1. Used = {}
  BY DEF Init, Used, Free
<1>2. Shape /\ IterOK
  BY DEF Init, Shape, IterOK, listCreate, NoIter, Heaps
<1>3. LinksAgree
  <2> DEFINE c == [i \in 1 .. 0 |-> Null]
  <2>1. list.len = 0 /\ list.head = Null /\ list.tail = Null
    BY DEF Init, listCreate
  <2>2. 1 .. 0 = {}
    OBVIOUS
  <2>3. c \in [1 .. list.len -> Used]
    BY <2>1, <2>2
  <2> HIDE DEF c
  <2> QED
    BY <2>1, <2>2, <2>3, <1>1 DEF LinksAgree
<1> QED
  BY <1>2, <1>3 DEF ListInv

\* listAddNodeHead puts the node at the first place.
LEMMA AddHeadOK ==
    ASSUME ListInv, NEW n \in Free, NEW v \in Values, listAddNodeHead(n, v)
    PROVE  ListInv'
<1>1. PICK c : Linked(c)
  BY DEF ListInv, LinksAgree, Linked
<1> DEFINE next == IF 1 = list.len + 1 THEN Null ELSE c[1]
           prev == IF 1 = 1 THEN Null ELSE c[1 - 1]
<1>2. list.len \in Nat /\ 1 \in 1 .. list.len + 1 /\ Shape /\ IterOK
  BY DEF ListInv, Shape
<1>3. prev = Null /\ next = list.head
  BY <1>1, <1>2 DEF Linked
<1>4. heap' = SetPrev(SetNext(Allocate(heap, n, prev, next, v), prev, n), next, n)
  BY <1>3 DEF listAddNodeHead, SetNext
<1>5. list' = [head |-> IF 1 = 1 THEN n ELSE list.head,
               tail |-> IF 1 = list.len + 1 THEN n ELSE list.tail,
               len |-> list.len + 1]
  BY <1>2 DEF listAddNodeHead
<1> HIDE DEF next, prev
<1>6. Shape' /\ LinksAgree' /\ Used' = Used \cup {n}
  BY <1>1, <1>2, <1>4, <1>5, InsertAt DEF next, prev
<1>7. IterOK'
  BY <1>2, <1>6, IterKept DEF listAddNodeHead
<1> QED
  BY <1>6, <1>7 DEF ListInv

\* listAddNodeTail puts it at the place after the last one.
LEMMA AddTailOK ==
    ASSUME ListInv, NEW n \in Free, NEW v \in Values, listAddNodeTail(n, v)
    PROVE  ListInv'
<1>1. PICK c : Linked(c)
  BY DEF ListInv, LinksAgree, Linked
<1> DEFINE k == list.len + 1
           next == IF k = list.len + 1 THEN Null ELSE c[k]
           prev == IF k = 1 THEN Null ELSE c[k - 1]
<1>2. list.len \in Nat /\ k \in 1 .. list.len + 1 /\ k - 1 = list.len /\ Shape /\ IterOK
  BY DEF ListInv, Shape
<1>3. next = Null /\ prev = list.tail
  BY <1>1, <1>2 DEF Linked
<1>4. heap' = SetPrev(SetNext(Allocate(heap, n, prev, next, v), prev, n), next, n)
  BY <1>3 DEF listAddNodeTail, SetPrev
<1>5. list' = [head |-> IF k = 1 THEN n ELSE list.head,
               tail |-> IF k = list.len + 1 THEN n ELSE list.tail,
               len |-> list.len + 1]
  BY <1>2 DEF listAddNodeTail
<1> HIDE DEF next, prev, k
<1>6. Shape' /\ LinksAgree' /\ Used' = Used \cup {n}
  BY <1>1, <1>2, <1>4, <1>5, InsertAt DEF next, prev
<1>7. IterOK'
  BY <1>2, <1>6, IterKept DEF listAddNodeTail
<1> QED
  BY <1>6, <1>7 DEF ListInv

\* listInsertNode puts it at the place of the old node, or after it.
LEMMA InsertNodeOK ==
    ASSUME ListInv, NEW n \in Free, NEW v \in Values, NEW old \in Used, NEW after \in BOOLEAN,
           listInsertNode(n, v, old, after)
    PROVE  ListInv'
<1>1. PICK c : Linked(c)
  BY DEF ListInv, LinksAgree, Linked
<1>2. PICK p \in 1 .. list.len : c[p] = old
  BY <1>1 DEF Linked
<1> DEFINE k == IF after THEN p + 1 ELSE p
           next == IF k = list.len + 1 THEN Null ELSE c[k]
           prev == IF k = 1 THEN Null ELSE c[k - 1]
<1>3. list.len \in Nat /\ p \in Nat /\ p >= 1 /\ k \in 1 .. list.len + 1 /\ Shape /\ IterOK
  BY <1>2 DEF ListInv, Shape
<1>4. /\ heap[old].prev = IF p = 1 THEN Null ELSE c[p - 1]
      /\ heap[old].next = IF p = list.len THEN Null ELSE c[p + 1]
      /\ list.head = old <=> p = 1
      /\ list.tail = old <=> p = list.len
  BY <1>1, <1>2, <1>3 DEF Linked
<1>5. /\ prev = IF after THEN old ELSE heap[old].prev
      /\ next = IF after THEN heap[old].next ELSE old
      /\ ~after /\ list.head = old <=> k = 1
      /\ after /\ list.tail = old <=> k = list.len + 1
  <2>1. CASE after
    <3>1. k = p + 1 /\ k # 1 /\ k - 1 = p /\ (k = list.len + 1 <=> p = list.len)
      BY <2>1, <1>3
    <3> QED
      BY <3>1, <2>1, <1>2, <1>4
  <2>2. CASE ~after
    <3>1. k = p /\ k # list.len + 1
      BY <2>2, <1>2, <1>3
    <3> QED
      BY <3>1, <2>2, <1>2, <1>4
  <2> QED
    BY <2>1, <2>2
<1>6. heap' = SetPrev(SetNext(Allocate(heap, n, prev, next, v), prev, n), next, n)
  BY <1>5 DEF listInsertNode
<1>7. list' = [head |-> IF k = 1 THEN n ELSE list.head,
               tail |-> IF k = list.len + 1 THEN n ELSE list.tail,
               len |-> list.len + 1]
  BY <1>5 DEF listInsertNode
<1> HIDE DEF next, prev, k
<1>8. Shape' /\ LinksAgree' /\ Used' = Used \cup {n}
  BY <1>1, <1>3, <1>6, <1>7, InsertAt DEF next, prev
<1>9. IterOK'
  BY <1>3, <1>8, IterKept DEF listInsertNode
<1> QED
  BY <1>8, <1>9 DEF ListInv

\* listDelNode closes the gap; the iterator does not point to what is freed.
LEMMA DelNodeOK ==
    ASSUME ListInv, NEW n \in Used, listDelNode(n)
    PROVE  ListInv'
<1>1. PICK c : Linked(c)
  BY DEF ListInv, LinksAgree, Linked
<1>2. PICK p \in 1 .. list.len : c[p] = n
  BY <1>1 DEF Linked
<1> DEFINE next == IF p = list.len THEN Null ELSE c[p + 1]
           prev == IF p = 1 THEN Null ELSE c[p - 1]
<1>3. Shape /\ IterOK
  BY DEF ListInv
<1>4. heap[n].prev = prev /\ heap[n].next = next
  BY <1>1, <1>2 DEF Linked
<1>5. heap' = [SetPrev(SetNext(heap, prev, next), next, prev) EXCEPT ![n] = Null]
  BY <1>4 DEF listDelNode
<1>6. list' = [head |-> IF prev = Null THEN next ELSE list.head,
               tail |-> IF next = Null THEN prev ELSE list.tail,
               len |-> list.len - 1]
  BY <1>4 DEF listDelNode
<1> HIDE DEF next, prev
<1>7. Shape' /\ LinksAgree' /\ Used' = Used \ {n}
  <2>1. /\ next = (IF p = list.len THEN Null ELSE c[p + 1])
        /\ prev = (IF p = 1 THEN Null ELSE c[p - 1])
        /\ n = c[p] /\ p \in 1 .. list.len
    BY <1>2 DEF next, prev
  <2> QED
    BY ONLY <1>1, <1>3, <1>5, <1>6, <2>1, DeleteAt
<1>8. IterOK'
  BY <1>3, <1>7 DEF IterOK, listDelNode, MayDelete
<1> QED
  BY <1>7, <1>8 DEF ListInv

\* listRotate is called with no iteration going on.
LEMMA RotateOK ==
    ASSUME ListInv, listRotate
    PROVE  ListInv'
<1>1. PICK c : Linked(c)
  BY DEF ListInv, LinksAgree, Linked
<1> DEFINE t == c[list.len]
           p == c[list.len - 1]
<1>2. Shape /\ IterOK /\ list.len \in Nat /\ list.len > 1 /\ list.len \in 1 .. list.len /\ list.len # 1
  BY DEF ListInv, Shape, listRotate
<1>3. list.tail = t /\ heap[t].prev = p
  BY <1>1, <1>2 DEF Linked
<1>4. heap' = AtFront(SetPrev(SetNext(heap, p, Null), list.head, t), t, list.head)
  BY <1>3 DEF listRotate, AtFront
<1>5. list' = [list EXCEPT !.head = t, !.tail = p]
  BY <1>3 DEF listRotate
<1> HIDE DEF t, p
<1>6. Shape' /\ LinksAgree' /\ Used' = Used
  BY <1>1, <1>2, <1>4, <1>5, RotateTo DEF t, p
<1>7. IterOK'
  BY <1>2, <1>6 DEF IterOK, listRotate
<1> QED
  BY <1>6, <1>7 DEF ListInv

\* A step that leaves the list alone.
LEMMA SameList ==
    ASSUME ListInv, UNCHANGED <<heap, list>>
    PROVE  Shape' /\ LinksAgree' /\ Used' = Used
<1>1. Used' = Used
  BY DEF Used, Free
<1> QED
  BY <1>1 DEF ListInv, Shape, LinksAgree

\* An iterator starts at an end of the list.
LEMMA GetIteratorOK ==
    ASSUME ListInv, NEW direction \in {"head", "tail"}, listGetIterator(direction)
    PROVE  ListInv'
<1>1. PICK c : Linked(c)
  BY DEF ListInv, LinksAgree, Linked
<1>2. Shape' /\ LinksAgree' /\ Used' = Used
  BY SameList DEF listGetIterator
<1>3. list.head \in Used \cup {Null} /\ list.tail \in Used \cup {Null} /\ Used \subseteq Nodes
  BY <1>1, Ends DEF ListInv, Used
<1>4. IterOK'
  BY <1>2, <1>3 DEF IterOK, listGetIterator
<1> QED
  BY <1>2, <1>4 DEF ListInv

\* listNext goes on to a neighbour of the node it returns.
LEMMA NextOK ==
    ASSUME ListInv, listNext
    PROVE  ListInv'
<1>1. PICK c : Linked(c)
  BY DEF ListInv, LinksAgree, Linked
<1>2. Shape' /\ LinksAgree' /\ Used' = Used
  BY SameList DEF listNext
<1>3. Shape /\ IterOK /\ Used \subseteq Nodes
  BY DEF ListInv, Used
<1>4. CASE li.next = Null
  <2>1. li' = NoIter
    BY <1>4 DEF listNext
  <2>2. IterOK'
    BY <2>1 DEF IterOK, NoIter
  <2> QED
    BY <2>2, <1>2 DEF ListInv
<1>5. CASE li.next # Null
  <2> DEFINE y == IF li.direction = "head" THEN heap[li.next].next ELSE heap[li.next].prev
  <2>1. li.next \in Used
    BY <1>3, <1>5 DEF IterOK
  <2>2. y \in (Used \ {li.next}) \cup {Null}
    BY <2>1, <1>1, <1>3, Neighbours
  <2>3. li' = [li EXCEPT !.next = y] /\ current' = li.next /\ li.on
    BY <1>5 DEF listNext
  <2> HIDE DEF y
  <2>4. IterOK'
    BY <2>2, <2>3, <1>2, <1>3 DEF IterOK
  <2> QED
    BY <2>4, <1>2 DEF ListInv
<1> QED
  BY <1>4, <1>5

\* Every call on the list, and every step of an iteration, keeps the invariant.
LEMMA StepOK == ListInv /\ [Next]_vars => ListInv'
<1> SUFFICES ASSUME ListInv, [Next]_vars PROVE ListInv'
  OBVIOUS
<1>1. ASSUME UNCHANGED <<heap, list, li, current>> PROVE ListInv'
  <2>1. Shape' /\ LinksAgree' /\ Used' = Used
    BY <1>1, SameList
  <2>2. IterOK'
    BY <1>1, <2>1, IterKept DEF ListInv
  <2> QED
    BY <2>1, <2>2 DEF ListInv
<1>2. CASE \E n \in Free, v \in Values :
             \/ listAddNodeHead(n, v) \/ listAddNodeTail(n, v)
             \/ \E old \in Used, after \in BOOLEAN : listInsertNode(n, v, old, after)
  BY <1>2, AddHeadOK, AddTailOK, InsertNodeOK
<1>3. CASE \E n \in Used : listDelNode(n)
  BY <1>3, DelNodeOK
<1>4. CASE \E direction \in {"head", "tail"} : listGetIterator(direction)
  BY <1>4, GetIteratorOK
<1>5. CASE \E v \in Values : listSearchKey(v)
  BY <1>5, <1>1 DEF listSearchKey
<1>6. CASE \E i \in -MaxIndex .. MaxIndex : listIndex(i)
  BY <1>6, <1>1 DEF listIndex
<1>7. CASE listNext
  BY <1>7, NextOK
<1>8. CASE listDup
  BY <1>8, <1>1 DEF listDup
<1>9. CASE listRotate
  BY <1>9, RotateOK
<1>10. CASE UNCHANGED vars
  BY <1>10, <1>1 DEF vars
<1> QED
  BY <1>2, <1>3, <1>4, <1>5, <1>6, <1>7, <1>8, <1>9, <1>10 DEF Next

\* Whatever calls of adlist.c follow one another, on any nodes and values, the
\* list is linked both ways without a gap, and an iterator over it never points
\* to a freed node.
THEOREM ListAlwaysSound == Spec => []ListSound
<1>1. Init => ListInv
  BY InitOK
<1>2. ListInv /\ [Next]_vars => ListInv'
  BY StepOK
<1>3. ListInv => ListSound
  BY DEF ListInv, ListSound, IterOK, IteratorAlive
<1> QED
  BY <1>1, <1>2, <1>3, PTL DEF Spec
=============================================================================
