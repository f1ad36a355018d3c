------------------------------- MODULE ListSeq -------------------------------
(***************************************************************************)
(* What adlist.c promises: a sequence of nodes with access to both ends,   *)
(* and one iterator, which returns the elements of the list in order while *)
(* elements are added, and while the element it returned is removed.       *)
(***************************************************************************)
EXTENDS Integers, Sequences, SequencesExt

CONSTANTS Nodes,    \* the addresses of nodes
          Values,
          Null,
          MaxIndex

VARIABLES seq,     \* the list: [node, value]
          iter,    \* [on, dir, current, todo]: what was returned, and what is still to be
          result   \* the last operation that returns something, and what it returned

NoIter == [on |-> FALSE, dir |-> "head", current |-> Null, todo |-> <<>>]

Init == seq = <<>> /\ iter = NoIter /\ result = Null

Ids(s) == [i \in DOMAIN s |-> s[i].node]
Fresh(n) == ~Contains(Ids(seq), n)

\* In the direction of the iterator.
Order(s, dir) == IF dir = "head" THEN Ids(s) ELSE Reverse(Ids(s))

\* The rest of an iteration after s became the list: what follows its next
\* element; nothing if it was at the end.
Rest(s) ==
    IF iter.todo = <<>> THEN <<>>
    ELSE LET o == Order(s, iter.dir) IN SubSeq(o, IndexFirstSubSeq(<<iter.todo[1]>>, o), Len(o))

Becomes(s) == seq' = s /\ iter' = [iter EXCEPT !.todo = Rest(s)]

AddHead(n, v) == Fresh(n) /\ Becomes(<<[node |-> n, value |-> v]>> \o seq) /\ result' = Null
AddTail(n, v) == Fresh(n) /\ Becomes(Append(seq, [node |-> n, value |-> v])) /\ result' = Null

Insert(n, v, i, after) ==
    /\ Fresh(n)
    /\ Becomes(InsertAt(seq, IF after THEN i + 1 ELSE i, [node |-> n, value |-> v]))
    /\ result' = Null

Del(i) ==
    /\ iter.on => iter.current = seq[i].node
    /\ seq' = RemoveAt(seq, i)
    /\ iter' = [iter EXCEPT !.current = Null]
    /\ result' = Null

Rotate ==
    /\ ~iter.on
    /\ seq' = IF Len(seq) <= 1 THEN seq ELSE <<Last(seq)>> \o Front(seq)
    /\ result' = Null /\ UNCHANGED iter

Start(dir) ==
    /\ iter' = [on |-> TRUE, dir |-> dir, current |-> Null, todo |-> Order(seq, dir)]
    /\ result' = Null /\ UNCHANGED seq

NextElement ==
    /\ iter.on
    /\ IF iter.todo = <<>> THEN iter' = NoIter /\ result' = <<"next", Null>>
       ELSE /\ iter' = [iter EXCEPT !.current = Head(iter.todo), !.todo = Tail(@)]
            /\ result' = <<"next", Head(iter.todo)>>
    /\ UNCHANGED seq

\* The first element with a value; NULL if there is none.
Search(v) ==
    /\ LET S == {i \in DOMAIN seq : seq[i].value = v}
       IN  result' = <<"search", v, IF S = {} THEN Null ELSE seq[CHOOSE i \in S : \A j \in S : i <= j].node>>
    /\ UNCHANGED <<seq, iter>>

\* From the head 0, 1, ..., from the tail -1, -2, ...
Index(i) ==
    /\ LET p == IF i < 0 THEN Len(seq) + i + 1 ELSE i + 1
       IN  result' = <<"index", i, IF p \in DOMAIN seq THEN seq[p].node ELSE Null>>
    /\ UNCHANGED <<seq, iter>>

Dup ==
    /\ result' = <<"dup", [i \in DOMAIN seq |-> seq[i].value]>>
    /\ UNCHANGED <<seq, iter>>

Next ==
    \/ \E n \in Nodes, v \in Values : \/ AddHead(n, v) \/ AddTail(n, v)
                                      \/ \E i \in DOMAIN seq, after \in BOOLEAN : Insert(n, v, i, after)
    \/ \E i \in DOMAIN seq : Del(i)
    \/ \E dir \in {"head", "tail"} : Start(dir)
    \/ \E v \in Values : Search(v)
    \/ \E i \in -MaxIndex .. MaxIndex : Index(i)
    \/ NextElement \/ Rotate \/ Dup

Spec == Init /\ [][Next]_<<seq, iter, result>>
=============================================================================
