------------------------------ MODULE SortedSet ------------------------------
(***************************************************************************)
(* What skiplist.c promises: a set of elements in the order of the compare *)
(* function, with access to both ends.                                     *)
(***************************************************************************)
EXTENDS Integers

CONSTANTS Elems,   \* a set of naturals, ordered like the objects
          Null     \* NULL, and the result of an operation that fails

VARIABLES elems,
          result    \* the last operation and what it returned

Init == elems = {} /\ result = <<"create", Null>>

\* Returns NULL if the element is already inside.
Insert(e) ==
    /\ elems' = elems \cup {e}
    /\ result' = <<"insert", IF e \in elems THEN Null ELSE e>>

Delete(e) ==
    /\ elems' = elems \ {e}
    /\ result' = <<"delete", IF e \in elems THEN e ELSE Null>>

Find(e) ==
    /\ result' = <<"find", IF e \in elems THEN e ELSE Null>>
    /\ UNCHANGED elems

\* NULL if the set is empty
Ends(S, least) ==
    IF S = {} THEN {Null}
    ELSE {e \in S : \A f \in S : IF least THEN e <= f ELSE e >= f}

Pop(name, least) == \E e \in Ends(elems, least) :
    /\ elems' = elems \ {e}
    /\ result' = <<name, e>>

PopHead == Pop("pophead", TRUE)
PopTail == Pop("poptail", FALSE)

Next ==
    \/ \E e \in Elems : Insert(e) \/ Delete(e) \/ Find(e)
    \/ PopHead \/ PopTail

Spec == Init /\ [][Next]_<<elems, result>>
=============================================================================
