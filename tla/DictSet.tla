------------------------------- MODULE DictSet -------------------------------
(***************************************************************************)
(* What a dictionary of dict.c promises its callers: a set of keys, each   *)
(* operation atomic, the reply of an operation determined by the set.  The *)
(* two tables, their resizing and the incremental rehashing are invisible. *)
(***************************************************************************)
CONSTANTS Keys, Nil

VARIABLES members,   \* the keys that dictFind finds
          reply      \* the last operation, and whether it returned DICT_OK (an entry)

Init == members = {} /\ reply = <<"none", Nil, FALSE>>

\* dictAdd
Add(k) ==
    /\ reply' = <<"add", k, k \notin members>>
    /\ members' = members \cup {k}

\* dictDelete
Delete(k) ==
    /\ reply' = <<"delete", k, k \in members>>
    /\ members' = members \ {k}

\* dictFind
Find(k) ==
    /\ reply' = <<"find", k, k \in members>>
    /\ UNCHANGED members

\* dictEmpty
Empty ==
    /\ members' = {}
    /\ UNCHANGED reply

Next ==
    \/ \E k \in Keys : Add(k) \/ Delete(k) \/ Find(k)
    \/ Empty

Spec == Init /\ [][Next]_<<members, reply>>
=============================================================================
