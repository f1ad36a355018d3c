-------------------------------- MODULE JobId --------------------------------
(***************************************************************************)
(* Job IDs (job.c): how ADDJOB makes them, what ACKJOB reads from the ID   *)
(* of a job it does not know, and the order of nodes that depends on them. *)
(* Characters are their ASCII codes, bytes are numbers, all of the size    *)
(* they have in the code.  SHA1 is external: a hash is any of Hashes.      *)
(***************************************************************************)
EXTENDS Integers, Sequences, SequencesExt, Bitwise

CONSTANTS Names,   \* names of nodes, 40 characters
          Hashes,  \* 20 bytes
          TTLs,    \* TTL of the job, in seconds
          Retries  \* RETRY of the job, in seconds

VARIABLES myself,  \* the name of the node that made the job
          hash,
          ttl,
          retry,
          id       \* the ID of the last job

vars == <<myself, hash, ttl, retry, id>>

D == 68
Dash == 45

b64cset(v) == CASE v < 26 -> 65 + v [] v < 52 -> 71 + v [] v < 62 -> v - 4
                [] v = 62 -> 43 [] OTHER -> 47

hexcset(v) == IF v < 10 THEN 48 + v ELSE 87 + v

\* Four characters for the bytes k + 1 to k + 3 of a hash; the last is made
\* from the byte after them.
Encode3(h, k) ==
    <<b64cset(h[k + 1] \div 4),
      b64cset((h[k + 1] * 16 + h[k + 2] \div 16) % 64),
      b64cset((h[k + 2] * 4 + h[k + 3] \div 64) % 64),
      b64cset(h[k + 4] % 64)>>

Base64(h) == FlattenSeq([j \in 1 .. 6 |-> Encode3(h, 3 * (j - 1))])

\* Mutant: the lowest bit is added in both cases.
TTLMinutesOdd(t, r) == ((t \div 60) \div 2) * 2 + 1

\* The TTL in minutes, odd if and only if the job may be delivered again.
TTLMinutes(t, r) ==
    LET minutes == t \div 60
        capped  == IF minutes > 65535 THEN 65535 ELSE minutes
    IN  (capped \div 2) * 2 + (IF r > 0 THEN 1 ELSE 0)

Hex4(v) == [i \in 1 .. 4 |-> hexcset((v \div 16 ^ (4 - i)) % 16)]

MakeID(n, h, t, r) ==
    <<D, Dash>> \o SubSeq(n, 1, 8) \o <<Dash>> \o Base64(h) \o <<Dash>> \o Hex4(TTLMinutes(t, r))

\* Positions are those of the code plus one.
validateJobID(x) == Len(x) = 40 /\ x[1] = D /\ x[2] = Dash /\ x[11] = Dash /\ x[36] = Dash

\* The value of a digit, zero for what is no digit.
HexDigit(c) ==
    CASE c \in 48 .. 57 -> c - 48 [] c \in 97 .. 102 -> c - 87 [] c \in 65 .. 70 -> c - 55 [] OTHER -> 0

hexToInt(s) == FoldLeft(LAMBDA v, c : v * 16 + HexDigit(c), 0, s)

getRawTTLFromJobID(x) == hexToInt(SubSeq(x, 37, 40))

\* How long the ACK of an unknown job is kept, in seconds.
setJobTTLFromID(x) == getRawTTLFromJobID(x) * 60

\* ACKJOB keeps an ACK only of jobs that may be delivered again.
KeepsDummyAck(x) == getRawTTLFromJobID(x) % 2 = 1

Mixed(n, x, i) == n[i] ^^ x[12 + ((i - 1) % 24)]

\* Compares the names mixed with the pseudo random part of the ID.
compareNodeIDsByJob(a, b, x) ==
    LET diff == {i \in 1 .. 40 : Mixed(a, x, i) # Mixed(b, x, i)} IN
    IF diff = {} THEN 0
    ELSE LET i == CHOOSE k \in diff : \A m \in diff : k <= m
         IN  IF Mixed(a, x, i) > Mixed(b, x, i) THEN 1 ELSE -1

-----------------------------------------------------------------------------
Init ==
    /\ myself = CHOOSE n \in Names : TRUE
    /\ hash = CHOOSE h \in Hashes : TRUE
    /\ ttl = CHOOSE t \in TTLs : TRUE
    /\ retry = CHOOSE r \in Retries : TRUE
    /\ id = MakeID(myself, hash, ttl, retry)

\* A job is made by node n, with a hash of its own.
generateJobID(n, h, t, r) ==
    /\ myself' = n /\ hash' = h /\ ttl' = t /\ retry' = r
    /\ id' = MakeID(n, h, t, r)

Next == \E n \in Names, h \in Hashes, t \in TTLs, r \in Retries : generateJobID(n, h, t, r)

Spec == Init /\ [][Next]_vars

(***************************************************************************)
(* Properties.                                                             *)
(***************************************************************************)
\* Every ID a node makes is one that the commands of clients accept.
GeneratedIsValid == validateJobID(id)

\* ACKJOB on a node that does not know the job keeps an ACK exactly if the
\* job may be delivered again: never for a job to be delivered at most once,
\* always for the others, whatever TTL the ID has to hold.
DummyAckOnlyForRetry == KeepsDummyAck(id) <=> retry > 0

\* The TTL read back from an ID is the one of the job, to a precision of two
\* minutes, up to the largest that fits.
TTLPrecision ==
    ttl \div 60 <= 65535 => LET d == setJobTTLFromID(id) - ttl IN -120 < d /\ d < 120

\* For every job the nodes are totally ordered, so that of the nodes that
\* have it queued and hear QUEUED from each other exactly one keeps it.
OrderIsTotal ==
    \A a, b \in Names :
        /\ (compareNodeIDsByJob(a, b, id) > 0) <=> (compareNodeIDsByJob(b, a, id) < 0)
        /\ (compareNodeIDsByJob(a, b, id) = 0) <=> a = b
        /\ \A c \in Names : compareNodeIDsByJob(a, b, id) > 0 /\ compareNodeIDsByJob(b, c, id) > 0
                              => compareNodeIDsByJob(a, c, id) > 0

\* Two hashes that differ in their first 144 bits give different IDs.
AllBitsUsed ==
    \A h \in Hashes : Base64(h) = Base64(hash) => SubSeq(h, 1, 18) = SubSeq(hash, 1, 18)

\* The ACK kept of an unknown job is there for as long as the job is.
AckOutlivesJob == KeepsDummyAck(id) => setJobTTLFromID(id) >= ttl
=============================================================================
