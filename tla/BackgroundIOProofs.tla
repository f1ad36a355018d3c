------------------------- MODULE BackgroundIOProofs -------------------------
(***************************************************************************)
(* The safety of bio.c for any set of job types and any number of jobs:    *)
(* the mutex discipline of the two threads keeps the counter equal to the  *)
(* length of the list, and every job is carried out once, in order,        *)
(* although it is carried out without the mutex.                           *)
(***************************************************************************)
EXTENDS BackgroundIO, TLAPS

Steps == {"lock", "loop", "wait", "process", "broadcast", "relock", "remove"}
Places == {"lock", "locked", "wait", "relock", "woken"}

Shape ==
    /\ lock \in [Types -> {"free", "main", "bio"}]
    /\ jobs \in [Types -> Seq(Nat)]
    /\ pending \in [Types -> Nat]
    /\ thread \in [Types -> Steps]
    /\ done \in [Types -> Seq(Nat)]
    /\ main \in {Idle} \cup [op : {"create", "pending", "waitstep"}, type : Types, at : Places]
    /\ created \in Nat

\* Who holds the mutex of a type, from where the two threads are.
Mutex ==
    \A t \in Types :
        /\ lock[t] = "bio" <=> thread[t] \in {"loop", "remove"}
        /\ lock[t] = "main" <=> (main.type = t /\ main.at \in {"locked", "woken"})

\* The counter is the length of the list at every step, and the thread only
\* works on a list that has a first element.
Counted ==
    \A t \in Types :
        /\ pending[t] = Len(jobs[t])
        /\ thread[t] \in {"process", "broadcast", "relock", "remove"} => jobs[t] # <<>>

Increasing(s) == \A i, k \in 1..Len(s) : i < k => s[i] < s[k]

\* The first job of the list has been carried out and is still in the list.
Pops(t) == thread[t] \in {"broadcast", "relock", "remove"}

\* Jobs are listed and carried out by age, and what was carried out is older
\* than what is listed, the job about to be popped excepted.
Ordered ==
    \A t \in Types :
        /\ Increasing(jobs[t]) /\ Increasing(done[t])
        /\ \A i \in 1..Len(jobs[t]) : jobs[t][i] <= created
        /\ \A i \in 1..Len(done[t]) : done[t][i] <= created
        /\ \A i \in 1..Len(done[t]), k \in 1..Len(jobs[t]) :
             (Pops(t) => k > 1) => done[t][i] < jobs[t][k]

IInv == Shape /\ Mutex /\ Counted /\ Ordered

-----------------------------------------------------------------------------
(* Sequences *)

LEMMA AppendFacts ==
    ASSUME NEW s \in Seq(Nat), NEW x \in Nat
    PROVE  /\ Append(s, x) \in Seq(Nat) /\ Append(s, x) # <<>>
           /\ Len(Append(s, x)) = Len(s) + 1
           /\ \A i \in 1..Len(s) : Append(s, x)[i] = s[i]
           /\ Append(s, x)[Len(s) + 1] = x
OBVIOUS

LEMMA TailFacts ==
    ASSUME NEW s \in Seq(Nat), s # <<>>
    PROVE  /\ Tail(s) \in Seq(Nat)
           /\ Len(s) > 0 /\ Len(Tail(s)) = Len(s) - 1
           /\ \A i \in 1..Len(Tail(s)) : Tail(s)[i] = s[i + 1]
           /\ Head(s) = s[1] /\ Head(s) \in Nat
OBVIOUS

\* A younger job at the end, or the oldest one gone, leaves the list ordered.
LEMMA AppendIncreasing ==
    ASSUME NEW s \in Seq(Nat), NEW x \in Nat, Increasing(s),
           \A i \in 1..Len(s) : s[i] < x
    PROVE  Increasing(Append(s, x))
BY AppendFacts, \A i \in 1..Len(s) + 1 : i \in 1..Len(s) \/ i = Len(s) + 1 DEF Increasing

LEMMA TailIncreasing ==
    ASSUME NEW s \in Seq(Nat), s # <<>>, Increasing(s)
    PROVE  Increasing(Tail(s))
BY TailFacts, \A i \in 1..Len(s) - 1 : i + 1 \in 1..Len(s) DEF Increasing

-----------------------------------------------------------------------------
(* The inductive invariant *)

LEMMA InitIInv == Init => IInv
BY DEF Init, IInv, Shape, Mutex, Counted, Ordered, Increasing, Pops, Steps, Idle

LEMMA StepIInv == IInv /\ [Next]_vars => IInv'
<1> SUFFICES ASSUME IInv, [Next]_vars PROVE IInv'
  OBVIOUS
<1> USE DEF IInv
<1>1. ASSUME NEW op \in Ops, NEW t \in Types, Call(op, t) PROVE IInv'
  <2>1. Shape'
    BY <1>1 DEF Call, Shape, Ops, Places
  <2>2. Mutex'
    BY <1>1 DEF Call, Mutex, Shape, Idle
  <2>3. Counted' /\ Ordered'
    BY <1>1 DEF Call, Counted, Ordered, Increasing, Pops
  <2> QED
    BY <2>1, <2>2, <2>3
<1>2. CASE MainLock
  <2>1. main \in [op : {"create", "pending", "waitstep"}, type : Types, at : Places]
    BY <1>2 DEF MainLock, Shape, Idle
  <2>2. Shape'
    BY <1>2, <2>1 DEF MainLock, Acquire, Shape, Places
  <2>3. Mutex'
    BY <1>2, <2>1 DEF MainLock, Acquire, Shape, Mutex
  <2>4. Counted' /\ Ordered'
    BY <1>2 DEF MainLock, Counted, Ordered, Increasing, Pops
  <2> QED
    BY <2>2, <2>3, <2>4
<1>3. CASE bioCreateBackgroundJob
  <2> DEFINE u == main.type
  <2>1. main \in [op : {"create", "pending", "waitstep"}, type : Types, at : Places]
    BY <1>3 DEF bioCreateBackgroundJob, Shape, Idle
  <2>2. u \in Types /\ lock[u] = "main" /\ thread[u] \notin {"loop", "remove"}
    BY <1>3, <2>1 DEF bioCreateBackgroundJob, Mutex, Shape
  <2>3. \A t \in Types : thread'[t] = thread[t] \/ (thread[t] = "wait" /\ thread'[t] = "lock")
    BY <1>3, <2>2 DEF bioCreateBackgroundJob, Signal, Shape
  <2>4. \A t \in Types : Pops(t)' = Pops(t)
    BY <2>3 DEF Pops
  <2>5. /\ jobs'[u] = Append(jobs[u], created + 1) /\ created' = created + 1
        /\ \A t \in Types \ {u} : jobs'[t] = jobs[t]
        /\ done' = done
    BY <1>3, <2>2 DEF bioCreateBackgroundJob, Shape
  <2>6. Shape'
    BY <1>3, <2>2, <2>3, <2>5, AppendFacts DEF bioCreateBackgroundJob, Shape, Release, Signal, Steps
  <2>7. Mutex'
    BY <1>3, <2>2, <2>3 DEF bioCreateBackgroundJob, Release, Mutex, Idle, Shape
  <2>8. Counted'
    <3>1. /\ pending'[u] = pending[u] + 1
          /\ \A t \in Types \ {u} : pending'[t] = pending[t]
      BY <1>3, <2>2 DEF bioCreateBackgroundJob, Shape
    <3>2. jobs[u] \in Seq(Nat) /\ created + 1 \in Nat
      BY <2>2 DEF Shape
    <3>3. Len(jobs'[u]) = Len(jobs[u]) + 1 /\ jobs'[u] # <<>>
      BY <2>5, <3>2, AppendFacts
    <3> QED
      BY <2>3, <2>5, <3>1, <3>3 DEF Counted
  <2>9. ASSUME NEW t \in Types
        PROVE  /\ Increasing(jobs'[t]) /\ Increasing(done'[t])
               /\ \A i \in 1..Len(jobs'[t]) : jobs'[t][i] <= created'
               /\ \A i \in 1..Len(done'[t]) : done'[t][i] <= created'
               /\ \A i \in 1..Len(done'[t]), k \in 1..Len(jobs'[t]) :
                    (Pops(t)' => k > 1) => done'[t][i] < jobs'[t][k]
    <3> DEFINE s == jobs[t]
    <3>1. s \in Seq(Nat) /\ done[t] \in Seq(Nat) /\ created \in Nat
      BY DEF Shape
    <3>2. /\ Increasing(s) /\ Increasing(done[t])
          /\ \A i \in 1..Len(s) : s[i] \in Nat /\ s[i] <= created
          /\ \A i \in 1..Len(done[t]) : done[t][i] \in Nat /\ done[t][i] <= created
          /\ \A i \in 1..Len(done[t]), k \in 1..Len(s) :
               (Pops(t) => k > 1) => done[t][i] < s[k]
      BY <3>1 DEF Ordered
    <3>5. \A n \in Nat : n <= created => n <= created' /\ n < created + 1
      BY <2>5, <3>1
    <3>3. CASE t # u
      <4>1. jobs'[t] = s /\ done'[t] = done[t] /\ Pops(t)' = Pops(t)
        BY <2>4, <2>5, <3>3
      <4> HIDE DEF s
      <4>2. /\ \A i \in 1..Len(s) : s[i] <= created'
            /\ \A i \in 1..Len(done[t]) : done[t][i] <= created'
        BY <3>2, <3>5
      <4> QED
        BY ONLY <3>2, <4>1, <4>2
    <3>4. CASE t = u
      <4> DEFINE n == Append(s, created + 1)
      <4>1. Increasing(n)
        <5>1. \A i \in 1..Len(s) : s[i] < created + 1
          BY ONLY <3>1, <3>2
        <5>2. s \in Seq(Nat) /\ created + 1 \in Nat /\ Increasing(s)
          BY ONLY <3>1, <3>2
        <5> HIDE DEF s
        <5> QED
          BY ONLY <5>1, <5>2, AppendIncreasing
      <4>2. \A k \in 1..Len(n) :
               (k \in 1..Len(s) /\ n[k] = s[k]) \/ (k = Len(s) + 1 /\ n[k] = created + 1)
        BY <3>1, AppendFacts
      <4>3. jobs'[t] = n /\ created' = created + 1 /\ done'[t] = done[t] /\ Pops(t)' = Pops(t)
        BY <2>4, <2>5, <3>4
      <4> HIDE DEF n, s
      <4>4. \A k \in 1..Len(n) : n[k] <= created + 1
        BY <3>1, <3>2, <4>2
      <4>5. ASSUME NEW i \in 1..Len(done[t]), NEW k \in 1..Len(n), Pops(t) => k > 1
            PROVE  done[t][i] < n[k]
        <5>1. CASE k \in 1..Len(s) /\ n[k] = s[k]
          BY <3>2, <4>5, <5>1
        <5>2. CASE n[k] = created + 1
          BY <3>5, <3>2, <5>2
        <5> QED
          BY <4>2, <5>1, <5>2
      <4>6. \A i \in 1..Len(done[t]) : done[t][i] <= created + 1
        BY <3>1, <3>2
      <4>7. Increasing(jobs'[t]) /\ Increasing(done'[t])
        BY <3>2, <4>1, <4>3
      <4>8. \A i \in 1..Len(done'[t]), k \in 1..Len(jobs'[t]) :
               (Pops(t)' => k > 1) => done'[t][i] < jobs'[t][k]
        BY <4>3, <4>5
      <4> QED
        BY <4>3, <4>4, <4>6, <4>7, <4>8
    <3> QED
      BY <3>3, <3>4
  <2> QED
    BY <2>6, <2>7, <2>8, <2>9 DEF Ordered
<1>4. CASE bioPendingJobsOfType \/ bioWaitStepOfType
  <2>1. main \in [op : {"create", "pending", "waitstep"}, type : Types, at : Places]
    BY <1>4 DEF bioPendingJobsOfType, bioWaitStepOfType, Shape, Idle
  <2>2. main' \in {Idle} \cup [op : {"create", "pending", "waitstep"}, type : Types, at : Places]
    BY <1>4, <2>1 DEF bioPendingJobsOfType, bioWaitStepOfType, Places
  <2>5. Shape'
    BY <1>4, <2>2 DEF bioPendingJobsOfType, bioWaitStepOfType, Release, Shape
  <2>3. Mutex'
    BY <1>4, <2>1 DEF bioPendingJobsOfType, bioWaitStepOfType, Release, Shape, Mutex, Idle
  <2>4. Counted' /\ Ordered'
    BY <1>4 DEF bioPendingJobsOfType, bioWaitStepOfType, Counted, Ordered, Increasing, Pops
  <2> QED
    BY <2>5, <2>3, <2>4
<1>5. ASSUME NEW t \in Types, ThreadLock(t) PROVE IInv'
  <2>1. \A r \in Types : Pops(r)' = Pops(r)
    BY <1>5 DEF ThreadLock, Pops, Shape
  <2>2. Shape' /\ Mutex'
    BY <1>5 DEF ThreadLock, Acquire, Shape, Mutex, Steps
  <2>3. Counted' /\ Ordered'
    BY <1>5, <2>1 DEF ThreadLock, Shape, Counted, Ordered, Increasing
  <2> QED
    BY <2>2, <2>3
<1>6. ASSUME NEW t \in Types, Loop(t) PROVE IInv'
  <2>1. \A r \in Types : Pops(r)' = Pops(r)
    BY <1>6 DEF Loop, Pops, Shape
  <2>2. Shape' /\ Mutex'
    BY <1>6 DEF Loop, Release, Shape, Mutex, Steps
  <2>3. Counted' /\ Ordered'
    BY <1>6, <2>1 DEF Loop, Shape, Counted, Ordered, Increasing
  <2> QED
    BY <2>2, <2>3
<1>7. ASSUME NEW t \in Types, ProcessJob(t) PROVE IInv'
  <2>1. jobs[t] \in Seq(Nat) /\ jobs[t] # <<>> /\ done[t] \in Seq(Nat) /\ ~Pops(t)
    BY <1>7 DEF ProcessJob, Shape, Counted, Pops
  <2>2. /\ done'[t] = Append(done[t], jobs[t][1])
        /\ \A r \in Types \ {t} : done'[r] = done[r] /\ thread'[r] = thread[r]
        /\ thread'[t] = "broadcast" /\ jobs' = jobs /\ created' = created
    BY <1>7, <2>1 DEF ProcessJob, Shape
  <2>3. jobs[t][1] \in Nat /\ 1 \in 1..Len(jobs[t])
    BY <2>1
  <2>4. Shape' /\ Mutex' /\ Counted'
    BY <1>7, <2>1, <2>2, <2>3, AppendFacts DEF ProcessJob, Shape, Mutex, Counted, Steps
  <2>5. ASSUME NEW r \in Types
        PROVE  /\ Increasing(jobs'[r]) /\ Increasing(done'[r])
               /\ \A i \in 1..Len(jobs'[r]) : jobs'[r][i] <= created'
               /\ \A i \in 1..Len(done'[r]) : done'[r][i] <= created'
               /\ \A i \in 1..Len(done'[r]), k \in 1..Len(jobs'[r]) :
                    (Pops(r)' => k > 1) => done'[r][i] < jobs'[r][k]
    <3>1. CASE r # t
      BY <2>2, <3>1 DEF Ordered, Pops
    <3>2. CASE r = t
      <4>1. /\ \A i \in 1..Len(done[t]), k \in 1..Len(jobs[t]) : done[t][i] < jobs[t][k]
            /\ \A k \in 1..Len(jobs[t]) : k > 1 => jobs[t][1] < jobs[t][k]
            /\ \A i \in 1..Len(jobs[t]) : jobs[t][i] <= created
            /\ \A i \in 1..Len(done[t]) : done[t][i] <= created
        BY <2>1, <2>3 DEF Ordered, Increasing
      <4>2. Increasing(done'[t])
        BY <2>1, <2>2, <2>3, <4>1, AppendIncreasing DEF Ordered
      <4>3. \A i \in 1..Len(done'[t]) :
               \/ i \in 1..Len(done[t]) /\ done'[t][i] = done[t][i]
               \/ done'[t][i] = jobs[t][1]
        BY <2>1, <2>2, <2>3, AppendFacts
      <4>4. Pops(t)'
        BY <2>2 DEF Pops
      <4> QED
        BY <2>2, <2>3, <3>2, <4>1, <4>2, <4>3, <4>4 DEF Ordered
    <3> QED
      BY <3>1, <3>2
  <2> QED
    BY <2>4, <2>5 DEF Ordered
<1>8. ASSUME NEW t \in Types, Broadcast(t) PROVE IInv'
  <2>1. \A r \in Types : Pops(r)' = Pops(r)
    BY <1>8 DEF Broadcast, Pops, Shape
  <2>2. ASSUME main.at = "wait", main.type = t PROVE Shape' /\ Mutex'
    <3>1. main \in [op : {"create", "pending", "waitstep"}, type : Types, at : Places]
      BY <2>2 DEF Shape, Idle
    <3> QED
      BY <1>8, <2>2, <3>1 DEF Broadcast, Shape, Mutex, Steps, Places
  <2>3. ASSUME ~(main.at = "wait" /\ main.type = t) PROVE Shape' /\ Mutex'
    BY <1>8, <2>3 DEF Broadcast, Shape, Mutex, Steps
  <2>4. Shape' /\ Mutex'
    BY <2>2, <2>3
  <2>5. Counted' /\ Ordered'
    BY <1>8, <2>1 DEF Broadcast, Shape, Counted, Ordered, Increasing
  <2> QED
    BY <2>4, <2>5
<1>9. ASSUME NEW t \in Types, RemoveJob(t) PROVE IInv'
  <2>1. jobs[t] \in Seq(Nat) /\ jobs[t] # <<>> /\ Pops(t)
    BY <1>9 DEF RemoveJob, Shape, Counted, Pops
  <2>2. /\ jobs'[t] = Tail(jobs[t]) /\ thread'[t] = "loop"
        /\ \A r \in Types \ {t} : jobs'[r] = jobs[r] /\ thread'[r] = thread[r]
        /\ done' = done /\ created' = created
    BY <1>9 DEF RemoveJob, Shape
  <2>3. Shape' /\ Mutex' /\ Counted'
    BY <1>9, <2>1, <2>2, TailFacts DEF RemoveJob, Shape, Mutex, Counted, Steps
  <2>4. ASSUME NEW r \in Types
        PROVE  /\ Increasing(jobs'[r]) /\ Increasing(done'[r])
               /\ \A i \in 1..Len(jobs'[r]) : jobs'[r][i] <= created'
               /\ \A i \in 1..Len(done'[r]) : done'[r][i] <= created'
               /\ \A i \in 1..Len(done'[r]), k \in 1..Len(jobs'[r]) :
                    (Pops(r)' => k > 1) => done'[r][i] < jobs'[r][k]
    <3>1. CASE r # t
      BY <2>2, <3>1 DEF Ordered, Pops
    <3>2. CASE r = t
      <4>1. Increasing(jobs'[t])
        BY <2>1, <2>2, TailIncreasing DEF Ordered
      <4>2. \A i \in 1..Len(jobs'[t]) :
               /\ jobs'[t][i] = jobs[t][i + 1]
               /\ i + 1 \in 1..Len(jobs[t]) /\ i + 1 > 1
        BY <2>1, <2>2, TailFacts
      <4>3. Increasing(done'[t]) /\ \A i \in 1..Len(done'[t]) : done'[t][i] <= created'
        BY <2>2 DEF Ordered
      <4>4. \A i \in 1..Len(jobs'[t]) : jobs'[t][i] <= created'
        BY <2>2, <4>2 DEF Ordered
      <4>5. \A i \in 1..Len(done'[t]), k \in 1..Len(jobs'[t]) : done'[t][i] < jobs'[t][k]
        BY <2>2, <4>2 DEF Ordered
      <4> QED
        BY ONLY <3>2, <4>1, <4>3, <4>4, <4>5
    <3> QED
      BY <3>1, <3>2
  <2> QED
    BY <2>3, <2>4 DEF Ordered
<1>10. ASSUME NEW t \in Types, SpuriousWakeup(t) PROVE IInv'
  <2>1. \A r \in Types : Pops(r)' = Pops(r)
    BY <1>10 DEF SpuriousWakeup, Pops, Shape
  <2>2. Shape' /\ Mutex'
    BY <1>10 DEF SpuriousWakeup, Shape, Mutex, Steps
  <2>3. Counted' /\ Ordered'
    BY <1>10, <2>1 DEF SpuriousWakeup, Shape, Counted, Ordered, Increasing
  <2> QED
    BY <2>2, <2>3
<1>11. CASE UNCHANGED vars
  BY <1>11 DEF vars, Shape, Mutex, Counted, Ordered, Increasing, Pops
<1> QED
  BY <1>1, <1>2, <1>3, <1>4, <1>5, <1>6, <1>7, <1>8, <1>9, <1>10, <1>11
  DEF Next, Main, Thread

LEMMA IInvAlways == Spec => []IInv
BY InitIInv, StepIInv, PTL DEF Spec

\* Zero from bioPendingJobsOfType means that every job of the type has been
\* carried out, for any number of types and jobs: the counter follows the list
\* through every interleaving of the main thread and the threads of bio.c.
THEOREM ZeroMeansDoneAlways == Spec => []ZeroMeansDone
<1>1. IInv => ZeroMeansDone
  BY DEF IInv, Counted, Shape, ZeroMeansDone
<1> QED
  BY <1>1, IInvAlways, PTL

\* Jobs of a type are carried out in the order bioCreateBackgroundJob got them,
\* each once, although the job is processed outside the mutex while its node
\* is still in the list.
THEOREM InOrderOnceAlways == Spec => []InOrderOnce
<1>1. ASSUME IInv, NEW t \in Types
      PROVE  /\ \A i, k \in 1..Len(done[t]) : i < k => done[t][i] < done[t][k]
             /\ \A i \in 1..Len(done[t]) : \A k \in 2..Len(jobs[t]) : done[t][i] # jobs[t][k]
  <2>1. \A k \in 2..Len(jobs[t]) : k \in 1..Len(jobs[t]) /\ k > 1
    BY <1>1 DEF IInv, Shape
  <2>2. \A i \in 1..Len(done[t]) : done[t][i] \in Nat
    BY <1>1 DEF IInv, Shape
  <2> QED
    BY <1>1, <2>1, <2>2 DEF IInv, Ordered, Increasing
<1>2. IInv => InOrderOnce
  BY <1>1 DEF InOrderOnce
<1> QED
  BY <1>2, IInvAlways, PTL
=============================================================================
