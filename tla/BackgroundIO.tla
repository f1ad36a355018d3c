---------------------------- MODULE BackgroundIO ----------------------------
(***************************************************************************)
(* The background threads of bio.c: one thread per type of job (close a    *)
(* file, fsync the AOF), a list of jobs, a counter of pending jobs, a      *)
(* mutex and two condition variables per type.  Every access between two   *)
(* lock operations is one step, so the main thread and the bio threads     *)
(* interleave as they may.                                                 *)
(***************************************************************************)
EXTENDS Integers, Sequences

CONSTANTS Types,    \* BIO_CLOSE_FILE, BIO_AOF_FSYNC
          MaxJobs,  \* bound: jobs the main thread creates, of all types
          Waits     \* whether the main thread calls bioWaitStepOfType

VARIABLES lock,     \* bio_mutex: "free", "main" or "bio"
          jobs,     \* bio_jobs: the list, a job is the number it was created as
          pending,  \* bio_pending
          thread,   \* where the thread of a type is
          done,     \* jobs closed or fsynced, in the order it happened
          main,     \* the call the main thread is in: operation, type, step
          seen,     \* what the last bioPendingJobsOfType returned
          created   \* number of jobs created so far

vars == <<lock, jobs, pending, thread, done, main, seen, created>>

Idle == [op |-> "none", type |-> "none", at |-> "none"]
Ops == {"create", "pending"} \cup (IF Waits THEN {"waitstep"} ELSE {})

Init ==
    /\ lock = [t \in Types |-> "free"]
    /\ jobs = [t \in Types |-> <<>>]
    /\ pending = [t \in Types |-> 0]
    /\ thread = [t \in Types |-> "lock"]
    /\ done = [t \in Types |-> <<>>]
    /\ main = Idle /\ seen = 0 /\ created = 0

Acquire(t, who) == lock[t] = "free" /\ lock' = [lock EXCEPT ![t] = who]
Release(t) == lock' = [lock EXCEPT ![t] = "free"]

(***************************************************************************)
(* The main thread.                                                        *)
(***************************************************************************)
Call(op, t) ==
    /\ main = Idle
    /\ op = "create" => created < MaxJobs
    /\ main' = [op |-> op, type |-> t, at |-> "lock"]
    /\ UNCHANGED <<lock, jobs, pending, thread, done, seen, created>>

MainLock ==
    /\ main.at \in {"lock", "relock"}
    /\ Acquire(main.type, "main")
    /\ main' = [main EXCEPT !.at = IF @ = "lock" THEN "locked" ELSE "woken"]
    /\ UNCHANGED <<jobs, pending, thread, done, seen, created>>

\* pthread_cond_signal: the thread, if it waits, competes for the mutex.
\* Mutant: the new job is not signalled.
NoSignal(t) == thread

Signal(t) == IF thread[t] = "wait" THEN [thread EXCEPT ![t] = "lock"] ELSE thread

bioCreateBackgroundJob ==
    /\ main.op = "create" /\ main.at = "locked"
    /\ LET t == main.type IN
       /\ jobs' = [jobs EXCEPT ![t] = Append(@, created + 1)]
       /\ pending' = [pending EXCEPT ![t] = @ + 1]
       /\ thread' = Signal(t)
       /\ Release(t)
    /\ created' = created + 1
    /\ main' = Idle
    /\ UNCHANGED <<done, seen>>

bioPendingJobsOfType ==
    /\ main.op = "pending" /\ main.at = "locked"
    /\ seen' = pending[main.type]
    /\ Release(main.type)
    /\ main' = Idle
    /\ UNCHANGED <<jobs, pending, thread, done, created>>

\* bioWaitStepOfType: returns at once, or waits for a broadcast.
bioWaitStepOfType ==
    /\ main.op = "waitstep" /\ main.at \in {"locked", "woken"}
    /\ Release(main.type)
    /\ IF main.at = "locked" /\ pending[main.type] # 0
       THEN main' = [main EXCEPT !.at = "wait"] /\ UNCHANGED seen
       ELSE main' = Idle /\ seen' = pending[main.type]
    /\ UNCHANGED <<jobs, pending, thread, done, created>>

(***************************************************************************)
(* The thread of type t: bioProcessBackgroundJobs.                         *)
(***************************************************************************)
ThreadLock(t) ==
    /\ thread[t] \in {"lock", "relock"}
    /\ Acquire(t, "bio")
    /\ thread' = [thread EXCEPT ![t] = IF @ = "lock" THEN "loop" ELSE "remove"]
    /\ UNCHANGED <<jobs, pending, done, main, seen, created>>

\* An empty list: wait for a new job. Otherwise take the first one, which
\* stays in the list until it was processed.
Loop(t) ==
    /\ thread[t] = "loop"
    /\ Release(t)
    /\ thread' = [thread EXCEPT ![t] = IF jobs[t] = <<>> THEN "wait" ELSE "process"]
    /\ UNCHANGED <<jobs, pending, done, main, seen, created>>

\* Mutant: the thread looks the first job up again and takes the newest.
ProcessNewest(t) ==
    /\ thread[t] = "process"
    /\ done' = [done EXCEPT ![t] = Append(@, jobs[t][Len(jobs[t])])]
    /\ thread' = [thread EXCEPT ![t] = "broadcast"]
    /\ UNCHANGED <<lock, jobs, pending, main, seen, created>>

\* close() or fsync(), without the mutex.
ProcessJob(t) ==
    /\ thread[t] = "process"
    /\ done' = [done EXCEPT ![t] = Append(@, Head(jobs[t]))]
    /\ thread' = [thread EXCEPT ![t] = "broadcast"]
    /\ UNCHANGED <<lock, jobs, pending, main, seen, created>>

\* pthread_cond_broadcast of bio_step_cond, still without the mutex.
Broadcast(t) ==
    /\ thread[t] = "broadcast"
    /\ thread' = [thread EXCEPT ![t] = "relock"]
    /\ main' = IF main.at = "wait" /\ main.type = t THEN [main EXCEPT !.at = "relock"] ELSE main
    /\ UNCHANGED <<lock, jobs, pending, done, seen, created>>

\* Mutant: the node is removed and the counter is not decremented.
RemoveEarly(t) ==
    /\ thread[t] = "remove"
    /\ jobs' = [jobs EXCEPT ![t] = Tail(@)]
    /\ thread' = [thread EXCEPT ![t] = "loop"]
    /\ UNCHANGED <<lock, pending, done, main, seen, created>>

\* With the mutex again: remove the node and count it as processed.
RemoveJob(t) ==
    /\ thread[t] = "remove"
    /\ jobs' = [jobs EXCEPT ![t] = Tail(@)]
    /\ pending' = [pending EXCEPT ![t] = @ - 1]
    /\ thread' = [thread EXCEPT ![t] = "loop"]
    /\ UNCHANGED <<lock, done, main, seen, created>>

\* A condition variable may wake its waiter without a signal.
SpuriousWakeup(t) ==
    /\ thread[t] = "wait"
    /\ thread' = [thread EXCEPT ![t] = "lock"]
    /\ UNCHANGED <<lock, jobs, pending, done, main, seen, created>>

Thread(t) == ThreadLock(t) \/ Loop(t) \/ ProcessJob(t) \/ Broadcast(t) \/ RemoveJob(t)
Main == MainLock \/ bioCreateBackgroundJob \/ bioPendingJobsOfType \/ bioWaitStepOfType

Next ==
    \/ \E op \in Ops, t \in Types : Call(op, t)
    \/ Main
    \/ \E t \in Types : Thread(t) \/ SpuriousWakeup(t)

Spec == Init /\ [][Next]_vars

\* The operating system runs every thread, and the mutex is not taken from a
\* thread for ever; nothing obliges the main thread to make another call.
Fairness ==
    /\ WF_vars(Main) /\ SF_vars(MainLock)
    /\ \A t \in Types : WF_vars(Thread(t)) /\ SF_vars(ThreadLock(t))

FairSpec == Spec /\ Fairness

-----------------------------------------------------------------------------
TypeOK ==
    /\ lock \in [Types -> {"free", "main", "bio"}]
    /\ pending \in [Types -> 0..MaxJobs]
    /\ thread \in [Types -> {"lock", "loop", "wait", "process", "broadcast", "relock", "remove"}]
    /\ main.op \in Ops \cup {"none"}
    /\ created \in 0..MaxJobs

\* Jobs of a type are carried out in the order they were created, each once,
\* although the node stays in the list while it is processed (bio.c: the list
\* is only popped after the job is done, under the mutex).
InOrderOnce ==
    \A t \in Types :
        /\ \A i, k \in 1..Len(done[t]) : i < k => done[t][i] < done[t][k]
        /\ \A i \in 1..Len(done[t]) : \A k \in 2..Len(jobs[t]) : done[t][i] # jobs[t][k]

\* Zero pending jobs means that every job of the type was carried out: what
\* flushAppendOnlyFile concludes from bioPendingJobsOfType(BIO_AOF_FSYNC), read
\* under the mutex at any point of the thread's loop.
ZeroMeansDone ==
    \A t \in Types : lock[t] # "bio" =>
        (pending[t] = Len(jobs[t]) /\ (thread[t] \in {"process", "broadcast", "relock"} => pending[t] > 0))

\* Every job is eventually carried out: a signal sent while the thread is not
\* waiting is not lost, because the thread looks at the list under the mutex
\* before it waits (bio.c: bioProcessBackgroundJobs).
EveryJobDone == \A t \in Types : (jobs[t] # <<>>) ~> (jobs[t] = <<>>)

\* Bio.c, bioWaitStepOfType: it "waits that the next job was processed", so a
\* call returns when no more jobs are pending.
WaitStepReturns == (main.op = "waitstep") ~> (main.op # "waitstep")
=============================================================================
