----------------------------- MODULE ThreadPool -----------------------------
(***************************************************************************)
(* httplib::ThreadPool, whose threads run the handlers of the server: a    *)
(* mutex, a condition variable and a list of jobs.  One thread, the one    *)
(* that listens, enqueues the jobs and shuts the pool down.  The pool is   *)
(* created with max_queued_requests_ = 0: a job is never refused.          *)
(*                                                                         *)
(* pc says where each thread is; a worker that the condition variable      *)
(* holds is at "waiting".                                                  *)
(***************************************************************************)
EXTENDS Integers, Sequences, FiniteSets

CONSTANTS
  Listener,  \* the thread that calls enqueue and shutdown
  Workers,   \* threads_
  Jobs,      \* what is enqueued
  Null,      \* no thread, no job
  MaxJobs    \* bound: this many jobs are enqueued at most

ASSUME PoolAssumption ==
  /\ IsFiniteSet(Workers) /\ Listener \notin Workers
  /\ Null \notin Workers \cup Jobs \cup {Listener}

Threads == Workers \cup {Listener}

VARIABLES
  mtx,       \* the owner of mutex_
  jobs,      \* jobs_
  shutdown,  \* shutdown_
  pc,
  fn,        \* the local fn of each worker
  enqueued   \* number of jobs enqueued so far

vars == <<mtx, jobs, shutdown, pc, fn, enqueued>>

ListenerPC == {"listen", "enqueue", "push", "push_unlock", "notify", "shutdown",
               "set", "set_unlock", "notify_all", "join", "joined"}
WorkerPC == {"lock", "test", "sleep", "waiting", "take", "take_unlock", "leave", "run", "gone"}
Locked == {"push", "push_unlock", "set", "set_unlock", "test", "sleep", "take",
           "take_unlock", "leave"}

Init ==
  /\ mtx = Null
  /\ jobs = <<>>
  /\ shutdown = FALSE
  /\ pc = [t \in Threads |-> IF t = Listener THEN "listen" ELSE "lock"]
  /\ fn = [w \in Workers |-> Null]
  /\ enqueued = 0

Step(t, from, to) == pc[t] = from /\ pc' = [pc EXCEPT ![t] = to]
Move(t, from, to) ==
  Step(t, from, to) /\ UNCHANGED <<mtx, jobs, shutdown, fn, enqueued>>

(* std::unique_lock's constructor and destructor.                          *)
Lock(t, from, to) ==
  /\ Step(t, from, to)
  /\ mtx = Null
  /\ mtx' = t
  /\ UNCHANGED <<jobs, shutdown, fn, enqueued>>
Unlock(t, from, to) ==
  /\ Step(t, from, to)
  /\ mtx' = Null
  /\ UNCHANGED <<jobs, shutdown, fn, enqueued>>
-----------------------------------------------------------------------------
(* enqueue(fn): the mutex is released before the notification.             *)
Enqueue ==
  /\ enqueued < MaxJobs
  /\ Move(Listener, "listen", "enqueue")

EnqueueLock == Lock(Listener, "enqueue", "push")

Push(j) ==
  /\ Step(Listener, "push", "push_unlock")
  /\ jobs' = Append(jobs, j)
  /\ enqueued' = enqueued + 1
  /\ UNCHANGED <<mtx, shutdown, fn>>

EnqueueUnlock == Unlock(Listener, "push_unlock", "notify")

(* cond_.notify_one() wakes one waiting thread, any one, if there are some.*)
(* Mutant: only if the list was empty.                                     *)
Wake(w) ==
  /\ pc[Listener] = "notify" /\ pc[w] = "waiting"
  /\ pc' = [pc EXCEPT ![Listener] = "listen", ![w] = "lock"]
  /\ UNCHANGED <<mtx, jobs, shutdown, fn, enqueued>>
WakeNobody ==
  /\ \A w \in Workers : pc[w] # "waiting"
  /\ Move(Listener, "notify", "listen")
NotifyIfEmpty ==
  \/ Len(jobs) = 1 /\ \E w \in Workers : Wake(w)
  \/ Len(jobs) # 1 /\ Move(Listener, "notify", "listen")
  \/ WakeNobody
NotifyOne == (\E w \in Workers : Wake(w)) \/ WakeNobody
-----------------------------------------------------------------------------
(* shutdown().  Mutant: the flag is set without locking the mutex.         *)
Shutdown == Move(Listener, "listen", "shutdown")

ShutdownWithoutLock ==
  /\ Step(Listener, "shutdown", "notify_all")
  /\ shutdown' = TRUE
  /\ UNCHANGED <<mtx, jobs, fn, enqueued>>
ShutdownLock == Lock(Listener, "shutdown", "set")

SetShutdown ==
  /\ Step(Listener, "set", "set_unlock")
  /\ shutdown' = TRUE
  /\ UNCHANGED <<mtx, jobs, fn, enqueued>>

ShutdownUnlock == Unlock(Listener, "set_unlock", "notify_all")

NotifyAll ==
  /\ pc[Listener] = "notify_all"
  /\ pc' = [t \in Threads |-> IF t = Listener THEN "join"
                              ELSE IF pc[t] = "waiting" THEN "lock" ELSE pc[t]]
  /\ UNCHANGED <<mtx, jobs, shutdown, fn, enqueued>>

Join ==
  /\ \A w \in Workers : pc[w] = "gone"
  /\ Move(Listener, "join", "joined")
-----------------------------------------------------------------------------
(* A worker.  cond_.wait(lock, predicate): while the predicate is false,   *)
(* the mutex is released and the thread waits, in one step.  Mutants: a    *)
(* worker leaves as soon as shutdown_ is set; or not before there is a job.*)
WorkerLock(w) == Lock(w, "lock", "test")

TestShutdownFirst(w) ==
  \/ ~shutdown /\ jobs = <<>> /\ Move(w, "test", "sleep")
  \/ shutdown /\ Move(w, "test", "leave")
  \/ ~shutdown /\ jobs # <<>> /\ Move(w, "test", "take")
TestJobsOnly(w) ==
  \/ jobs = <<>> /\ Move(w, "test", "sleep")
  \/ jobs # <<>> /\ Move(w, "test", "take")
Test(w) ==
  \/ ~shutdown /\ jobs = <<>> /\ Move(w, "test", "sleep")
  \/ shutdown /\ jobs = <<>> /\ Move(w, "test", "leave")
  \/ jobs # <<>> /\ Move(w, "test", "take")

Sleep(w) == Unlock(w, "sleep", "waiting")

Leave(w) == Unlock(w, "leave", "gone")

(* fn is the oldest job.  Mutant: all the jobs are moved out of the list.  *)
TakeAll(w) ==
  /\ Step(w, "take", "take_unlock")
  /\ fn' = [fn EXCEPT ![w] = jobs]
  /\ jobs' = <<>>
  /\ UNCHANGED <<mtx, shutdown, enqueued>>
Take(w) ==
  /\ Step(w, "take", "take_unlock")
  /\ fn' = [fn EXCEPT ![w] = Head(jobs)]
  /\ jobs' = Tail(jobs)
  /\ UNCHANGED <<mtx, shutdown, enqueued>>

TakeUnlock(w) == Unlock(w, "take_unlock", "run")

Run(w) ==
  /\ Step(w, "run", "lock")
  /\ fn' = [fn EXCEPT ![w] = Null]
  /\ UNCHANGED <<mtx, jobs, shutdown, enqueued>>

(* A wait may also end by itself.                                          *)
SpuriousWakeup(w) == Move(w, "waiting", "lock")
-----------------------------------------------------------------------------
ListenerStep ==
  \/ EnqueueLock \/ (\E j \in Jobs : Push(j)) \/ EnqueueUnlock \/ NotifyOne
  \/ ShutdownLock \/ SetShutdown \/ ShutdownUnlock \/ NotifyAll \/ Join
WorkerStep(w) ==
  WorkerLock(w) \/ Test(w) \/ Sleep(w) \/ Leave(w) \/ Take(w) \/ TakeUnlock(w) \/ Run(w)

Next ==
  \/ Enqueue \/ Shutdown \/ ListenerStep
  \/ \E w \in Workers : WorkerStep(w) \/ SpuriousWakeup(w)

Spec == Init /\ [][Next]_vars

(* Every thread keeps running, jobs end, and the mutex does not pass one   *)
(* thread over for ever while others, woken for nothing, keep taking it.   *)
FairSpec ==
  /\ Spec
  /\ SF_vars(ListenerStep)
  /\ \A w \in Workers : SF_vars(WorkerStep(w))
-----------------------------------------------------------------------------
(* Every variable has its type.                                            *)
TypeOK ==
  /\ mtx \in Threads \cup {Null}
  /\ jobs \in Seq(Jobs)
  /\ shutdown \in BOOLEAN
  /\ pc \in [Threads -> ListenerPC \cup WorkerPC]
  /\ fn \in [Workers -> Jobs \cup {Null}]
  /\ enqueued \in Nat

Waiting == {w \in Workers : pc[w] = "waiting"}
Awake == {w \in Workers : pc[w] \in {"lock", "test", "take"}}
Notifying == IF pc[Listener] \in {"push_unlock", "notify"} THEN 1 ELSE 0

(* While a worker waits, every job in the list has a worker awake that     *)
(* will take it or a notification that is about to come.                   *)
NoLostWakeup == Waiting # {} => Len(jobs) <= Cardinality(Awake) + Notifying

(* Once shutdown() has notified the workers, none of them waits again, so  *)
(* that shutdown() can join them all: no worker slips from the test into   *)
(* the wait between the flag and the notification.                         *)
NoLateSleeper ==
  pc[Listener] \in {"join", "joined"} =>
    \A w \in Workers : pc[w] \notin {"sleep", "waiting"}

(* A ThreadPool is a JobPool: each job is run once, oldest first, by one   *)
(* worker, and the jobs enqueued before shutdown() are run before the      *)
(* workers end; no job waits for ever beside a worker that is free.        *)
JP == INSTANCE JobPool WITH
        line <- jobs, doing <- fn, closed <- shutdown,
        gone <- {w \in Workers : pc[w] \in {"leave", "gone"}}

IsJobPool == JP!Spec
ServesEveryJob == JP!FairSpec
=============================================================================
