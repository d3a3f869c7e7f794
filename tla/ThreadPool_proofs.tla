------------------------- MODULE ThreadPool_proofs --------------------------
(***************************************************************************)
(* Theorems about ThreadPool, for any number of workers and of jobs.       *)
(***************************************************************************)
EXTENDS ThreadPool, FiniteSetTheorems, TLAPS

(* The listener and the workers run their own code.                        *)
Roles == pc[Listener] \in ListenerPC /\ \A w \in Workers : pc[w] \in WorkerPC

(* A thread inside a critical section owns the mutex.                      *)
Owner == \A t \in Threads : pc[t] \in Locked => mtx = t

(* The flag is set by shutdown(), and only there.                          *)
FlagOfShutdown ==
  shutdown <=> pc[Listener] \in {"set_unlock", "notify_all", "join", "joined"}

(* What a worker has seen in its test is still so, while it has the mutex. *)
TestHolds ==
  \A w \in Workers :
    /\ pc[w] = "sleep" => jobs = <<>> /\ ~shutdown
    /\ pc[w] = "leave" => jobs = <<>> /\ shutdown
    /\ pc[w] = "take" => jobs # <<>>

(* A worker has a job from q.front() until the job has been run.           *)
HasJob == \A w \in Workers : fn[w] # Null <=> pc[w] \in {"take_unlock", "run"}

(* The inductive invariant.                                                *)
PoolInv ==
  TypeOK /\ Roles /\ Owner /\ FlagOfShutdown /\ TestHolds /\ HasJob /\ NoLateSleeper

-----------------------------------------------------------------------------
LEMMA InitPoolInv == Init => PoolInv
<1> SUFFICES ASSUME Init PROVE PoolInv
  OBVIOUS
<1>1. pc[Listener] = "listen" /\ \A w \in Workers : pc[w] = "lock" /\ fn[w] = Null
  BY PoolAssumption DEF Init, Threads
<1>2. TypeOK
  <2>1. pc \in [Threads -> ListenerPC \cup WorkerPC]
    BY DEF Init, ListenerPC, WorkerPC
  <2>2. mtx \in Threads \cup {Null} /\ jobs \in Seq(Jobs) /\ enqueued \in Nat
        /\ fn \in [Workers -> Jobs \cup {Null}]
    BY DEF Init
  <2>3. shutdown \in BOOLEAN
    BY DEF Init
  <2> QED BY <2>1, <2>2, <2>3 DEF TypeOK
<1>3. Roles /\ Owner /\ HasJob /\ TestHolds /\ NoLateSleeper
  BY <1>1 DEF Roles, Owner, HasJob, TestHolds, NoLateSleeper, Threads, ListenerPC,
              WorkerPC, Locked
<1>4. FlagOfShutdown
  BY <1>1 DEF Init, FlagOfShutdown
<1> QED BY <1>2, <1>3, <1>4 DEF PoolInv

(* Steps that only move a thread, or lock or unlock the mutex.             *)
LEMMA ListenerMoveKeeps ==
  ASSUME PoolInv,
         Enqueue \/ EnqueueLock \/ EnqueueUnlock \/ WakeNobody
           \/ Shutdown \/ ShutdownLock \/ ShutdownUnlock \/ Join
  PROVE  PoolInv'
<1> USE PoolAssumption
    DEF PoolInv, TypeOK, Roles, Owner, FlagOfShutdown, TestHolds, HasJob, NoLateSleeper,
        Threads, ListenerPC, WorkerPC, Locked, Move, Lock, Unlock, Step
<1>1. CASE Enqueue
  BY <1>1 DEF Enqueue
<1>2. CASE EnqueueLock
  BY <1>2 DEF EnqueueLock
<1>3. CASE EnqueueUnlock
  BY <1>3 DEF EnqueueUnlock
<1>4. CASE WakeNobody
  BY <1>4 DEF WakeNobody
<1>5. CASE Shutdown
  BY <1>5 DEF Shutdown
<1>6. CASE ShutdownLock
  BY <1>6 DEF ShutdownLock
<1>7. CASE ShutdownUnlock
  BY <1>7 DEF ShutdownUnlock
<1>8. CASE Join
  BY <1>8 DEF Join
<1> QED BY <1>1, <1>2, <1>3, <1>4, <1>5, <1>6, <1>7, <1>8

(* The steps of the listener that others see.                              *)
LEMMA ListenerActKeeps ==
  ASSUME PoolInv,
         (\E j \in Jobs : Push(j)) \/ SetShutdown \/ NotifyAll
           \/ \E w \in Workers : Wake(w)
  PROVE  PoolInv'
<1> USE PoolAssumption
    DEF PoolInv, TypeOK, Roles, Owner, FlagOfShutdown, TestHolds, HasJob, NoLateSleeper,
        Threads, ListenerPC, WorkerPC, Locked, Step
<1>1. CASE \E j \in Jobs : Push(j)
  BY <1>1 DEF Push
<1>2. CASE SetShutdown
  BY <1>2 DEF SetShutdown
<1>3. CASE NotifyAll
  BY <1>3 DEF NotifyAll
<1>4. CASE \E w \in Workers : Wake(w)
  BY <1>4 DEF Wake
<1> QED BY <1>1, <1>2, <1>3, <1>4

LEMMA WorkerKeeps ==
  ASSUME PoolInv, NEW w \in Workers, WorkerStep(w) \/ SpuriousWakeup(w)
  PROVE  PoolInv'
<1> USE PoolAssumption
    DEF PoolInv, TypeOK, Roles, Owner, FlagOfShutdown, TestHolds, HasJob, NoLateSleeper,
        Threads, ListenerPC, WorkerPC, Locked, Move, Lock, Unlock, Step
<1>1. CASE WorkerLock(w)
  BY <1>1 DEF WorkerLock
<1>2. CASE Test(w)
  BY <1>2 DEF Test
<1>3. CASE Sleep(w)
  BY <1>3 DEF Sleep
<1>4. CASE Leave(w)
  BY <1>4 DEF Leave
<1>5. CASE Take(w)
  BY <1>5 DEF Take
<1>6. CASE TakeUnlock(w)
  BY <1>6 DEF TakeUnlock
<1>7. CASE Run(w)
  BY <1>7 DEF Run
<1>8. CASE SpuriousWakeup(w)
  BY <1>8 DEF SpuriousWakeup
<1> QED BY <1>1, <1>2, <1>3, <1>4, <1>5, <1>6, <1>7, <1>8 DEF WorkerStep

LEMMA NextKeeps == PoolInv /\ [Next]_vars => PoolInv'
<1> SUFFICES ASSUME PoolInv, [Next]_vars PROVE PoolInv'
  OBVIOUS
<1>1. CASE UNCHANGED vars
  BY <1>1 DEF vars, PoolInv, TypeOK, Roles, Owner, FlagOfShutdown, TestHolds, HasJob,
              NoLateSleeper
<1>2. CASE Next
  BY <1>2, ListenerMoveKeeps, ListenerActKeeps, WorkerKeeps
     DEF Next, ListenerStep, NotifyOne
<1> QED BY <1>1, <1>2

(* The types of ThreadPool's members and of the local fn are as declared.  *)
THEOREM TypeCorrect == Spec => []TypeOK
<1>1. PoolInv => TypeOK
  BY DEF PoolInv
<1> QED BY <1>1, InitPoolInv, NextKeeps, PTL DEF Spec

(* After notify_all in shutdown() no worker waits, so that all are joined. *)
THEOREM NobodySleepsOn == Spec => []NoLateSleeper
<1>1. PoolInv => NoLateSleeper
  BY DEF PoolInv
<1> QED BY <1>1, InitPoolInv, NextKeeps, PTL DEF Spec

-----------------------------------------------------------------------------
(***************************************************************************)
(* Refinement.                                                             *)
(***************************************************************************)
Gone == {w \in Workers : pc[w] \in {"leave", "gone"}}

LEMMA InitRefines == Init => JP!Init
BY PoolAssumption DEF Init, JP!Init, Threads

(* A step in which no worker decides to leave keeps Gone.                  *)
LEMMA SameGone ==
  ASSUME PoolInv, NEW t \in Threads, NEW from, NEW to, Step(t, from, to),
         from \in {"leave", "gone"} <=> to \in {"leave", "gone"}
  PROVE  Gone' = Gone
BY DEF PoolInv, TypeOK, Step, Gone, Threads

(* The steps of the listener.                                              *)
LEMMA ListenerRefines ==
  ASSUME PoolInv, Enqueue \/ Shutdown \/ ListenerStep
  PROVE  JP!Next \/ UNCHANGED JP!vars
<1>0. Listener \in Threads
  BY DEF Threads
<1>a. ASSUME UNCHANGED <<jobs, fn, shutdown>>, Gone' = Gone
      PROVE  UNCHANGED JP!vars
  BY <1>a DEF JP!vars, Gone
<1>1. CASE Enqueue \/ EnqueueLock \/ EnqueueUnlock \/ WakeNobody \/ Shutdown
             \/ ShutdownLock \/ ShutdownUnlock \/ Join
  BY <1>0, <1>1, <1>a, SameGone
     DEF Enqueue, EnqueueLock, EnqueueUnlock, WakeNobody, Shutdown, ShutdownLock,
         ShutdownUnlock, Join, Move, Lock, Unlock
<1>2. ASSUME NEW j \in Jobs, Push(j)
      PROVE  JP!Next
  <2>1. Gone' = Gone
    BY <1>0, <1>2, SameGone DEF Push
  <2>2. ~shutdown
    BY <1>2 DEF Push, Step, PoolInv, FlagOfShutdown
  <2>3. JP!Enqueue(j)
    BY <1>2, <2>1, <2>2 DEF Push, JP!Enqueue, Gone
  <2> QED BY <2>3 DEF JP!Next
<1>3. CASE SetShutdown
  <2>1. Gone' = Gone
    BY <1>0, <1>3, SameGone DEF SetShutdown
  <2>2. shutdown' = TRUE /\ UNCHANGED <<jobs, fn>>
    BY <1>3 DEF SetShutdown
  <2>3. JP!Close
    BY <2>1, <2>2 DEF JP!Close, Gone
  <2> QED BY <2>3 DEF JP!Next
<1>4. CASE NotifyAll
  <2>1. Gone' = Gone
    BY <1>4, PoolAssumption DEF NotifyAll, Gone, Threads
  <2> QED BY <1>4, <2>1, <1>a DEF NotifyAll
<1>5. ASSUME NEW w \in Workers, Wake(w)
      PROVE  UNCHANGED JP!vars
  <2>1. Gone' = Gone
    BY <1>5, PoolAssumption DEF Wake, Gone, PoolInv, TypeOK, Threads
  <2> QED BY <1>5, <2>1, <1>a DEF Wake
<1> QED
  BY <1>1, <1>2, <1>3, <1>4, <1>5 DEF ListenerStep, NotifyOne

(* The steps of a worker.                                                  *)
LEMMA WorkerRefines ==
  ASSUME PoolInv, NEW w \in Workers, WorkerStep(w) \/ SpuriousWakeup(w)
  PROVE  JP!Next \/ UNCHANGED JP!vars
<1>0. w \in Threads /\ TypeOK
  BY DEF Threads, PoolInv
<1>a. ASSUME UNCHANGED <<jobs, fn, shutdown>>, Gone' = Gone
      PROVE  UNCHANGED JP!vars
  BY <1>a DEF JP!vars, Gone
<1>1. CASE WorkerLock(w) \/ Sleep(w) \/ Leave(w) \/ TakeUnlock(w) \/ SpuriousWakeup(w)
  BY <1>0, <1>1, <1>a, SameGone
     DEF WorkerLock, Sleep, Leave, TakeUnlock, SpuriousWakeup, Move, Lock, Unlock
<1>2. CASE Test(w)
  <2>1. CASE Move(w, "test", "sleep") \/ Move(w, "test", "take")
    BY <1>0, <2>1, <1>a, SameGone DEF Move
  <2>2. CASE shutdown /\ jobs = <<>> /\ Move(w, "test", "leave")
    <3>1. Gone' = Gone \cup {w}
      BY <1>0, <2>2 DEF Move, Step, Gone, TypeOK
    <3>2. fn[w] = Null
      BY <2>2 DEF Move, Step, PoolInv, HasJob
    <3>3. JP!Leave(w)
      BY <2>2, <3>1, <3>2 DEF Move, JP!Leave, Gone
    <3> QED BY <3>3 DEF JP!Next, JP!Work
  <2> QED BY <1>2, <2>1, <2>2 DEF Test
<1>3. CASE Take(w)
  <2>1. Gone' = Gone /\ w \notin Gone
    BY <1>0, <1>3, SameGone DEF Take, Step, Gone
  <2>2. jobs # <<>> /\ fn[w] = Null
    BY <1>3 DEF Take, Step, PoolInv, TestHolds, HasJob
  <2>3. JP!Take(w)
    BY <1>3, <2>1, <2>2 DEF Take, JP!Take, Gone
  <2> QED BY <2>3 DEF JP!Next, JP!Work
<1>4. CASE Run(w)
  <2>1. Gone' = Gone
    BY <1>0, <1>4, SameGone DEF Run
  <2>2. fn[w] # Null
    BY <1>4 DEF Run, Step, PoolInv, HasJob
  <2>3. JP!Finish(w)
    BY <1>4, <2>1, <2>2 DEF Run, JP!Finish, Gone
  <2> QED BY <2>3 DEF JP!Next, JP!Work
<1> QED BY <1>1, <1>2, <1>3, <1>4 DEF WorkerStep

LEMMA StepRefines == PoolInv /\ [Next]_vars => [JP!Next]_(JP!vars)
<1>1. UNCHANGED vars => UNCHANGED JP!vars
  BY DEF vars, JP!vars
<1> QED BY <1>1, ListenerRefines, WorkerRefines DEF Next

(* The pool runs each job once, in the order of the calls of enqueue, and  *)
(* every job enqueued before shutdown() is taken before the workers end.   *)
THEOREM ImplementsJobPool == Spec => IsJobPool
BY InitPoolInv, NextKeeps, InitRefines, StepRefines, PTL DEF Spec, IsJobPool, JP!Spec
-----------------------------------------------------------------------------
(***************************************************************************)
(* No lost wakeup.                                                         *)
(***************************************************************************)
LEMMA Counts ==
  /\ IsFiniteSet(Awake) /\ Cardinality(Awake) \in Nat
  /\ Notifying \in {0, 1}
<1>1. Awake \in SUBSET Workers
  BY DEF Awake
<1>2. IsFiniteSet(Awake)
  BY <1>1, PoolAssumption, FS_Subset
<1> QED BY <1>2, FS_CardinalityType DEF Notifying

LEMMA CountsPrime == Cardinality(Awake') \in Nat /\ Notifying' \in {0, 1}
<1>1. Awake' \in SUBSET Workers
  BY DEF Awake
<1>2. IsFiniteSet(Awake')
  BY <1>1, PoolAssumption, FS_Subset
<1> QED BY <1>2, FS_CardinalityType DEF Notifying

(* With an empty list, or with nobody waiting, there is nothing to show.   *)
LEMMA NothingToWakeFor ==
  ASSUME jobs' = <<>> \/ Waiting' = {}
  PROVE  NoLostWakeup'
BY CountsPrime DEF NoLostWakeup

(* Steps that leave the list alone and take nobody from the two terms.     *)
LEMMA NobodyLostKeeps ==
  ASSUME TypeOK, NoLostWakeup, jobs' = jobs, Waiting' \subseteq Waiting,
         Notifying' = Notifying,
         Awake' = Awake \/ \E w \in Workers : Awake' = Awake \cup {w}
  PROVE  NoLostWakeup'
<1>1. Cardinality(Awake') >= Cardinality(Awake)
  <2>1. ASSUME NEW w
        PROVE  Cardinality(Awake \cup {w}) \in {Cardinality(Awake), Cardinality(Awake) + 1}
    BY Counts, FS_AddElement
  <2>2. Cardinality(Awake') \in {Cardinality(Awake), Cardinality(Awake) + 1}
    BY <2>1
  <2> QED BY <2>2, Counts
<1>2. Len(jobs) \in Nat
  BY DEF TypeOK
<1>3. Len(jobs) <= Cardinality(Awake) + Notifying
        => Len(jobs') <= Cardinality(Awake') + Notifying'
  BY <1>1, <1>2, Counts, CountsPrime
<1> QED BY <1>3 DEF NoLostWakeup

LEMMA ListenerKeepsWakeup ==
  ASSUME PoolInv, NoLostWakeup, Enqueue \/ Shutdown \/ ListenerStep
  PROVE  NoLostWakeup'
<1>0. TypeOK /\ Listener \notin Workers
  BY PoolAssumption DEF PoolInv
<1>a. ASSUME NEW from, NEW to, Step(Listener, from, to)
      PROVE  Awake' = Awake /\ Waiting' = Waiting
  BY <1>0, <1>a DEF Step, TypeOK, Awake, Waiting, Threads
<1>1. CASE Enqueue \/ EnqueueLock \/ EnqueueUnlock \/ Shutdown \/ ShutdownLock
             \/ SetShutdown \/ ShutdownUnlock \/ Join
  <2>1. Awake' = Awake /\ Waiting' = Waiting /\ jobs' = jobs
    BY <1>1, <1>a DEF Enqueue, EnqueueLock, EnqueueUnlock, Shutdown, ShutdownLock,
                      SetShutdown, ShutdownUnlock, Join, Move, Lock, Unlock
  <2>2. Notifying' = Notifying
    BY <1>0, <1>1 DEF Enqueue, EnqueueLock, EnqueueUnlock, Shutdown, ShutdownLock,
                      SetShutdown, ShutdownUnlock, Join, Move, Lock, Unlock, Step,
                      Notifying, TypeOK, Threads
  <2> QED BY <1>0, <2>1, <2>2, NobodyLostKeeps
<1>2. ASSUME NEW j \in Jobs, Push(j)
      PROVE  NoLostWakeup'
  <2>1. Awake' = Awake /\ Waiting' = Waiting
    BY <1>2, <1>a DEF Push
  <2>2. Notifying = 0 /\ Notifying' = 1
    BY <1>0, <1>2 DEF Push, Step, Notifying, TypeOK, Threads
  <2>3. Len(jobs) \in Nat /\ Len(jobs') = Len(jobs) + 1
    BY <1>0, <1>2 DEF Push, TypeOK
  <2>4. Len(jobs) <= Cardinality(Awake) + Notifying
          => Len(jobs') <= Cardinality(Awake') + Notifying'
    BY <2>1, <2>2, <2>3, Counts
  <2> QED BY <2>1, <2>4 DEF NoLostWakeup
<1>3. CASE WakeNobody
  <2>1. Waiting' = {}
    BY <1>3, <1>a DEF WakeNobody, Move, Waiting
  <2> QED BY <2>1, NothingToWakeFor
<1>4. ASSUME NEW w \in Workers, Wake(w)
      PROVE  NoLostWakeup'
  <2>1. w \notin Awake /\ Awake' = Awake \cup {w} /\ w \in Waiting
    BY <1>0, <1>4 DEF Wake, TypeOK, Awake, Waiting, Threads
  <2>2. Notifying = 1 /\ Notifying' = 0
    BY <1>0, <1>4 DEF Wake, TypeOK, Notifying, Threads
  <2>3. Cardinality(Awake') = Cardinality(Awake) + 1
    BY <2>1, Counts, FS_AddElement
  <2>4. Len(jobs) <= Cardinality(Awake) + Notifying
    BY <2>1 DEF NoLostWakeup
  <2>5. Len(jobs) \in Nat /\ jobs' = jobs
    BY <1>0, <1>4 DEF Wake, TypeOK
  <2>6. Len(jobs') <= Cardinality(Awake') + Notifying'
    BY <2>2, <2>3, <2>4, <2>5, Counts
  <2> QED BY <2>6 DEF NoLostWakeup
<1>5. CASE NotifyAll
  <2>1. Waiting' = {}
    BY <1>0, <1>5 DEF NotifyAll, Waiting, Threads
  <2> QED BY <2>1, NothingToWakeFor
<1> QED BY <1>1, <1>2, <1>3, <1>4, <1>5 DEF ListenerStep, NotifyOne

LEMMA WorkerKeepsWakeup ==
  ASSUME PoolInv, NoLostWakeup, NEW w \in Workers, WorkerStep(w) \/ SpuriousWakeup(w)
  PROVE  NoLostWakeup'
<1>0. TypeOK /\ w \in Threads /\ w # Listener
  BY PoolAssumption DEF PoolInv, Threads
<1>a. ASSUME NEW from, NEW to, Step(w, from, to)
      PROVE  /\ Awake' = IF to \in {"lock", "test", "take"} THEN Awake \cup {w}
                                                            ELSE Awake \ {w}
             /\ Waiting' = IF to = "waiting" THEN Waiting \cup {w} ELSE Waiting \ {w}
             /\ Notifying' = Notifying
  BY <1>0, <1>a DEF Step, TypeOK, Awake, Waiting, Notifying
<1>1. CASE WorkerLock(w) \/ TakeUnlock(w) \/ Leave(w) \/ Run(w) \/ SpuriousWakeup(w)
  <2>1. jobs' = jobs /\ Notifying' = Notifying /\ Waiting' \subseteq Waiting
    BY <1>1, <1>a DEF WorkerLock, TakeUnlock, Leave, Run, SpuriousWakeup, Move, Lock, Unlock
  <2>2. Awake' = Awake \/ Awake' = Awake \cup {w}
    BY <1>1, <1>a DEF WorkerLock, TakeUnlock, Leave, Run, SpuriousWakeup, Move, Lock, Unlock,
                      Step, Awake
  <2> QED BY <1>0, <2>1, <2>2, NobodyLostKeeps
<1>2. CASE Test(w)
  <2>1. CASE jobs = <<>>
    BY <1>2, <2>1, NothingToWakeFor DEF Test, Move
  <2>2. CASE Move(w, "test", "take")
    <3>1. jobs' = jobs /\ Notifying' = Notifying /\ Waiting' \subseteq Waiting
      BY <2>2, <1>a DEF Move
    <3>2. Awake' = Awake \cup {w}
      BY <2>2, <1>a DEF Move
    <3> QED BY <1>0, <3>1, <3>2, NobodyLostKeeps
  <2> QED BY <1>2, <2>1, <2>2 DEF Test
<1>3. CASE Sleep(w)
  <2>1. jobs' = <<>>
    BY <1>3 DEF Sleep, Unlock, Step, PoolInv, TestHolds
  <2> QED BY <2>1, NothingToWakeFor
<1>4. CASE Take(w)
  <2>0. /\ Awake' = Awake \ {w} /\ Waiting' = Waiting \ {w}
        /\ Notifying' = Notifying
    BY <1>4, <1>a DEF Take
  <2>1. /\ w \in Awake /\ Awake' = Awake \ {w}
        /\ Waiting' \subseteq Waiting /\ Notifying' = Notifying
    BY <2>0, <1>4 DEF Take, Step, Awake
  <2>2. Cardinality(Awake') = Cardinality(Awake) - 1
    BY <2>1, Counts, FS_RemoveElement
  <2>3. Len(jobs) \in Nat /\ Len(jobs') = Len(jobs) - 1
    BY <1>0, <1>4 DEF Take, Step, PoolInv, TestHolds, TypeOK
  <2>4. Len(jobs) <= Cardinality(Awake) + Notifying
          => Len(jobs') <= Cardinality(Awake') + Notifying'
    BY <2>1, <2>2, <2>3, Counts
  <2> QED BY <2>1, <2>4 DEF NoLostWakeup
<1> QED BY <1>1, <1>2, <1>3, <1>4 DEF WorkerStep

LEMMA NextKeepsWakeup == PoolInv /\ NoLostWakeup /\ [Next]_vars => NoLostWakeup'
<1>1. NoLostWakeup /\ UNCHANGED vars => NoLostWakeup'
  BY DEF vars, NoLostWakeup, Waiting, Awake, Notifying
<1> QED BY <1>1, ListenerKeepsWakeup, WorkerKeepsWakeup DEF Next

(* No job stays in the list while a worker waits and nobody has been, or   *)
(* is about to be, woken to take it, although enqueue() notifies only      *)
(* after it has released the mutex.                                        *)
THEOREM WakeupNeverLost == Spec => []NoLostWakeup
<1>1. Init => NoLostWakeup
  BY PoolAssumption DEF Init, NoLostWakeup, Waiting, Threads
<1> QED BY <1>1, InitPoolInv, NextKeeps, NextKeepsWakeup, PTL DEF Spec
=============================================================================
