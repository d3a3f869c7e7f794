-------------------------- MODULE SyncQueue_proofs --------------------------
(***************************************************************************)
(* Theorems about SyncQueue, for any number of threads and of pushes.      *)
(***************************************************************************)
EXTENDS SyncQueue, FiniteSetTheorems, TLAPS

(* A thread inside a critical section owns the mutex.                      *)
Owner == \A t \in Threads : pc[t] \in Locked => mtx = t

(* A thread on its way to q.push has an answer to push.                    *)
HasAnswer == \A t \in Threads : pc[t] \in {"push_lock", "push"} => val[t] \in Answers

(* The inductive invariant.                                                *)
QueueInv == TypeOK /\ Owner /\ HasAnswer /\ FrontIsPopped

-----------------------------------------------------------------------------
LEMMA InitQueueInv == Init => QueueInv
BY DEF Init, QueueInv, TypeOK, Owner, HasAnswer, FrontIsPopped, PCs, Locked

(* Locks and unlocks.                                                      *)
LEMMA LockKeeps ==
  ASSUME QueueInv, NEW t \in Threads,
         PushLock(t) \/ PopLock(t) \/ PushUnlock(t) \/ PopUnlock(t)
  PROVE  QueueInv'
BY ThreadsAssumption DEF QueueInv, TypeOK, Owner, HasAnswer, FrontIsPopped, PCs, PushPC,
   PopPC, Locked, PushLock, PopLock, PushUnlock, PopUnlock, Lock, Unlock, Step

(* The steps that only enter, test, or wake up.                            *)
LEMMA MoveKeeps ==
  ASSUME QueueInv, NEW t \in Threads,
         WaitAndPop(t) \/ Test(t) \/ SpuriousWakeup(t) \/ NotifyOne(t)
           \/ \E a \in Answers : Push(t, a)
  PROVE  QueueInv'
<1> USE DEF QueueInv, TypeOK, Owner, HasAnswer, FrontIsPopped, PCs, PushPC, PopPC,
            Locked
<1>1. CASE WaitAndPop(t)
  BY <1>1 DEF WaitAndPop, Step
<1>2. CASE Test(t)
  BY <1>2, ThreadsAssumption DEF Test, Unlock, Step
<1>3. CASE SpuriousWakeup(t)
  BY <1>3 DEF SpuriousWakeup, Step
<1>4. CASE NotifyOne(t)
  BY <1>4 DEF NotifyOne
<1>5. CASE \E a \in Answers : Push(t, a)
  BY <1>5 DEF Push, Step
<1> QED BY <1>1, <1>2, <1>3, <1>4, <1>5

(* The steps on the queue itself, by the owner of the mutex.               *)
LEMMA ItemKeeps ==
  ASSUME QueueInv, NEW t \in Threads, PushItem(t) \/ Front(t) \/ PopItem(t)
  PROVE  QueueInv'
<1> USE DEF QueueInv, TypeOK, Owner, HasAnswer, FrontIsPopped, PCs, PushPC, PopPC,
            Locked
<1>1. CASE PushItem(t)
  BY <1>1 DEF PushItem, Step
<1>2. CASE Front(t)
  BY <1>2 DEF Front, Step
<1>3. CASE PopItem(t)
  BY <1>3 DEF PopItem, Step
<1> QED BY <1>1, <1>2, <1>3

LEMMA NextKeeps == QueueInv /\ [Next]_vars => QueueInv'
<1> SUFFICES ASSUME QueueInv, [Next]_vars PROVE QueueInv'
  OBVIOUS
<1>1. CASE UNCHANGED vars
  BY <1>1 DEF vars, QueueInv, TypeOK, Owner, HasAnswer, FrontIsPopped
<1>2. CASE Next
  <2> PICK t \in Threads : Enter(t) \/ PushStep(t) \/ PopStep(t) \/ SpuriousWakeup(t)
    BY <1>2 DEF Next
  <2> QED
    BY LockKeeps, MoveKeeps, ItemKeeps DEF Enter, PushStep, PopStep
<1> QED BY <1>1, <1>2

(* The types are as declared (types of SyncQueue's members and locals).    *)
THEOREM TypeCorrect == Spec => []TypeOK
<1>1. QueueInv => TypeOK
  BY DEF QueueInv
<1> QED BY <1>1, InitQueueInv, NextKeeps, PTL DEF Spec

(* wait_and_pop's front() and pop() are about the same answer.             *)
THEOREM NothingPoppedTwice == Spec => []FrontIsPopped
<1>1. QueueInv => FrontIsPopped
  BY DEF QueueInv
<1> QED BY <1>1, InitQueueInv, NextKeeps, PTL DEF Spec

-----------------------------------------------------------------------------
(***************************************************************************)
(* Refinement.                                                             *)
(***************************************************************************)
Asking == {t \in Threads : pc[t] \in PopPC \ {"pop_unlock"}}

LEMMA InitRefines == Init => AQ!Init
BY DEF Init, AQ!Init, PopPC

(* Steps in which no thread begins or ends its asking are stutters.        *)
LEMMA SameAsking ==
  ASSUME TypeOK,
         NEW t \in Threads, NEW from \in PCs, NEW to \in PCs, Step(t, from, to),
         from \in PopPC \ {"pop_unlock"} <=> to \in PopPC \ {"pop_unlock"}
  PROVE  Asking' = Asking
BY DEF TypeOK, Step, Asking

LEMMA NotifySameAsking ==
  ASSUME TypeOK, NEW t \in Threads, NotifyOne(t)
  PROVE  Asking' = Asking
BY DEF TypeOK, NotifyOne, Asking, PopPC

LEMMA StepRefines == QueueInv /\ [Next]_vars => [AQ!Next]_(AQ!vars)
<1> SUFFICES ASSUME QueueInv, [Next]_vars PROVE AQ!Next \/ UNCHANGED AQ!vars
  OBVIOUS
<1> USE DEF PCs, PushPC, PopPC
<1>0. TypeOK /\ HasAnswer /\ FrontIsPopped
  BY DEF QueueInv
<1>a. Asking' = Asking /\ q' = q /\ popped' = popped => UNCHANGED AQ!vars
  BY DEF AQ!vars, Asking
<1>1. CASE UNCHANGED vars
  BY <1>1, <1>a DEF vars, Asking
<1>2. ASSUME NEW t \in Threads, NEW a \in Answers, Push(t, a)
      PROVE  AQ!Next \/ UNCHANGED AQ!vars
  BY <1>2, <1>0, <1>a, SameAsking DEF Push
<1>3. ASSUME NEW t \in Threads, WaitAndPop(t)
      PROVE  AQ!Next \/ UNCHANGED AQ!vars
  <2>1. t \notin Asking /\ Asking' = Asking \cup {t}
    BY <1>3, <1>0 DEF WaitAndPop, Step, TypeOK, Asking
  <2>2. AQ!Ask(t)
    BY <2>1, <1>3 DEF WaitAndPop, AQ!Ask, Asking
  <2> QED BY <2>2 DEF AQ!Next
<1>4. ASSUME NEW t \in Threads, PushItem(t)
      PROVE  AQ!Next \/ UNCHANGED AQ!vars
  <2>1. Asking' = Asking
    BY <1>4, <1>0, SameAsking DEF PushItem
  <2>2. val[t] \in Answers
    BY <1>4, <1>0 DEF PushItem, Step, HasAnswer
  <2>3. AQ!Put(val[t])
    BY <2>1, <1>4 DEF PushItem, AQ!Put, Asking
  <2> QED BY <2>2, <2>3 DEF AQ!Next
<1>5. ASSUME NEW t \in Threads, PopItem(t)
      PROVE  AQ!Next \/ UNCHANGED AQ!vars
  <2>1. t \in Asking /\ Asking' = Asking \ {t}
    BY <1>5, <1>0 DEF PopItem, Step, TypeOK, Asking
  <2>2. q # <<>> /\ val[t] = Head(q)
    BY <1>5, <1>0 DEF PopItem, Step, FrontIsPopped
  <2>3. AQ!Get(t)
    BY <2>1, <2>2, <1>5 DEF PopItem, AQ!Get, Asking
  <2> QED BY <2>3 DEF AQ!Next
<1>6. ASSUME NEW t \in Threads,
             PushLock(t) \/ PopLock(t) \/ PushUnlock(t) \/ PopUnlock(t)
      PROVE  AQ!Next \/ UNCHANGED AQ!vars
  BY <1>6, <1>0, <1>a, SameAsking
     DEF PushLock, PopLock, PushUnlock, PopUnlock, Lock, Unlock
<1>7. ASSUME NEW t \in Threads, Test(t) \/ Front(t) \/ SpuriousWakeup(t)
      PROVE  AQ!Next \/ UNCHANGED AQ!vars
  BY <1>7, <1>0, <1>a, SameAsking DEF Test, Front, SpuriousWakeup, Unlock
<1>8. ASSUME NEW t \in Threads, NotifyOne(t)
      PROVE  AQ!Next \/ UNCHANGED AQ!vars
  BY <1>8, <1>0, <1>a, NotifySameAsking DEF NotifyOne
<1> QED
  BY <1>1, <1>2, <1>3, <1>4, <1>5, <1>6, <1>7, <1>8
     DEF Next, Enter, PushStep, PopStep

(* A SyncQueue behaves as a queue whose operations are atomic.             *)
THEOREM ImplementsAnswerQueue == Spec => IsAnswerQueue
BY InitQueueInv, NextKeeps, InitRefines, StepRefines, PTL
   DEF Spec, IsAnswerQueue, AQ!Spec
-----------------------------------------------------------------------------
(***************************************************************************)
(* No lost wakeup.                                                         *)
(***************************************************************************)
AwakePC == {"pop_lock", "test", "front", "pop"}

LEMMA FiniteSets ==
  /\ IsFiniteSet(Awake) /\ Cardinality(Awake) \in Nat
  /\ IsFiniteSet(Notifying) /\ Cardinality(Notifying) \in Nat
<1>1. Awake \in SUBSET Threads /\ Notifying \in SUBSET Threads
  BY DEF Awake, Notifying
<1>2. IsFiniteSet(Awake) /\ IsFiniteSet(Notifying)
  BY <1>1, ThreadsAssumption, FS_Subset
<1> QED BY <1>2, FS_CardinalityType

(* How a step of thread t changes the three sets.                          *)
LEMMA StepSets ==
  ASSUME TypeOK, NEW t \in Threads, NEW from \in PCs, NEW to \in PCs,
         Step(t, from, to)
  PROVE  /\ Awake' = IF to \in AwakePC THEN Awake \cup {t} ELSE Awake \ {t}
         /\ Notifying' = IF to = "notify" THEN Notifying \cup {t}
                                          ELSE Notifying \ {t}
         /\ Waiting' = IF to = "waiting" THEN Waiting \cup {t} ELSE Waiting \ {t}
BY DEF TypeOK, Step, Awake, Notifying, Waiting, AwakePC

(* A step neither to "waiting" nor on q, by which t does not stop being    *)
(* awake or about to notify.                                               *)
LEMMA OtherStepKeeps ==
  ASSUME TypeOK, NoLostWakeup, q' = q,
         NEW t \in Threads, NEW from \in PCs, NEW to \in PCs, Step(t, from, to),
         to # "waiting", from # "notify", to # "notify",
         from \in AwakePC => to \in AwakePC
  PROVE  NoLostWakeup'
<1>1. Notifying' = Notifying
  BY StepSets DEF Step, Notifying
<1>2. Waiting' \subseteq Waiting
  BY StepSets
<1>3. Awake' = Awake \/ Awake' = Awake \cup {t}
  BY StepSets DEF Step, Awake, AwakePC
<1>4. Cardinality(Awake') \in Nat /\ Cardinality(Awake) <= Cardinality(Awake')
  <2>1. Cardinality(Awake \cup {t}) \in {Cardinality(Awake), Cardinality(Awake) + 1}
    BY FiniteSets, FS_AddElement
  <2>2. Cardinality(Awake') \in {Cardinality(Awake), Cardinality(Awake) + 1}
    BY <1>3, <2>1
  <2> QED BY <2>2, FiniteSets
<1>5. Cardinality(Notifying') = Cardinality(Notifying) /\ Len(q') = Len(q)
  BY <1>1
<1>6. CASE Waiting' = {}
  BY <1>6 DEF NoLostWakeup
<1>7. CASE Waiting' # {}
  <2>1. Len(q) <= Cardinality(Awake) + Cardinality(Notifying)
    BY <1>2, <1>7 DEF NoLostWakeup
  <2>2. Len(q) \in Nat
    BY DEF TypeOK
  <2>3. Len(q') <= Cardinality(Awake') + Cardinality(Notifying')
    BY <2>1, <2>2, <1>4, <1>5, FiniteSets
  <2> QED BY <2>3 DEF NoLostWakeup
<1> QED BY <1>6, <1>7

LEMMA PushItemKeepsWakeup ==
  ASSUME QueueInv, NoLostWakeup, NEW t \in Threads, PushItem(t)
  PROVE  NoLostWakeup'
<1>0. TypeOK /\ HasAnswer
  BY DEF QueueInv
<1>1. /\ Awake' = Awake \ {t} /\ t \notin Awake
      /\ Notifying' = Notifying \cup {t} /\ t \notin Notifying
      /\ Waiting' \subseteq Waiting
  BY <1>0, StepSets DEF PushItem, PCs, PushPC, AwakePC, Step, Awake, Notifying
<1>2. Awake' = Awake
  BY <1>1
<1>3. Cardinality(Notifying') = Cardinality(Notifying) + 1
  BY <1>1, FiniteSets, FS_AddElement
<1>4. Len(q') = Len(q) + 1 /\ Len(q) \in Nat
  BY <1>0 DEF PushItem, Step, HasAnswer, TypeOK
<1>5. ASSUME Len(q) <= Cardinality(Awake) + Cardinality(Notifying)
      PROVE  Len(q') <= Cardinality(Awake') + Cardinality(Notifying')
  BY <1>2, <1>3, <1>4, <1>5, FiniteSets
<1> QED
  BY <1>1, <1>5 DEF NoLostWakeup

LEMMA PopItemKeepsWakeup ==
  ASSUME QueueInv, NoLostWakeup, NEW t \in Threads, PopItem(t)
  PROVE  NoLostWakeup'
<1>0. TypeOK /\ FrontIsPopped
  BY DEF QueueInv
<1>1. /\ Awake' = Awake \ {t} /\ t \in Awake
      /\ Notifying' = Notifying \ {t} /\ t \notin Notifying
      /\ Waiting' \subseteq Waiting
  <2>1. /\ Awake' = Awake \ {t}
        /\ Notifying' = Notifying \ {t}
        /\ Waiting' = Waiting \ {t}
    BY <1>0, StepSets DEF PopItem, PCs, PopPC, AwakePC
  <2>2. t \in Awake /\ t \notin Notifying
    BY DEF PopItem, Step, Awake, Notifying
  <2> QED BY <2>1, <2>2
<1>2. Notifying' = Notifying
  BY <1>1
<1>3. Cardinality(Awake') = Cardinality(Awake) - 1
  BY <1>1, FiniteSets, FS_RemoveElement
<1>4. Len(q') = Len(q) - 1 /\ Len(q) \in Nat
  BY <1>0 DEF PopItem, Step, FrontIsPopped, TypeOK
<1>5. ASSUME Len(q) <= Cardinality(Awake) + Cardinality(Notifying)
      PROVE  Len(q') <= Cardinality(Awake') + Cardinality(Notifying')
  BY <1>2, <1>3, <1>4, <1>5, FiniteSets
<1> QED
  BY <1>1, <1>5 DEF NoLostWakeup

(* notify_one wakes a thread if one waits: the notifier's place in the sum *)
(* goes to it.                                                             *)
LEMMA NotifyKeepsWakeup ==
  ASSUME QueueInv, NoLostWakeup, NEW t \in Threads, NotifyOne(t)
  PROVE  NoLostWakeup'
<1>0. TypeOK /\ q' = q
  BY DEF QueueInv, NotifyOne
<1>1. CASE \A w \in Threads : pc[w] # "waiting"
  <2>1. Waiting' = {}
    BY <1>0, <1>1 DEF NotifyOne, TypeOK, Waiting
  <2> QED BY <2>1 DEF NoLostWakeup
<1>2. ASSUME NEW w \in Threads, pc[w] = "waiting",
             pc' = [pc EXCEPT ![t] = "push_unlock", ![w] = "pop_lock"]
      PROVE  NoLostWakeup'
  <2>1. /\ Awake' = Awake \cup {w} /\ w \notin Awake
        /\ Notifying' = Notifying \ {t} /\ t \in Notifying
        /\ w \in Waiting
    BY <1>0, <1>2 DEF NotifyOne, TypeOK, Awake, Notifying, Waiting
  <2>2. Cardinality(Awake') = Cardinality(Awake) + 1
    BY <2>1, FiniteSets, FS_AddElement
  <2>3. Cardinality(Notifying') = Cardinality(Notifying) - 1
    BY <2>1, FiniteSets, FS_RemoveElement
  <2>4. Len(q) <= Cardinality(Awake) + Cardinality(Notifying)
    BY <2>1 DEF NoLostWakeup
  <2> QED BY <2>2, <2>3, <2>4, <1>0, FiniteSets DEF NoLostWakeup
<1> QED BY <1>1, <1>2 DEF NotifyOne

(* A thread begins to wait only when the queue is empty.                   *)
LEMMA TestKeepsWakeup ==
  ASSUME QueueInv, NoLostWakeup, NEW t \in Threads, Test(t)
  PROVE  NoLostWakeup'
<1>0. TypeOK
  BY DEF QueueInv
<1>1. CASE q = <<>>
  <2>1. Len(q') = 0
    BY <1>1 DEF Test, Unlock
  <2>2. Cardinality(Awake') \in Nat /\ Cardinality(Notifying') \in Nat
    <3>1. Awake' \in SUBSET Threads /\ Notifying' \in SUBSET Threads
      BY DEF Awake, Notifying
    <3> QED BY <3>1, ThreadsAssumption, FS_Subset, FS_CardinalityType
  <2> QED BY <2>1, <2>2 DEF NoLostWakeup
<1>2. CASE q # <<>>
  BY <1>0, <1>2, OtherStepKeeps DEF Test, PCs, PopPC, AwakePC
<1> QED BY <1>1, <1>2

LEMMA NextKeepsWakeup ==
  QueueInv /\ NoLostWakeup /\ [Next]_vars => NoLostWakeup'
<1> SUFFICES ASSUME QueueInv, NoLostWakeup, [Next]_vars PROVE NoLostWakeup'
  OBVIOUS
<1>0. TypeOK
  BY DEF QueueInv
<1>1. CASE UNCHANGED vars
  BY <1>1 DEF vars, NoLostWakeup, Waiting, Awake, Notifying
<1>2. ASSUME NEW t \in Threads, Enter(t)
      PROVE  NoLostWakeup'
  BY <1>2, <1>0, OtherStepKeeps
     DEF Enter, Push, WaitAndPop, PCs, PushPC, PopPC, AwakePC
<1>3. ASSUME NEW t \in Threads,
             PushLock(t) \/ PopLock(t) \/ PushUnlock(t) \/ PopUnlock(t)
      PROVE  NoLostWakeup'
  BY <1>3, <1>0, OtherStepKeeps
     DEF PushLock, PopLock, PushUnlock, PopUnlock, Lock, Unlock, PCs, PushPC, PopPC,
         AwakePC
<1>4. ASSUME NEW t \in Threads, Front(t) \/ SpuriousWakeup(t)
      PROVE  NoLostWakeup'
  BY <1>4, <1>0, OtherStepKeeps DEF Front, SpuriousWakeup, PCs, PopPC, AwakePC
<1> QED
  BY <1>1, <1>2, <1>3, <1>4, PushItemKeepsWakeup, PopItemKeepsWakeup,
     NotifyKeepsWakeup, TestKeepsWakeup DEF Next, PushStep, PopStep

(* No answer stays in the queue while a thread waits and nobody has been,  *)
(* or is about to be, woken to take it.                                    *)
THEOREM WakeupNeverLost == Spec => []NoLostWakeup
<1>1. Init => NoLostWakeup
  BY DEF Init, NoLostWakeup, Waiting
<1> QED
  BY <1>1, InitQueueInv, NextKeeps, NextKeepsWakeup, PTL DEF Spec
=============================================================================
