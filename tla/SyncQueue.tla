----------------------------- MODULE SyncQueue ------------------------------
(***************************************************************************)
(* Server::SyncQueue of examples/server/server.cc, which carries the       *)
(* answers of one chat from the engine's callback to the HTTP handler: a   *)
(* mutex, a condition variable and a std::queue.                           *)
(*                                                                         *)
(* pc says where each thread is in push or wait_and_pop; a thread in       *)
(* neither is "out".  The condition variable needs no variable: the        *)
(* threads that it holds are those at "waiting".                           *)
(***************************************************************************)
EXTENDS Integers, Sequences, FiniteSets

CONSTANTS
  Threads,   \* the threads that use the queue
  Writers,   \* those that push
  Readers,   \* those that call wait_and_pop
  Answers,   \* what is pushed
  MaxPushes, \* bound: no push begins once this many answers were put in q
  Null       \* no thread, no answer

ASSUME ThreadsAssumption ==
  /\ Writers \subseteq Threads
  /\ Readers \subseteq Threads
  /\ IsFiniteSet(Threads)
  /\ Null \notin Threads
  /\ Null \notin Answers
ASSUME PushesAssumption == MaxPushes \in Nat

VARIABLES
  mtx,    \* the owner of the mutex
  q,      \* the contents of the queue
  pc,     \* where each thread is
  val,    \* its argument p in push, its local res in wait_and_pop
  popped  \* the answers removed from q so far, in order

vars == <<mtx, q, pc, val, popped>>

PushPC == {"push_lock", "push", "notify", "push_unlock"}
PopPC == {"pop_lock", "test", "waiting", "front", "pop", "pop_unlock"}
PCs == {"out"} \cup PushPC \cup PopPC
Locked == {"push", "notify", "push_unlock", "test", "front", "pop", "pop_unlock"}

Init ==
  /\ mtx = Null
  /\ q = <<>>
  /\ pc = [t \in Threads |-> "out"]
  /\ val = [t \in Threads |-> Null]
  /\ popped = <<>>

Step(t, from, to) == pc[t] = from /\ pc' = [pc EXCEPT ![t] = to]

(* std::unique_lock's constructor and destructor.                          *)
Lock(t, from, to) ==
  /\ Step(t, from, to)
  /\ mtx = Null
  /\ mtx' = t
  /\ UNCHANGED <<q, val, popped>>
Unlock(t, from, to) ==
  /\ Step(t, from, to)
  /\ mtx' = Null
  /\ UNCHANGED <<q, val, popped>>
-----------------------------------------------------------------------------
(* push(p)                                                                 *)
Push(t, a) ==
  /\ Step(t, "out", "push_lock")
  /\ val' = [val EXCEPT ![t] = a]
  /\ UNCHANGED <<mtx, q, popped>>

PushLock(t) == Lock(t, "push_lock", "push")

(* Mutant: the newest answer is put first.                                 *)
PushFirst(t) ==
  /\ Step(t, "push", "notify")
  /\ q' = <<val[t]>> \o q
  /\ UNCHANGED <<mtx, val, popped>>
PushItem(t) ==
  /\ Step(t, "push", "notify")
  /\ q' = Append(q, val[t])
  /\ UNCHANGED <<mtx, val, popped>>

(* cond.notify_one() wakes one waiting thread, any one, if there are some; *)
(* a thread that is woken locks the mutex again.  Mutant: the threads are  *)
(* notified only when the queue was empty.                                 *)
NotifyFirstOnly(t) ==
  /\ pc[t] = "notify"
  /\ \/ /\ Len(q) = 1
        /\ \E w \in Threads :
             /\ pc[w] = "waiting"
             /\ pc' = [pc EXCEPT ![t] = "push_unlock", ![w] = "pop_lock"]
     \/ /\ Len(q) = 1 => \A w \in Threads : pc[w] # "waiting"
        /\ pc' = [pc EXCEPT ![t] = "push_unlock"]
  /\ UNCHANGED <<mtx, q, val, popped>>
NotifyOne(t) ==
  /\ pc[t] = "notify"
  /\ \/ \E w \in Threads :
          /\ pc[w] = "waiting"
          /\ pc' = [pc EXCEPT ![t] = "push_unlock", ![w] = "pop_lock"]
     \/ /\ \A w \in Threads : pc[w] # "waiting"
        /\ pc' = [pc EXCEPT ![t] = "push_unlock"]
  /\ UNCHANGED <<mtx, q, val, popped>>

PushUnlock(t) == Unlock(t, "push_unlock", "out")
-----------------------------------------------------------------------------
(* wait_and_pop()                                                          *)
WaitAndPop(t) ==
  /\ Step(t, "out", "pop_lock")
  /\ UNCHANGED <<mtx, q, val, popped>>

(* Mutant: without the mutex.                                              *)
PopWithoutLock(t) ==
  /\ Step(t, "pop_lock", "test")
  /\ UNCHANGED <<mtx, q, val, popped>>
PopLock(t) == Lock(t, "pop_lock", "test")

(* cond.wait(l, predicate): the predicate is tested; if it is false, the   *)
(* mutex is released and the thread waits, in one step.  Mutant: the front *)
(* is not copied before the pop.                                           *)
TestThenPop(t) ==
  \/ /\ q # <<>>
     /\ Step(t, "test", "pop")
     /\ UNCHANGED <<mtx, q, val, popped>>
  \/ /\ q = <<>>
     /\ Unlock(t, "test", "waiting")
Test(t) ==
  \/ /\ q # <<>>
     /\ Step(t, "test", "front")
     /\ UNCHANGED <<mtx, q, val, popped>>
  \/ /\ q = <<>>
     /\ Unlock(t, "test", "waiting")

(* A wait may also end by itself; the predicate is tested again.           *)
SpuriousWakeup(t) ==
  /\ Step(t, "waiting", "pop_lock")
  /\ UNCHANGED <<mtx, q, val, popped>>

(* auto res = q.front();                                                   *)
Front(t) ==
  /\ Step(t, "front", "pop")
  /\ val' = [val EXCEPT ![t] = Head(q)]
  /\ UNCHANGED <<mtx, q, popped>>

(* q.pop(); the answer is now the caller's.                                *)
PopItem(t) ==
  /\ Step(t, "pop", "pop_unlock")
  /\ q' = Tail(q)
  /\ popped' = Append(popped, val[t])
  /\ UNCHANGED <<mtx, val>>

PopUnlock(t) == Unlock(t, "pop_unlock", "out")
-----------------------------------------------------------------------------
(* What a thread does once it has entered push or wait_and_pop.            *)
PushStep(t) == PushLock(t) \/ PushItem(t) \/ NotifyOne(t) \/ PushUnlock(t)
PopStep(t) ==
  PopLock(t) \/ Test(t) \/ Front(t) \/ PopItem(t) \/ PopUnlock(t)

Enter(t) ==
  \/ /\ t \in Writers
     /\ Len(popped) + Len(q) < MaxPushes
     /\ \E a \in Answers : Push(t, a)
  \/ t \in Readers /\ WaitAndPop(t)

Next ==
  \E t \in Threads : Enter(t) \/ PushStep(t) \/ PopStep(t) \/ SpuriousWakeup(t)

Spec == Init /\ [][Next]_vars

(* A thread in push or wait_and_pop takes a step when it can: a thread     *)
(* that waits for the mutex need not ever get it while others keep taking  *)
(* it.  Nobody has to enter, and no wait has to end by itself.             *)
Fairness == \A t \in Threads : WF_vars(PushStep(t) \/ PopStep(t))
FairSpec == Spec /\ Fairness
-----------------------------------------------------------------------------
(* Every variable has its type.                                            *)
TypeOK ==
  /\ mtx \in Threads \cup {Null}
  /\ q \in Seq(Answers)
  /\ pc \in [Threads -> PCs]
  /\ val \in [Threads -> Answers \cup {Null}]
  /\ popped \in Seq(Answers)

(* front() and pop() are about the same answer, and there is one: the      *)
(* answer that a caller has copied is still the oldest when it is removed, *)
(* so no answer is given twice and none is thrown away.                    *)
FrontIsPopped ==
  \A t \in Threads :
    /\ pc[t] \in {"front", "pop"} => q # <<>>
    /\ pc[t] = "pop" => val[t] = Head(q)

Waiting == {t \in Threads : pc[t] = "waiting"}
Awake == {t \in Threads : pc[t] \in {"pop_lock", "test", "front", "pop"}}
Notifying == {t \in Threads : pc[t] = "notify"}

(* While a thread waits, every answer in the queue has a thread awake that *)
(* will take it or a push that is about to wake one.                       *)
NoLostWakeup ==
  Waiting # {} => Len(q) <= Cardinality(Awake) + Cardinality(Notifying)

(* A SyncQueue is the queue that its users see: calls take effect one at a *)
(* time, in first-in first-out order; and a caller that waits while there  *)
(* is an answer gets it.                                                   *)
AQ == INSTANCE AnswerQueue WITH
        items <- q, taken <- popped,
        asking <- {t \in Threads : pc[t] \in PopPC \ {"pop_unlock"}}

IsAnswerQueue == AQ!Spec
ServesEveryCaller == AQ!FairSpec
=============================================================================
