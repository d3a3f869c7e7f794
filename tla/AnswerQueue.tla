---------------------------- MODULE AnswerQueue -----------------------------
(***************************************************************************)
(* What Server::SyncQueue promises its users: a queue of answers, in which *)
(* a push is one step, and a wait_and_pop waits until there is an answer   *)
(* and takes the oldest, each answer going to one caller only.             *)
(***************************************************************************)
EXTENDS Sequences

CONSTANTS Threads, Answers

VARIABLES
  items,    \* the answers in the queue, oldest first
  asking,   \* the threads inside wait_and_pop that have no answer yet
  taken     \* the answers given so far, in the order they were given

vars == <<items, asking, taken>>

Init == items = <<>> /\ asking = {} /\ taken = <<>>

Put(a) == items' = Append(items, a) /\ UNCHANGED <<asking, taken>>

Ask(t) ==
  /\ t \notin asking
  /\ asking' = asking \cup {t}
  /\ UNCHANGED <<items, taken>>

Get(t) ==
  /\ t \in asking
  /\ items # <<>>
  /\ items' = Tail(items)
  /\ taken' = Append(taken, Head(items))
  /\ asking' = asking \ {t}

Next ==
  \/ \E a \in Answers : Put(a)
  \/ \E t \in Threads : Ask(t) \/ Get(t)

Spec == Init /\ [][Next]_vars

(* An answer does not stay in the queue while somebody waits for it.       *)
FairSpec == Spec /\ WF_vars(\E t \in Threads : Get(t))
=============================================================================
