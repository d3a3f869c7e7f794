---------------------------- MODULE ChatService -----------------------------
(***************************************************************************)
(* What the engine promises to the callers of HandleChatCompletion: a chat *)
(* is refused at once or accepted; accepted chats wait in line, in the     *)
(* order of their acceptance; only the first in line is being answered; it *)
(* gets chunks and then one last answer, which removes it from the line.   *)
(* No queue, thread or model appears here.                                 *)
(***************************************************************************)
EXTENDS Sequences

CONSTANT Requests   \* the calls of HandleChatCompletion, each made once

VARIABLES
  line,     \* the accepted chats that have not had their last answer
  replies   \* the answers each chat has had, oldest first

vars == <<line, replies>>

LastAnswers == {"stop", "full", "cut", "failed"}

Init ==
  /\ line = <<>>
  /\ replies = [r \in Requests |-> <<>>]

New(r) == replies[r] = <<>> /\ \A i \in DOMAIN line : line[i] # r

Accept(r) ==
  /\ New(r)
  /\ line' = Append(line, r)
  /\ UNCHANGED replies

Refuse(r) ==
  /\ New(r)
  /\ replies' = [replies EXCEPT ![r] = <<"refused">>]
  /\ UNCHANGED line

Chunk ==
  /\ line # <<>>
  /\ replies' = [replies EXCEPT ![Head(line)] = Append(@, "chunk")]
  /\ UNCHANGED line

Close(a) ==
  /\ line # <<>>
  /\ replies' = [replies EXCEPT ![Head(line)] = Append(@, a)]
  /\ line' = Tail(line)

Next ==
  \/ \E r \in Requests : Accept(r) \/ Refuse(r)
  \/ Chunk
  \/ \E a \in LastAnswers : Close(a)

Spec == Init /\ [][Next]_vars
=============================================================================
