----------------------------- MODULE ChatPrompt -----------------------------
(***************************************************************************)
(* The prompt of a chat: the loop of OnnxEngine::HandleChatCompletion over *)
(* the messages of a request, which keeps the last of them, as many as     *)
(* max_history_chat_ allows.  Meanwhile the task of an earlier chat may    *)
(* restart a slow model and halve max_history_chat_.                       *)
(*                                                                         *)
(* An int operation that overflows is undefined: its result is any int, or *)
(* either outcome of the comparison.                                       *)
(* The prompt is a sequence of pieces, each a template and the message     *)
(* that follows it.                                                        *)
(***************************************************************************)
EXTENDS Integers, Sequences, SequencesExt

CONSTANTS
  MaxInt,      \* the largest int
  MaxMessages  \* bound: length of a request's "messages"

ASSUME IntAssumption == MaxInt \in Nat \ {0}
ASSUME MessagesAssumption == MaxMessages \in 0..MaxInt

Ints == -(MaxInt + 1)..MaxInt

(* "bad" is a message whose role or content is not a string.               *)
Dialogue == {"user", "assistant"}
Roles == Dialogue \cup {"system", "other", "bad"}

VARIABLES
  max_history_chat_,  \* member of the engine
  messages,           \* req.messages
  pc,
  history_max, index, formatted_output,  \* locals
  history             \* max_history_chat_ when the loop began

vars == <<max_history_chat_, messages, pc, history_max, index, formatted_output, history>>

Pre == <<"pre_prompt_", -1>>
Ai == <<"ai_prompt_", -1>>
size == Len(messages)

(* LoadModel has taken max_history_chat_ from its body as it stood.        *)
Init ==
  /\ max_history_chat_ \in Ints
  /\ messages = <<>>
  /\ pc = "parse"
  /\ history_max = 0
  /\ index = 0
  /\ formatted_output = <<>>
  /\ history = max_history_chat_

(* The messages of the body: none when it has no such field.  A field of   *)
(* another type throws.                                                    *)
fromJson ==
  /\ pc = "parse"
  /\ \/ messages' \in BoundedSeq(Roles, MaxMessages) /\ pc' = "start"
     \/ UNCHANGED messages /\ pc' = "thrown"
  /\ UNCHANGED <<max_history_chat_, history_max, index, formatted_output, history>>

(* Mutant: the product is not an int.                                      *)
StartWide ==
  /\ pc = "start"
  /\ pc' = "loop"
  /\ history' = max_history_chat_
  /\ history_max' = 2 * max_history_chat_
  /\ formatted_output' = <<Pre>>
  /\ UNCHANGED <<max_history_chat_, messages, index>>
Start ==
  /\ pc = "start"
  /\ pc' = "loop"
  /\ history' = max_history_chat_
  /\ IF 2 * max_history_chat_ \in Ints
       THEN history_max' = 2 * max_history_chat_
       ELSE history_max' \in Ints
  /\ formatted_output' = <<Pre>>
  /\ UNCHANGED <<max_history_chat_, messages, index>>

(* The test index > static_cast<int>(req.messages.size()) - history_max.   *)
(* Mutants: the member is read again; the window is one message shorter.   *)
Test(keep, limit) == size - limit \in Ints => keep = (index > size - limit)
KeepsByMember(keep) == Test(keep, 2 * max_history_chat_)
KeepsLess(keep) == Test(keep, history_max - 1)
Keeps(keep) == Test(keep, history_max)

(* One turn of the loop.                                                   *)
Turn(role, prompt) ==
  /\ pc = "loop" /\ index < size /\ messages[index + 1] \in role
  /\ index' = index + 1
  /\ formatted_output' = prompt
  /\ UNCHANGED <<max_history_chat_, messages, pc, history_max, history>>

Piece == <<messages[index + 1], index>>

DialogueTurn ==
  \E keep \in BOOLEAN :
    /\ Keeps(keep)
    /\ Turn(Dialogue, IF keep THEN Append(formatted_output, Piece) ELSE formatted_output)

(* A system message goes before everything else.  Mutant: it stays in its  *)
(* place.                                                                  *)
SystemTurnInPlace == Turn({"system"}, Append(formatted_output, Piece))
SystemTurn == Turn({"system"}, <<Piece>> \o formatted_output)

OtherTurn == Turn({"other"}, Append(formatted_output, Piece))

(* asString throws, and no task is left in the queue.                      *)
BadTurn ==
  /\ pc = "loop" /\ index < size /\ messages[index + 1] = "bad"
  /\ pc' = "thrown"
  /\ UNCHANGED <<max_history_chat_, messages, history_max, index, formatted_output, history>>

Finish ==
  /\ pc = "loop" /\ index = size
  /\ pc' = "done"
  /\ formatted_output' = Append(formatted_output, Ai)
  /\ UNCHANGED <<max_history_chat_, messages, history_max, index, history>>

(* max_history_chat_ = std::max(1, max_history_chat_ / 2), by the task.    *)
Halved(n) == IF n \div 2 > 1 THEN n \div 2 ELSE 1
Restart ==
  /\ max_history_chat_' = Halved(max_history_chat_)
  /\ UNCHANGED <<messages, pc, history_max, index, formatted_output, history>>

Next ==
  \/ fromJson \/ Start \/ DialogueTurn \/ SystemTurn \/ OtherTurn \/ BadTurn \/ Finish
  \/ Restart

Spec == Init /\ [][Next]_vars
-----------------------------------------------------------------------------
(* Every variable has its type.                                            *)
TypeOK ==
  /\ max_history_chat_ \in Ints /\ history \in Ints /\ history_max \in Ints
  /\ messages \in Seq(Roles) /\ size <= MaxMessages
  /\ pc \in {"parse", "start", "loop", "done", "thrown"}
  /\ index \in 0..size
  /\ formatted_output \in
       Seq((Roles \cup {"pre_prompt_", "ai_prompt_"}) \X (-1..size - 1))

(* The arithmetic of the request does not overflow.                        *)
InRange == 2 * history \in Ints /\ size - 2 * history \in Ints

InWindow(i) == i > size - 2 * history
PieceOf(i) == <<messages[i + 1], i>>
Pieces(P(_)) ==
  FlattenSeq([k \in 1..size |-> IF P(k - 1) THEN <<PieceOf(k - 1)>> ELSE <<>>])

(* What the prompt is: the system messages, the last one first; the model's*)
(* opening; the messages of the window and those of unknown roles, in      *)
(* order; the template of an answer.  A restart in the meantime does not   *)
(* change the window half-way.  The window holds one message fewer than    *)
(* the two per turn that history_max counts.                               *)
PromptIsFormatted ==
  LET system(i) == messages[i + 1] = "system"
      kept(i) == \/ messages[i + 1] = "other"
                 \/ messages[i + 1] \in Dialogue /\ InWindow(i)
  IN  pc = "done" /\ InRange =>
        formatted_output =
          Reverse(Pieces(system)) \o <<Pre>> \o Pieces(kept) \o <<Ai>>

Kept == {i \in 0..size - 1 :
           messages[i + 1] \in Dialogue /\ PieceOf(i) \in Range(formatted_output)}

(* The history has no gap: the model that sees a message of the dialogue   *)
(* sees all the later ones, and whatever happens to max_history_chat_ it   *)
(* sees the last one, to which it must answer.                             *)
LatestKept ==
  pc = "done" /\ InRange =>
    /\ \A i, j \in 0..size - 1 :
         i \in Kept /\ i < j /\ messages[j + 1] \in Dialogue => j \in Kept
    /\ history >= 1 /\ size > 0 /\ messages[size] \in Dialogue => size - 1 \in Kept
=============================================================================
