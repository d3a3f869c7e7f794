------------------------- MODULE ChatPrompt_proofs --------------------------
(***************************************************************************)
(* Theorems about ChatPrompt: the prompt that the loop over the messages   *)
(* of a request makes, for any number of messages and any largest int,     *)
(* whenever a restart halves max_history_chat_.                            *)
(***************************************************************************)
EXTENDS ChatPrompt, SequenceLemmas

-----------------------------------------------------------------------------
(***************************************************************************)
(* Types.  The pieces name messages, and there are none before the loop.   *)
(***************************************************************************)
PieceType == (Roles \cup {"pre_prompt_", "ai_prompt_"}) \X (-1..size - 1)

Fresh == pc \in {"parse", "start"} => index = 0 /\ formatted_output = <<>>

PromptInv == TypeOK /\ Fresh

LEMMA BoundedSeqIs ==
  ASSUME NEW S, NEW n \in Nat, NEW s \in BoundedSeq(S, n)
  PROVE  s \in Seq(S) /\ Len(s) \in Nat /\ Len(s) <= n
<1>1. PICK m \in 0..n : s \in [1..m -> S]
  BY DEF BoundedSeq, SeqOf
<1> QED BY <1>1, SeqDef, LenProperties

LEMMA HalvedType == ASSUME NEW n \in Ints PROVE Halved(n) \in Ints
BY IntAssumption DEF Ints, Halved

LEMMA InitPromptInv == Init => PromptInv
BY IntAssumption, MessagesAssumption
   DEF Init, PromptInv, TypeOK, Fresh, Ints, size

(* The type of a piece does not change while there are messages.           *)
LEMMA SameSize == UNCHANGED messages => size' = size /\ PieceType' = PieceType
BY DEF size, PieceType

LEMMA ParseKeeps == ASSUME PromptInv, fromJson PROVE PromptInv'
<1>1. messages' \in Seq(Roles) /\ Len(messages') \in Nat /\ Len(messages') <= MaxMessages
  BY BoundedSeqIs, MessagesAssumption, IntAssumption DEF PromptInv, TypeOK, fromJson, size
<1>2. formatted_output = <<>> /\ index = 0
  BY DEF PromptInv, Fresh, fromJson
<1> QED
  BY <1>1, <1>2 DEF PromptInv, TypeOK, Fresh, fromJson, size

LEMMA StartKeeps == ASSUME PromptInv, Start PROVE PromptInv'
<1>1. formatted_output' \in Seq(PieceType)
  <2>1. -1 \in -1..size - 1
    BY LenProperties DEF PromptInv, TypeOK, size
  <2>2. Pre \in PieceType
    BY <2>1 DEF Pre, PieceType
  <2> QED BY <2>2 DEF Start
<1>2. history_max' \in Ints
  BY DEF Start
<1> QED
  BY <1>1, <1>2, SameSize DEF PromptInv, TypeOK, Fresh, Start, PieceType

(* A turn adds the piece of a message, on one side or the other.           *)
LEMMA PieceIs ==
  ASSUME PromptInv, index < size
  PROVE  Piece \in PieceType /\ Piece = PieceOf(index) /\ index + 1 \in 1..Len(messages)
BY LenProperties DEF PromptInv, TypeOK, Piece, PieceOf, PieceType, size

LEMMA TurnKeeps ==
  ASSUME PromptInv, NEW role, NEW prompt, Turn(role, prompt),
         prompt \in {formatted_output, Append(formatted_output, Piece),
                     <<Piece>> \o formatted_output}
  PROVE  PromptInv'
<1>1. Piece \in PieceType /\ size \in Nat
  BY PieceIs, LenProperties DEF Turn, PromptInv, TypeOK, size
<1>2. formatted_output \in Seq(PieceType)
  BY DEF PromptInv, TypeOK, PieceType
<1>3. prompt \in Seq(PieceType)
  <2>1. <<Piece>> \in Seq(PieceType)
    BY <1>1
  <2>2. <<Piece>> \o formatted_output \in Seq(PieceType)
    BY <1>2, <2>1, ConcatProperties
  <2>3. Append(formatted_output, Piece) \in Seq(PieceType)
    BY <1>1, <1>2, AppendProperties
  <2> QED BY <1>2, <2>2, <2>3
<1>4. formatted_output' \in Seq(PieceType)
  BY <1>3 DEF Turn
<1> QED
  BY <1>1, <1>4, SameSize DEF PromptInv, TypeOK, Fresh, Turn, PieceType

LEMMA TurnsAre ==
  ASSUME DialogueTurn \/ SystemTurn \/ OtherTurn
  PROVE  \E role, prompt :
           /\ Turn(role, prompt)
           /\ prompt \in {formatted_output, Append(formatted_output, Piece),
                          <<Piece>> \o formatted_output}
BY DEF DialogueTurn, SystemTurn, OtherTurn

LEMMA FinishKeeps == ASSUME PromptInv, Finish PROVE PromptInv'
<1>1. Ai \in PieceType
  BY LenProperties DEF Ai, PieceType, PromptInv, TypeOK, size
<1>2. formatted_output' \in Seq(PieceType)
  BY <1>1 DEF Finish, PromptInv, TypeOK, PieceType
<1> QED
  BY <1>2, SameSize DEF PromptInv, TypeOK, Fresh, Finish, PieceType

LEMMA NextKeepsPromptInv == PromptInv /\ [Next]_vars => PromptInv'
<1> SUFFICES ASSUME PromptInv, [Next]_vars PROVE PromptInv'
  OBVIOUS
<1>1. CASE UNCHANGED vars
  BY <1>1 DEF vars, PromptInv, TypeOK, Fresh, size
<1>2. CASE fromJson
  BY <1>2, ParseKeeps
<1>3. CASE Start
  BY <1>3, StartKeeps
<1>4. CASE DialogueTurn \/ SystemTurn \/ OtherTurn
  BY <1>4, TurnsAre, TurnKeeps
<1>5. CASE BadTurn
  BY <1>5 DEF BadTurn, PromptInv, TypeOK, Fresh, size
<1>6. CASE Finish
  BY <1>6, FinishKeeps
<1>7. CASE Restart
  BY <1>7, HalvedType DEF Restart, PromptInv, TypeOK, Fresh, size
<1> QED BY <1>1, <1>2, <1>3, <1>4, <1>5, <1>6, <1>7 DEF Next

(* The types are as declared; what the engine reads of max_history_chat_   *)
(* and of the request's messages stays an int, however often it halves.    *)
THEOREM TypeCorrect == Spec => []TypeOK
<1>1. PromptInv => TypeOK
  BY DEF PromptInv
<1> QED BY <1>1, InitPromptInv, NextKeepsPromptInv, PTL DEF Spec
-----------------------------------------------------------------------------
(***************************************************************************)
(* The invariant of the loop: the prompt is that of the messages before    *)
(* index.  SystemParts(n) and KeptParts(n) are the pieces of the first n   *)
(* messages that go before the model's opening, and after it.              *)
(***************************************************************************)
IsKept(i) == \/ messages[i + 1] = "other"
             \/ messages[i + 1] \in Dialogue /\ InWindow(i)

SystemPart(i) == IF messages[i + 1] = "system" THEN <<PieceOf(i)>> ELSE <<>>
KeptPart(i) == IF IsKept(i) THEN <<PieceOf(i)>> ELSE <<>>
SystemParts(n) == FlattenSeq([k \in 1..n |-> SystemPart(k - 1)])
KeptParts(n) == FlattenSeq([k \in 1..n |-> KeptPart(k - 1)])

Formatted(n) == Reverse(SystemParts(n)) \o <<Pre>> \o KeptParts(n)

LoopInv ==
  pc \in {"loop", "done"} /\ InRange =>
    /\ history_max = 2 * history
    /\ pc = "loop" => formatted_output = Formatted(index)
    /\ pc = "done" => index = size /\ formatted_output = Formatted(size) \o <<Ai>>

(* One message more is one part more.                                      *)
LEMMA PartsType ==
  ASSUME PromptInv, NEW i \in 0..size - 1
  PROVE  /\ PieceOf(i) \in PieceType
         /\ SystemPart(i) \in Seq(PieceType)
         /\ KeptPart(i) \in Seq(PieceType)
<1>1. i + 1 \in 1..Len(messages)
  BY LenProperties DEF PromptInv, TypeOK, size
<1>2. PieceOf(i) \in PieceType
  BY <1>1 DEF PromptInv, TypeOK, PieceOf, PieceType
<1> QED BY <1>2 DEF SystemPart, KeptPart

LEMMA FunctionGrows ==
  ASSUME NEW S, NEW n \in Nat, NEW f \in Seq(S), Len(f) = n + 1
  PROVE  f = Append([k \in 1..n |-> f[k]], f[n + 1])
<1> DEFINE g == [k \in 1..n |-> f[k]]
<1>1. g \in Seq(S) /\ Len(g) = n /\ f[n + 1] \in S
  OBVIOUS
<1>2. \A k \in 1..n : g[k] = f[k]
  OBVIOUS
<1> HIDE DEF g
<1>3. f = Append(g, f[n + 1])
  BY <1>1, <1>2
<1> QED BY <1>3 DEF g

LEMMA PartsGrow ==
  ASSUME PromptInv, NEW n \in Nat, n < size
  PROVE  /\ SystemParts(n) \in Seq(PieceType)
         /\ KeptParts(n) \in Seq(PieceType)
         /\ SystemParts(n + 1) = SystemParts(n) \o SystemPart(n)
         /\ KeptParts(n + 1) = KeptParts(n) \o KeptPart(n)
<1> DEFINE s(m) == [k \in 1..m |-> SystemPart(k - 1)]
           t(m) == [k \in 1..m |-> KeptPart(k - 1)]
<1>1. size \in Nat
  BY LenProperties DEF PromptInv, TypeOK, size
<1>2. \A k \in 1..n + 1 : k - 1 \in 0..size - 1
  BY <1>1
<1>3. \A k \in 1..n + 1 : SystemPart(k - 1) \in Seq(PieceType) /\ KeptPart(k - 1) \in Seq(PieceType)
  BY <1>2, PartsType
<1>4. n \in 0..size - 1 /\ (n + 1) - 1 = n
  BY <1>1
<1>5. SystemPart(n) \in Seq(PieceType) /\ KeptPart(n) \in Seq(PieceType)
  BY <1>4, PartsType
<1>6. s(n + 1) = Append(s(n), SystemPart(n)) /\ t(n + 1) = Append(t(n), KeptPart(n))
      /\ s(n) \in Seq(Seq(PieceType)) /\ t(n) \in Seq(Seq(PieceType))
  <2> HIDE DEF SystemPart, KeptPart
  <2>1. s(n) \in Seq(Seq(PieceType)) /\ t(n) \in Seq(Seq(PieceType))
    BY <1>3
  <2>2. s(n + 1) \in Seq(Seq(PieceType)) /\ Len(s(n + 1)) = n + 1
        /\ s(n + 1)[n + 1] = SystemPart(n) /\ \A k \in 1..n : s(n + 1)[k] = s(n)[k]
    BY <1>3, <1>4
  <2>3. t(n + 1) \in Seq(Seq(PieceType)) /\ Len(t(n + 1)) = n + 1
        /\ t(n + 1)[n + 1] = KeptPart(n) /\ \A k \in 1..n : t(n + 1)[k] = t(n)[k]
    BY <1>3, <1>4
  <2>4. s(n + 1) = Append(s(n), SystemPart(n))
    BY <2>2, FunctionGrows
  <2>5. t(n + 1) = Append(t(n), KeptPart(n))
    BY <2>3, FunctionGrows
  <2> QED BY <2>1, <2>4, <2>5
<1>7. FlattenSeq(s(n)) \in Seq(PieceType) /\ FlattenSeq(t(n)) \in Seq(PieceType)
  BY <1>6, FlattenType
<1> HIDE DEF s, t
<1>8. FlattenSeq(s(n + 1)) = FlattenSeq(s(n)) \o SystemPart(n)
  BY <1>5, <1>6, FlattenAppend
<1>9. FlattenSeq(t(n + 1)) = FlattenSeq(t(n)) \o KeptPart(n)
  BY <1>5, <1>6, FlattenAppend
<1> QED BY <1>7, <1>8, <1>9 DEF s, t, SystemParts, KeptParts

(* The two ends of the prompt grow apart.                                  *)
LEMMA GrowLeft ==
  ASSUME NEW S, NEW r \in Seq(S), NEW k \in Seq(S), NEW m \in S, NEW p \in S
  PROVE  (<<p>> \o r) \o <<m>> \o k = <<p>> \o (r \o <<m>> \o k)
OBVIOUS

LEMMA GrowRight ==
  ASSUME NEW S, NEW r \in Seq(S), NEW k \in Seq(S), NEW m \in S, NEW p \in S
  PROVE  r \o <<m>> \o (k \o <<p>>) = Append(r \o <<m>> \o k, p)
OBVIOUS

LEMMA AllPartsType ==
  ASSUME PromptInv
  PROVE  /\ Reverse(SystemParts(size)) \in Seq(PieceType)
         /\ KeptParts(size) \in Seq(PieceType)
         /\ Pre \in PieceType /\ Ai \in PieceType
<1>1. size \in Nat
  BY LenProperties DEF PromptInv, TypeOK, size
<1>2. \A k \in 1..size : k - 1 \in 0..size - 1
  BY <1>1
<1>3. \A k \in 1..size : SystemPart(k - 1) \in Seq(PieceType) /\ KeptPart(k - 1) \in Seq(PieceType)
  BY <1>2, PartsType
<1>4. SystemParts(size) \in Seq(PieceType) /\ KeptParts(size) \in Seq(PieceType)
  <2>1. [k \in 1..size |-> SystemPart(k - 1)] \in Seq(Seq(PieceType))
    BY <1>1, <1>3
  <2>2. [k \in 1..size |-> KeptPart(k - 1)] \in Seq(Seq(PieceType))
    BY <1>1, <1>3
  <2> QED BY <2>1, <2>2, FlattenType DEF SystemParts, KeptParts
<1>5. -1 \in -1..size - 1
  BY <1>1
<1> QED BY <1>4, <1>5, ReverseIs DEF Pre, Ai, PieceType

LEMMA FormattedGrows ==
  ASSUME PromptInv, NEW n \in Nat, n < size
  PROVE  /\ messages[n + 1] = "system" =>
              Formatted(n + 1) = <<PieceOf(n)>> \o Formatted(n)
         /\ IsKept(n) => Formatted(n + 1) = Append(Formatted(n), PieceOf(n))
         /\ messages[n + 1] # "system" /\ ~IsKept(n) => Formatted(n + 1) = Formatted(n)
<1>1. PICK r \in Seq(PieceType) : r = Reverse(SystemParts(n))
  BY PartsGrow, ReverseIs
<1>2. PICK k \in Seq(PieceType) : k = KeptParts(n)
  BY PartsGrow
<1>3. SystemParts(n) \in Seq(PieceType)
      /\ SystemParts(n + 1) = SystemParts(n) \o SystemPart(n)
      /\ KeptParts(n + 1) = k \o KeptPart(n)
  BY <1>2, PartsGrow
<1>4. Formatted(n) = r \o <<Pre>> \o k
  BY <1>1, <1>2 DEF Formatted
<1>5. PICK p \in PieceType : p = PieceOf(n)
  BY PartsType, LenProperties DEF PromptInv, TypeOK, size
<1>6. Pre \in PieceType
  BY LenProperties DEF Pre, PieceType, PromptInv, TypeOK, size
<1>7. k \o <<>> = k
  BY ConcatProperties
<1>8. SystemParts(n) \o <<>> = SystemParts(n)
  BY <1>3, ConcatProperties
<1>9. CASE messages[n + 1] = "system"
  <2>1. ~IsKept(n)
    BY <1>9 DEF IsKept, Dialogue
  <2>2. SystemParts(n + 1) = SystemParts(n) \o <<p>> /\ KeptParts(n + 1) = k
    BY <1>3, <1>5, <1>7, <1>9, <2>1 DEF SystemPart, KeptPart
  <2>3. Reverse(SystemParts(n + 1)) = <<p>> \o r
    BY <1>1, <1>3, <1>5, <2>2, ReverseAppend
  <2>4. Formatted(n + 1) = (<<p>> \o r) \o <<Pre>> \o k
    BY <2>2, <2>3 DEF Formatted
  <2>5. (<<p>> \o r) \o <<Pre>> \o k = <<p>> \o (r \o <<Pre>> \o k)
    BY <1>6, GrowLeft
  <2>6. Formatted(n + 1) = <<p>> \o Formatted(n)
    BY <1>4, <2>4, <2>5
  <2> QED BY <1>5, <1>9, <2>1, <2>6
<1>10. CASE IsKept(n)
  <2>1. messages[n + 1] # "system"
    BY <1>10 DEF IsKept, Dialogue
  <2>2. SystemParts(n + 1) = SystemParts(n) /\ KeptParts(n + 1) = k \o <<p>>
    BY <1>3, <1>5, <1>8, <1>10, <2>1 DEF SystemPart, KeptPart
  <2>3. Formatted(n + 1) = r \o <<Pre>> \o (k \o <<p>>)
    BY <1>1, <2>2 DEF Formatted
  <2>4. r \o <<Pre>> \o (k \o <<p>>) = Append(r \o <<Pre>> \o k, p)
    BY <1>6, GrowRight
  <2>5. Formatted(n + 1) = Append(Formatted(n), p)
    BY <1>4, <2>3, <2>4
  <2> QED BY <1>5, <1>10, <2>1, <2>5
<1>11. CASE messages[n + 1] # "system" /\ ~IsKept(n)
  <2>1. SystemParts(n + 1) = SystemParts(n) /\ KeptParts(n + 1) = k
    BY <1>3, <1>7, <1>8, <1>11 DEF SystemPart, KeptPart
  <2> QED BY <1>1, <1>4, <1>11, <2>1 DEF Formatted
<1> QED BY <1>9, <1>10, <1>11

LEMMA FormattedEmpty == Formatted(0) = <<Pre>>
<1>1. SystemParts(0) = <<>> /\ KeptParts(0) = <<>>
  <2>1. [k \in 1..0 |-> SystemPart(k - 1)] = <<>> /\ [k \in 1..0 |-> KeptPart(k - 1)] = <<>>
    OBVIOUS
  <2> QED BY <2>1, FlattenEmpty DEF SystemParts, KeptParts
<1>2. <<>> \o <<Pre>> \o <<>> = <<Pre>>
  OBVIOUS
<1> QED BY <1>1, <1>2, ReverseEmpty DEF Formatted

LEMMA FormattedEmptyNext == (Formatted(0) = <<Pre>>)'
BY FormattedEmpty, PTL

(* Formatted depends on the messages and on the history at the beginning.  *)
LEMMA FormattedSame ==
  ASSUME UNCHANGED <<messages, history>>
  PROVE  /\ (Formatted(index))' = Formatted(index')
         /\ (Formatted(size))' = Formatted(size)
         /\ InRange' = InRange
         /\ size' = size
         /\ Ai' = Ai
BY DEF Formatted, SystemParts, KeptParts, SystemPart, KeptPart, IsKept, PieceOf,
       InWindow, InRange, size, Pre, Ai

LEMMA InitLoopInv == Init => LoopInv
BY DEF Init, LoopInv

LEMMA StartLoopInv ==
  ASSUME PromptInv, LoopInv, Start PROVE LoopInv'
<1> SUFFICES ASSUME InRange'
             PROVE  history_max' = 2 * history' /\ formatted_output' = (Formatted(index))'
  BY DEF Start, LoopInv
<1>1. index' = 0 /\ pc' = "loop" /\ formatted_output' = <<Pre>>
  BY DEF Start, PromptInv, Fresh
<1>2. history_max' = 2 * history'
  BY DEF Start, InRange
<1>3. (Formatted(0))' = <<Pre>>'
  BY FormattedEmptyNext DEF Pre
<1> QED BY <1>1, <1>2, <1>3 DEF Pre

(* A turn of the loop, whatever the role of the message.                   *)
LEMMA TurnLoopInv ==
  ASSUME PromptInv, LoopInv, NEW role, NEW prompt, Turn(role, prompt),
         InRange /\ formatted_output = Formatted(index) => prompt = Formatted(index + 1)
  PROVE  LoopInv'
<1>1. index' = index + 1 /\ pc = "loop" /\ pc' = "loop" /\ formatted_output' = prompt
      /\ UNCHANGED <<messages, history, history_max>>
  BY DEF Turn
<1>2. InRange' = InRange /\ (Formatted(index))' = Formatted(index + 1)
  BY <1>1, FormattedSame
<1> QED BY <1>1, <1>2 DEF LoopInv

LEMMA DialogueTurnLoopInv ==
  ASSUME PromptInv, LoopInv, DialogueTurn PROVE LoopInv'
<1> PICK keep \in BOOLEAN :
      /\ Keeps(keep)
      /\ Turn(Dialogue, IF keep THEN Append(formatted_output, Piece) ELSE formatted_output)
  BY DEF DialogueTurn
<1> DEFINE prompt == IF keep THEN Append(formatted_output, Piece) ELSE formatted_output
<1>1. index \in Nat /\ index < size /\ pc = "loop" /\ messages[index + 1] \in Dialogue
  BY DEF Turn, PromptInv, TypeOK
<1>2. ASSUME InRange, formatted_output = Formatted(index)
      PROVE  prompt = Formatted(index + 1)
  <2>1. history_max = 2 * history
    BY <1>1, <1>2 DEF LoopInv
  <2>2. keep = InWindow(index)
    BY <1>2, <2>1 DEF Keeps, Test, InWindow, InRange
  <2>3. (IsKept(index) <=> keep) /\ messages[index + 1] # "system"
    BY <1>1, <2>2 DEF IsKept, Dialogue
  <2>4. Piece = PieceOf(index)
    BY <1>1, PieceIs
  <2>5. CASE keep
    BY <1>1, <1>2, <2>3, <2>4, <2>5, FormattedGrows
  <2>6. CASE ~keep
    BY <1>1, <1>2, <2>3, <2>6, FormattedGrows
  <2> QED BY <2>5, <2>6
<1>3. Turn(Dialogue, prompt)
  OBVIOUS
<1> HIDE DEF prompt
<1> QED BY <1>2, <1>3, TurnLoopInv

LEMMA OtherTurnLoopInv ==
  ASSUME PromptInv, LoopInv, SystemTurn \/ OtherTurn PROVE LoopInv'
<1>1. index \in Nat /\ index < size /\ Piece = PieceOf(index)
  BY PieceIs DEF SystemTurn, OtherTurn, Turn, PromptInv, TypeOK
<1>2. CASE SystemTurn
  <2>1. Turn({"system"}, <<Piece>> \o formatted_output)
    BY <1>2 DEF SystemTurn
  <2>2. messages[index + 1] = "system"
    BY <2>1 DEF Turn
  <2>3. <<Piece>> \o Formatted(index) = Formatted(index + 1)
    BY <1>1, <2>2, FormattedGrows
  <2> QED BY <2>1, <2>3, TurnLoopInv
<1>3. CASE OtherTurn
  <2>1. Turn({"other"}, Append(formatted_output, Piece))
    BY <1>3 DEF OtherTurn
  <2>2. IsKept(index)
    BY <2>1 DEF Turn, IsKept
  <2>3. Append(Formatted(index), Piece) = Formatted(index + 1)
    BY <1>1, <2>2, FormattedGrows
  <2> QED BY <2>1, <2>3, TurnLoopInv
<1> QED BY <1>2, <1>3

LEMMA NextLoopInv == PromptInv /\ LoopInv /\ [Next]_vars => LoopInv'
<1> SUFFICES ASSUME PromptInv, LoopInv, [Next]_vars PROVE LoopInv'
  OBVIOUS
<1>1. CASE UNCHANGED vars \/ Restart
  <2>1. UNCHANGED <<messages, history, index, pc, history_max, formatted_output>>
    BY <1>1 DEF vars, Restart
  <2> QED BY <2>1, FormattedSame DEF LoopInv
<1>2. CASE fromJson \/ BadTurn
  BY <1>2 DEF fromJson, BadTurn, LoopInv
<1>3. CASE Start
  BY <1>3, StartLoopInv
<1>4. CASE DialogueTurn
  BY <1>4, DialogueTurnLoopInv
<1>5. CASE SystemTurn \/ OtherTurn
  BY <1>5, OtherTurnLoopInv
<1>6. CASE Finish
  <2>1. pc = "loop" /\ pc' = "done" /\ index' = index /\ index = size
        /\ UNCHANGED <<messages, history, history_max>>
        /\ formatted_output' = Append(formatted_output, Ai)
    BY <1>6 DEF Finish
  <2>2. formatted_output \in Seq(PieceType)
    BY DEF PromptInv, TypeOK, PieceType
  <2>3. formatted_output' = formatted_output \o <<Ai>>
    BY <2>1, <2>2
  <2> QED BY <2>1, <2>3, FormattedSame DEF LoopInv
<1> QED BY <1>1, <1>2, <1>3, <1>4, <1>5, <1>6 DEF Next

(* The prompt of HandleChatCompletion's loop is the one that its messages  *)
(* and max_history_chat_ at its beginning call for.                        *)
THEOREM PromptCorrect == Spec => []PromptIsFormatted
<1>1. PromptInv /\ LoopInv => PromptIsFormatted
  <2> SUFFICES ASSUME PromptInv, LoopInv, pc = "done", InRange
               PROVE  PromptIsFormatted
    BY DEF PromptIsFormatted
  <2> DEFINE r == Reverse(SystemParts(size))
             k == KeptParts(size)
  <2>1. formatted_output = (r \o <<Pre>> \o k) \o <<Ai>>
    BY DEF LoopInv, Formatted
  <2>2. r \in Seq(PieceType) /\ k \in Seq(PieceType) /\ Pre \in PieceType /\ Ai \in PieceType
    BY AllPartsType
  <2>3. (r \o <<Pre>> \o k) \o <<Ai>> = r \o <<Pre>> \o k \o <<Ai>>
    BY <2>2
  <2>4. formatted_output = r \o <<Pre>> \o k \o <<Ai>>
    BY <2>1, <2>3
  <2> QED
    BY <2>4 DEF PromptIsFormatted, Pieces, SystemParts, KeptParts, SystemPart, KeptPart,
            IsKept
<1> QED
  BY <1>1, InitPromptInv, NextKeepsPromptInv, InitLoopInv, NextLoopInv, PTL DEF Spec
-----------------------------------------------------------------------------
(***************************************************************************)
(* Which messages of the dialogue are in the prompt.                       *)
(***************************************************************************)
WindowInv ==
  pc \in {"loop", "done"} /\ InRange =>
    \A i \in 0..size - 1 :
      messages[i + 1] \in Dialogue =>
        (PieceOf(i) \in Range(formatted_output) <=> i < index /\ InWindow(i))

(* A turn adds a piece of its own.                                         *)
LEMMA TurnWindowInv ==
  ASSUME PromptInv, WindowInv, NEW role, NEW prompt, Turn(role, prompt),
         prompt \in {formatted_output, Append(formatted_output, Piece),
                     <<Piece>> \o formatted_output},
         messages[index + 1] \in Dialogue /\ InRange =>
           (prompt # formatted_output <=> InWindow(index))
  PROVE  WindowInv'
<1> SUFFICES ASSUME InRange', NEW i \in (0..size - 1)', (messages[i + 1] \in Dialogue)'
             PROVE  PieceOf(i)' \in Range(formatted_output') <=> i < index' /\ InWindow(i)'
  BY DEF WindowInv
<1>1. pc = "loop" /\ index < size /\ index' = index + 1 /\ formatted_output' = prompt
      /\ UNCHANGED <<messages, history>>
  BY DEF Turn
<1>2. InRange /\ size' = size /\ PieceOf(i)' = PieceOf(i) /\ InWindow(i)' = InWindow(i)
  BY <1>1 DEF InRange, size, PieceOf, InWindow
<1>3. i \in 0..size - 1 /\ messages[i + 1] \in Dialogue
  BY <1>1, <1>2
<1>4. PieceOf(i) \in Range(formatted_output) <=> i < index /\ InWindow(i)
  BY <1>1, <1>2, <1>3 DEF WindowInv
<1>5. prompt # formatted_output => Range(prompt) = Range(formatted_output) \cup {Piece}
  <2>1. formatted_output \in Seq(PieceType) /\ Piece \in PieceType
    BY <1>1, PieceIs DEF PromptInv, TypeOK, PieceType
  <2>2. CASE prompt = Append(formatted_output, Piece)
    BY <2>1, <2>2, RangeAppend
  <2>3. CASE prompt = <<Piece>> \o formatted_output
    BY <2>1, <2>3, RangeCons
  <2> QED BY <2>2, <2>3
<1>6. index \in Nat /\ i \in Nat /\ size \in Nat
  BY <1>3, LenProperties DEF PromptInv, TypeOK, size
<1>7. PieceOf(i) = Piece <=> i = index
  BY DEF Piece, PieceOf
<1>8. CASE i = index
  <2>1. prompt # formatted_output <=> InWindow(index)
    BY <1>2, <1>3, <1>8
  <2>2. PieceOf(i) \in Range(prompt) <=> InWindow(index)
    <3>1. CASE prompt = formatted_output
      BY <1>4, <1>6, <1>8, <2>1, <3>1
    <3>2. CASE prompt # formatted_output
      BY <1>5, <1>7, <1>8, <2>1, <3>2
    <3> QED BY <3>1, <3>2
  <2> QED BY <1>1, <1>2, <1>6, <1>8, <2>2
<1>9. CASE i # index
  <2>1. PieceOf(i) \in Range(prompt) <=> PieceOf(i) \in Range(formatted_output)
    BY <1>5, <1>7, <1>9
  <2>2. i < index + 1 <=> i < index
    BY <1>6, <1>9
  <2> QED BY <1>1, <1>2, <1>4, <2>1, <2>2
<1> QED BY <1>8, <1>9

LEMMA NextWindowInv == PromptInv /\ LoopInv /\ WindowInv /\ [Next]_vars => WindowInv'
<1> SUFFICES ASSUME PromptInv, LoopInv, WindowInv, [Next]_vars PROVE WindowInv'
  OBVIOUS
<1>1. CASE UNCHANGED vars \/ Restart
  BY <1>1 DEF vars, Restart, WindowInv, InRange, InWindow, size, PieceOf
<1>2. CASE fromJson \/ BadTurn
  BY <1>2 DEF fromJson, BadTurn, WindowInv
<1>3. CASE Start
  <2> SUFFICES ASSUME NEW i \in (0..size - 1)'
               PROVE  ~(PieceOf(i)' \in Range(formatted_output')) /\ ~(i < index')
    BY DEF WindowInv
  <2>1. i \in Nat /\ index' = 0 /\ formatted_output' = <<Pre>>
    BY <1>3 DEF Start, PromptInv, Fresh
  <2>2. Range(<<Pre>>) = {Pre}
    BY RangeOne
  <2>3. PieceOf(i)' # Pre
    BY <2>1 DEF PieceOf, Pre
  <2> QED BY <2>1, <2>2, <2>3
<1>4. CASE DialogueTurn
  <2> PICK keep \in BOOLEAN :
        /\ Keeps(keep)
        /\ Turn(Dialogue, IF keep THEN Append(formatted_output, Piece) ELSE formatted_output)
    BY <1>4 DEF DialogueTurn
  <2> DEFINE prompt == IF keep THEN Append(formatted_output, Piece) ELSE formatted_output
  <2>1. Turn(Dialogue, prompt) /\ pc = "loop" /\ index < size
    BY DEF Turn
  <2>2. ASSUME InRange PROVE keep = InWindow(index)
    BY <2>1, <2>2 DEF LoopInv, Keeps, Test, InWindow, InRange
  <2>3. Append(formatted_output, Piece) # formatted_output
    <3>1. formatted_output \in Seq(PieceType) /\ Piece \in PieceType
      BY <2>1, PieceIs DEF PromptInv, TypeOK, PieceType
    <3>2. Len(Append(formatted_output, Piece)) = Len(formatted_output) + 1
          /\ Len(formatted_output) \in Nat
      BY <3>1, AppendProperties, LenProperties
    <3> QED BY <3>2
  <2>4. InRange => (prompt # formatted_output <=> InWindow(index))
    BY <2>2, <2>3
  <2>5. prompt \in {formatted_output, Append(formatted_output, Piece)}
    OBVIOUS
  <2> HIDE DEF prompt
  <2> QED BY <2>1, <2>4, <2>5, TurnWindowInv
<1>5. CASE SystemTurn
  <2>1. Turn({"system"}, <<Piece>> \o formatted_output) /\ messages[index + 1] \notin Dialogue
    BY <1>5 DEF SystemTurn, Turn, Dialogue
  <2> QED BY <2>1, TurnWindowInv
<1>6. CASE OtherTurn
  <2>1. Turn({"other"}, Append(formatted_output, Piece)) /\ messages[index + 1] \notin Dialogue
    BY <1>6 DEF OtherTurn, Turn, Dialogue
  <2> QED BY <2>1, TurnWindowInv
<1>7. CASE Finish
  <2> SUFFICES ASSUME InRange', NEW i \in (0..size - 1)', (messages[i + 1] \in Dialogue)'
               PROVE  PieceOf(i)' \in Range(formatted_output') <=> i < index' /\ InWindow(i)'
    BY DEF WindowInv
  <2>1. pc = "loop" /\ index' = index /\ formatted_output' = Append(formatted_output, Ai)
        /\ UNCHANGED <<messages, history>>
    BY <1>7 DEF Finish
  <2>2. InRange /\ size' = size /\ PieceOf(i)' = PieceOf(i) /\ InWindow(i)' = InWindow(i)
    BY <2>1 DEF InRange, size, PieceOf, InWindow
  <2>3. i \in 0..size - 1 /\ messages[i + 1] \in Dialogue
    BY <2>1, <2>2
  <2>4. PieceOf(i) \in Range(formatted_output) <=> i < index /\ InWindow(i)
    BY <2>1, <2>2, <2>3 DEF WindowInv
  <2>5. Range(formatted_output') = Range(formatted_output) \cup {Ai}
    <3>1. formatted_output \in Seq(PieceType) /\ Ai \in PieceType
      BY AllPartsType DEF PromptInv, TypeOK, PieceType
    <3> QED BY <2>1, <3>1, RangeAppend
  <2>6. PieceOf(i) # Ai
    BY <2>3 DEF PieceOf, Ai
  <2> QED BY <2>1, <2>2, <2>4, <2>5, <2>6
<1> QED BY <1>1, <1>2, <1>3, <1>4, <1>5, <1>6, <1>7 DEF Next

(* The history that the model sees has no gap, and the loop over the       *)
(* messages keeps the latest one, to which the model must answer.          *)
THEOREM HistoryHasNoGap == Spec => []LatestKept
<1>1. Init => WindowInv
  BY DEF Init, WindowInv
<1>2. PromptInv /\ LoopInv /\ WindowInv => LatestKept
  <2> SUFFICES ASSUME PromptInv, LoopInv, WindowInv, pc = "done", InRange
               PROVE  LatestKept
    BY DEF LatestKept
  <2>1. index = size /\ size \in Nat /\ history \in Int
    BY LenProperties DEF LoopInv, PromptInv, TypeOK, size, Ints
  <2>2. \A i \in 0..size - 1 : i \in Kept <=> messages[i + 1] \in Dialogue /\ i > size - 2 * history
    BY <2>1 DEF WindowInv, Kept, InWindow
  <2>3. ASSUME NEW i \in 0..size - 1, NEW j \in 0..size - 1,
               i \in Kept, i < j, messages[j + 1] \in Dialogue
        PROVE  j \in Kept
    BY <2>1, <2>2, <2>3
  <2>4. ASSUME history >= 1, size > 0, messages[size] \in Dialogue
        PROVE  size - 1 \in Kept
    <3>1. size - 1 \in 0..size - 1 /\ (size - 1) + 1 = size /\ size - 1 > size - 2 * history
      BY <2>1, <2>4
    <3> QED BY <2>2, <2>4, <3>1
  <2> QED BY <2>3, <2>4 DEF LatestKept
<1> QED
  BY <1>1, <1>2, InitPromptInv, NextKeepsPromptInv, InitLoopInv, NextLoopInv,
     NextWindowInv, PTL DEF Spec
=============================================================================
