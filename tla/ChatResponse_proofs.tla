------------------------ MODULE ChatResponse_proofs -------------------------
(***************************************************************************)
(* Theorems about ChatResponse: what the client of a chat gets, however    *)
(* many answers the engine gives, whichever writes fail and whenever the   *)
(* server is stopped.                                                      *)
(***************************************************************************)
EXTENDS ChatResponse, SequenceLemmas, FiniteSetTheorems

(* The SyncQueue of the request, with what is proved of any SyncQueue.     *)
Q == INSTANCE SyncQueue_proofs WITH
       Writers <- Threads, Readers <- {Handler}, MaxPushes <- MaxChunks + 1

-----------------------------------------------------------------------------
(***************************************************************************)
(* Where the threads are in the SyncQueue.                                 *)
(***************************************************************************)
Outside == HandlerPC \ {"refusing", "full", "write"}

InStep ==
  /\ hpc \in HandlerPC
  /\ hpc \in Outside => pc[Handler] = "out"
  /\ hpc = "refusing" => pc[Handler] \in SQ!PushPC \cup {"out"}
  /\ hpc \in {"full", "write"} => pc[Handler] \in SQ!PopPC \cup {"out"}
  /\ pc[Task] \in SQ!PushPC \cup {"out"}
  /\ tpc = "none" => pc[Task] = "out"
  /\ hpc \in {"idle", "refusing"} => tpc = "none"

(* The two kinds of chat do not mix.                                       *)
OfItsKind ==
  /\ stream => hpc # "full"
  /\ ~stream => hpc \in {"idle", "refusing", "respond", "full", "ended"}

-----------------------------------------------------------------------------
(***************************************************************************)
(* What the queue has carried: after an answer that is not a chunk, which  *)
(* is the last one, nothing is pushed any more.                            *)
(***************************************************************************)
AnswersOf(s) == {"refused"} \cup LastAnswers(s) \cup (IF s THEN {"chunk"} ELSE {})

Given == popped \o q
Pushing(t) == pc[t] \in {"push_lock", "push"}
More == hpc = "idle" \/ tpc = "running" \/ Pushing(Handler) \/ Pushing(Task)

LastIsLast ==
  \A i \in 1..Len(Given) :
    /\ Given[i] \in AnswersOf(stream)
    /\ Given[i] # "chunk" => i = Len(Given) /\ ~More

PushesLast ==
  \A t \in Threads :
    Pushing(t) =>
      /\ val[t] \in AnswersOf(stream)
      /\ val[t] # "chunk" => hpc # "idle" /\ tpc # "running"

Counted ==
  /\ hpc = "idle" => popped = <<>> /\ q = <<>>
  /\ tpc = "running" => Len(Given) + (IF Pushing(Task) THEN 1 ELSE 0) <= MaxChunks

AnswersInv == LastIsLast /\ PushesLast /\ Counted

-----------------------------------------------------------------------------
(***************************************************************************)
(* What has been written of the response, and what still will be.          *)
(***************************************************************************)
DataOf(s) == FlattenSeq([i \in DOMAIN s |-> Data(s[i])])
Chunks(s) == \A i \in 1..Len(s) : s[i] = "chunk"
Finished == popped # <<>> /\ Last(popped) \in Terminal

BrokenAt(b, d) ==
  \/ IsPrefix(b, d)
  \/ b # <<>> /\ Last(b) = "torn" /\ IsPrefix(Front(b), d)
Broken(d) == BrokenAt(body, d)
WrittenSoFar(d) == IF ok THEN body = d ELSE Broken(d)
Whole == body = AllData \o <<"end">>

Unanswered == pc[Handler] \in SQ!PopPC \ {"pop_unlock"}

BodyInv ==
  /\ hpc # "ended" => result = "none"
  /\ hpc \in {"idle", "refusing", "respond"} =>
       popped = <<>> /\ body = <<>> /\ ok /\ data_available
  /\ hpc = "full" => body = <<>> /\ (Unanswered <=> popped = <<>>)
  /\ hpc = "loop" =>
       \/ data_available /\ ok /\ popped = <<>> /\ body = <<>>
       \/ ~data_available /\ ok /\ Finished /\ Whole
  /\ hpc = "provide" \/ (hpc = "write" /\ Unanswered) =>
       Chunks(popped) /\ WrittenSoFar(AllData)
  /\ hpc = "write" /\ ~Unanswered =>
       popped # <<>> /\ Chunks(Front(popped)) /\ WrittenSoFar(DataOf(Front(popped)))
  /\ hpc = "done" => Finished /\ WrittenSoFar(AllData)
  /\ hpc = "returned" =>
       /\ Finished
       /\ IF ok THEN ~data_available /\ Whole ELSE Broken(AllData)
  /\ hpc = "ended" /\ stream =>
       /\ Broken(AllData) \/ (Finished /\ Whole)
       /\ result = "success" =>
            (Finished /\ Whole) \/ (body = <<>> /\ (stopped \/ status = 500))
  /\ hpc = "ended" /\ ~stream /\ result = "success" =>
       (Finished /\ body = popped) \/ (body = <<>> /\ status = 500)

-----------------------------------------------------------------------------
(* The threads' places.                                                    *)
LEMMA PlacesKept ==
  ASSUME SQ!TypeOK, InStep, OfItsKind, [Next]_vars
  PROVE  InStep' /\ OfItsKind'
<1> USE ThreadAssumption DEF InStep, OfItsKind, Outside, HandlerPC, Goto, Threads,
        SQ!PushPC, SQ!PopPC
<1> pc \in [Threads -> SQ!PCs]
  BY DEF SQ!TypeOK
<1>1. CASE UNCHANGED vars
  BY <1>1 DEF vars, queueVars
<1>2. CASE Handle
  BY <1>2 DEF Handle, HandleThrows, HandleRefused, HandleAccepted, queueVars, SQ!Push, SQ!Step
<1>3. CASE \E a \in Answers : TaskAnswers(a)
  BY <1>3 DEF TaskAnswers, SQ!Push, SQ!Step
<1>4. CASE Refused \/ SendFull \/ StartStream \/ LoopEnds \/ NotWritable \/ CallProvider
           \/ ProviderReturned \/ ProviderWrites \/ SinkDone \/ Stop
  BY <1>4 DEF Refused, SendFull, StartStream, LoopEnds, NotWritable, CallProvider,
              ProviderReturned, ProviderWrites, SinkWrite, SinkDone, Stop, queueVars
<1>5. CASE AwaitFull \/ ProviderWaits
  BY <1>5 DEF AwaitFull, ProviderWaits, SQ!WaitAndPop, SQ!Step
<1>6. CASE Wakeup
  BY <1>6 DEF Wakeup, SQ!SpuriousWakeup, SQ!Step
<1>7. ASSUME NEW t \in Threads, InQueue(t)
      PROVE  InStep' /\ OfItsKind'
  <2>1. CASE SQ!PushStep(t)
    BY <1>7, <2>1 DEF InQueue, SQ!PushStep, SQ!PushLock, SQ!Lock, SQ!PushItem, SQ!NotifyOne,
       SQ!PushUnlock, SQ!Unlock, SQ!Step
  <2>2. CASE SQ!PopStep(t)
    BY <1>7, <2>2 DEF InQueue, SQ!PopStep, SQ!PopLock, SQ!Lock, SQ!Test, SQ!Front, SQ!PopItem,
       SQ!PopUnlock, SQ!Unlock, SQ!Step
  <2> QED BY <1>7, <2>1, <2>2 DEF InQueue
<1> QED
  BY <1>1, <1>2, <1>3, <1>4, <1>5, <1>6, <1>7 DEF Next, HandlerStep, TaskStep

LEMMA QueueAssumed == Q!ThreadsAssumption /\ Q!PushesAssumption
<1>1. IsFiniteSet(Threads)
  <2>1. IsFiniteSet({}) /\ Threads = ({} \cup {Handler}) \cup {Task}
    BY FS_EmptySet DEF Threads
  <2>2. IsFiniteSet({} \cup {Handler})
    BY <2>1, FS_AddElement
  <2> QED BY <2>1, <2>2, FS_AddElement
<1>0. Q!IsFiniteSet(Threads)
  BY <1>1 DEF IsFiniteSet, Q!IsFiniteSet
<1>2. {Handler} \subseteq Threads /\ Null \notin Threads
  BY ThreadAssumption DEF Threads
<1>3. Q!ThreadsAssumption
  BY <1>0, <1>2, NullAssumption DEF Q!ThreadsAssumption
<1>4. Q!PushesAssumption
  BY ChunksAssumption DEF Q!PushesAssumption
<1> QED BY <1>3, <1>4

LEMMA SameNext == SQ!Next <=> Q!Next
BY DEF SQ!Next, SQ!Enter, SQ!PushStep, SQ!PopStep, SQ!SpuriousWakeup, SQ!Push,
  SQ!WaitAndPop, SQ!PushLock, SQ!PushItem, SQ!NotifyOne, SQ!PushUnlock, SQ!PopLock,
  SQ!Test, SQ!Front, SQ!PopItem, SQ!PopUnlock, SQ!Lock, SQ!Unlock, SQ!Step,
  Q!Next, Q!Enter, Q!PushStep, Q!PopStep, Q!SpuriousWakeup, Q!Push,
  Q!WaitAndPop, Q!PushLock, Q!PushItem, Q!NotifyOne, Q!PushUnlock, Q!PopLock,
  Q!Test, Q!Front, Q!PopItem, Q!PopUnlock, Q!Lock, Q!Unlock, Q!Step

LEMMA GivenLength ==
  ASSUME SQ!TypeOK
  PROVE  /\ Given \in Seq(Answers) /\ Len(Given) = Len(popped) + Len(q)
         /\ Len(popped) \in Nat /\ Len(q) \in Nat
BY LenProperties, ConcatProperties DEF SQ!TypeOK, Given

(* Every step is one that the SyncQueue's users may take, or does not      *)
(* touch it.                                                               *)
LEMMA NextIsQueueStep ==
  ASSUME SQ!TypeOK, AnswersInv, [Next]_vars
  PROVE  [SQ!Next]_(SQ!vars)
<1> USE ThreadAssumption, ChunksAssumption DEF Threads
<1>1. CASE UNCHANGED vars
  BY <1>1 DEF vars, queueVars, SQ!vars
<1>2. CASE Handle
  <2>1. CASE HandleRefused
    <3>1. Len(popped) + Len(q) < MaxChunks + 1
      BY <2>1 DEF HandleRefused, Goto, AnswersInv, Counted
    <3>2. SQ!Push(Handler, "refused") /\ "refused" \in Answers
      BY <2>1 DEF HandleRefused, Answers, Terminal
    <3>3. SQ!Enter(Handler)
      BY <3>1, <3>2 DEF SQ!Enter
    <3> QED BY <3>3 DEF SQ!Next
  <2> QED BY <1>2, <2>1 DEF Handle, HandleThrows, HandleAccepted, queueVars, SQ!vars
<1>3. CASE \E a \in Answers : TaskAnswers(a)
  <2> PICK a \in Answers : TaskAnswers(a)
    BY <1>3
  <2>1. tpc = "running" /\ SQ!Push(Task, a)
    BY DEF TaskAnswers
  <2>2. Len(popped) + Len(q) < MaxChunks + 1
    BY <2>1, GivenLength DEF AnswersInv, Counted
  <2>3. SQ!Enter(Task)
    BY <2>1, <2>2 DEF SQ!Enter
  <2> QED BY <2>3 DEF SQ!Next
<1>4. CASE Refused \/ SendFull \/ StartStream \/ LoopEnds \/ NotWritable \/ CallProvider
           \/ ProviderReturned \/ ProviderWrites \/ SinkDone \/ Stop
  BY <1>4 DEF Refused, SendFull, StartStream, LoopEnds, NotWritable, CallProvider,
              ProviderReturned, ProviderWrites, SinkWrite, SinkDone, Stop, queueVars, SQ!vars
<1>5. CASE AwaitFull \/ ProviderWaits
  BY <1>5 DEF AwaitFull, ProviderWaits, SQ!Next, SQ!Enter
<1>6. CASE Wakeup
  BY <1>6 DEF Wakeup, SQ!Next
<1>7. ASSUME NEW t \in Threads, InQueue(t)
      PROVE  SQ!Next
  BY <1>7 DEF InQueue, SQ!Next
<1> QED
  BY <1>1, <1>2, <1>3, <1>4, <1>5, <1>6, <1>7 DEF Next, HandlerStep, TaskStep

LEMMA QueueKept ==
  ASSUME Q!QueueInv, SQ!TypeOK, AnswersInv, [Next]_vars
  PROVE  Q!QueueInv'
BY NextIsQueueStep, SameNext, QueueAssumed, Q!NextKeeps DEF SQ!vars, Q!vars

LEMMA QueueInvIs ==
  Q!QueueInv => SQ!TypeOK /\ SQ!FrontIsPopped
BY DEF Q!QueueInv, Q!TypeOK, Q!FrontIsPopped, SQ!TypeOK, SQ!FrontIsPopped, Q!PCs, SQ!PCs,
   Q!PushPC, SQ!PushPC, Q!PopPC, SQ!PopPC

-----------------------------------------------------------------------------
(* Steps that neither push nor pop.                                        *)
LEMMA SameGiven ==
  ASSUME AnswersInv, UNCHANGED <<q, popped, stream>>, More' => More
  PROVE  LastIsLast'
BY DEF AnswersInv, LastIsLast, Given

LEMMA HandleAnswers ==
  ASSUME SQ!TypeOK, InStep, AnswersInv, Handle
  PROVE  AnswersInv'
<1> USE ThreadAssumption DEF Goto, Pushing, More
<1>1. hpc = "idle" /\ UNCHANGED <<q, popped, stream>> /\ hpc' # "idle" /\ popped = <<>> /\ q = <<>>
  BY DEF Handle, HandleThrows, HandleRefused, HandleAccepted, SQ!Push, queueVars,
         AnswersInv, Counted
<1>2. LastIsLast'
  BY <1>1, SameGiven
<1>3. tpc = "none" /\ pc[Handler] = "out" /\ pc[Task] = "out" /\ pc \in [Threads -> SQ!PCs]
  BY <1>1 DEF InStep, Outside, HandlerPC, SQ!TypeOK
<1>4. Len(Given) = 0 /\ Len(Given)' = 0
  BY <1>1, GivenLength DEF Given
<1>5. CASE HandleRefused
  <2>1. tpc' = "none" /\ pc' = [pc EXCEPT ![Handler] = "push_lock"]
        /\ val' = [val EXCEPT ![Handler] = "refused"]
    BY <1>3, <1>5 DEF HandleRefused, SQ!Push, SQ!Step
  <2>2. val \in [Threads -> Answers \cup {Null}]
    BY DEF SQ!TypeOK
  <2>3. PushesLast'
    BY <1>1, <1>3, <2>1, <2>2 DEF PushesLast, AnswersOf, Threads
  <2> QED BY <1>1, <1>2, <2>1, <2>3 DEF AnswersInv, Counted
<1>6. CASE HandleThrows \/ HandleAccepted
  <2>1. UNCHANGED <<pc, val>> /\ (tpc' = "none" \/ tpc' = "running")
    BY <1>3, <1>6 DEF HandleThrows, HandleAccepted, queueVars
  <2>2. PushesLast'
    BY <1>3, <2>1 DEF PushesLast, Threads
  <2>3. Counted'
    BY <1>1, <1>3, <1>4, <2>1, ChunksAssumption DEF Counted
  <2> QED BY <1>2, <2>2, <2>3 DEF AnswersInv
<1> QED BY <1>5, <1>6 DEF Handle

LEMMA TaskAnswersAnswers ==
  ASSUME SQ!TypeOK, InStep, AnswersInv, NEW a \in Answers, TaskAnswers(a)
  PROVE  AnswersInv'
<1> USE ThreadAssumption DEF Pushing, More
<1>1. tpc = "running" /\ UNCHANGED <<q, popped, stream, hpc>> /\ hpc # "idle"
      /\ pc[Task] = "out" /\ pc' = [pc EXCEPT ![Task] = "push_lock"]
      /\ val' = [val EXCEPT ![Task] = a]
  BY DEF TaskAnswers, SQ!Push, SQ!Step, InStep
<1>2. pc \in [Threads -> SQ!PCs] /\ val \in [Threads -> Answers \cup {Null}]
  BY DEF SQ!TypeOK
<1>3. LastIsLast'
  BY <1>1, SameGiven
<1>4. \/ stream /\ a = "chunk" /\ tpc' = "running" /\ Len(Given) + 1 <= MaxChunks
      \/ a \in LastAnswers(stream) /\ tpc' = "done"
  BY <1>1, GivenLength, ChunksAssumption DEF TaskAnswers
<1>5. a \in AnswersOf(stream)
  BY <1>4 DEF AnswersOf
<1>6. pc[Handler]' = pc[Handler] /\ val'[Handler] = val[Handler] /\ val'[Task] = a
  BY <1>1, <1>2 DEF Threads
<1>7. PushesLast'
  BY <1>1, <1>4, <1>5, <1>6 DEF PushesLast, AnswersInv, Threads
<1>8. Len(Given)' = Len(Given)
  BY <1>1 DEF Given
<1>9. Counted'
  <2>1. Len(Given) \in Nat
    BY GivenLength
  <2>2. tpc' = "running" => Len(Given)' + 1 <= MaxChunks
    BY <1>4, <1>8
  <2> QED BY <1>1, <1>8, <2>1, <2>2, ChunksAssumption DEF Counted
<1> QED BY <1>3, <1>7, <1>9 DEF AnswersInv

(* The steps of the two threads in the SyncQueue.                          *)
LEMMA PushAnswers ==
  ASSUME SQ!TypeOK, InStep, AnswersInv, NEW t \in Threads, SQ!PushItem(t),
         UNCHANGED <<stream, hpc, tpc>>
  PROVE  AnswersInv'
<1> USE ThreadAssumption DEF Pushing, More
<1>1. pc \in [Threads -> SQ!PCs] /\ pc[t] = "push" /\ pc' = [pc EXCEPT ![t] = "notify"]
      /\ q' = Append(q, val[t]) /\ UNCHANGED <<val, popped>>
  BY DEF SQ!TypeOK, SQ!PushItem, SQ!Step
<1>2. More /\ val[t] \in AnswersOf(stream) /\ val[t] \in Answers
  BY <1>1 DEF PushesLast, AnswersInv, Threads, AnswersOf, LastAnswers, Answers, Terminal
<1>3. popped \in Seq(Answers) /\ q \in Seq(Answers)
  BY DEF SQ!TypeOK
<1>4. Given' = Append(Given, val[t])
  BY <1>1, <1>2, <1>3 DEF Given
<1>5. Given \in Seq(Answers) /\ Len(Given) \in Nat
  BY GivenLength, LenProperties
<1>6. \A i \in 1..Len(Given) : Given[i] = "chunk" /\ Given[i] \in AnswersOf(stream)
  BY <1>2 DEF AnswersInv, LastIsLast
<1>7. Len(Given') = Len(Given) + 1 /\ Given'[Len(Given) + 1] = val[t]
      /\ \A i \in 1..Len(Given) : Given'[i] = Given[i]
  BY <1>2, <1>4, <1>5, AppendProperties
<1>8. val[t] # "chunk" => ~More'
  <2>1. val[t] # "chunk" => hpc # "idle" /\ tpc # "running"
    BY <1>1 DEF PushesLast, AnswersInv
  <2>2. \A u \in Threads : u # t => ~(pc[u] \in {"push_lock", "push"})
    BY <1>1 DEF InStep, Outside, HandlerPC, Threads, SQ!PushPC, SQ!PopPC
  <2>3. \A u \in Threads : ~(pc'[u] \in {"push_lock", "push"})
    BY <1>1, <2>2
  <2> QED BY <2>1, <2>3 DEF Threads
<1>9. LastIsLast'
  BY <1>2, <1>5, <1>6, <1>7, <1>8 DEF LastIsLast
<1>10. PushesLast'
  BY <1>1 DEF PushesLast, AnswersInv
<1>11. hpc # "idle"
  BY <1>1 DEF InStep, Outside, HandlerPC, Threads
<1>12. Counted'
  <2>1. CASE t = Task
    BY <1>1, <1>5, <1>7, <1>11, <2>1, ChunksAssumption DEF Counted, AnswersInv, Threads
  <2>2. CASE t = Handler
    <3>1. tpc # "running"
      BY <1>1, <2>2 DEF InStep, Outside, HandlerPC, SQ!PopPC
    <3> QED BY <1>11, <3>1 DEF Counted
  <2> QED BY <2>1, <2>2 DEF Threads
<1> QED BY <1>9, <1>10, <1>12 DEF AnswersInv

LEMMA MoveHead ==
  ASSUME NEW S, NEW s \in Seq(S), NEW r \in Seq(S), r # <<>>
  PROVE  Append(s, Head(r)) \o Tail(r) = s \o r
OBVIOUS

LEMMA PopAnswers ==
  ASSUME SQ!TypeOK, SQ!FrontIsPopped, InStep, AnswersInv, NEW t \in Threads,
         SQ!PopItem(t), UNCHANGED <<stream, hpc, tpc>>
  PROVE  AnswersInv'
<1> USE ThreadAssumption DEF Pushing, More
<1>1. pc \in [Threads -> SQ!PCs] /\ pc[t] = "pop" /\ pc' = [pc EXCEPT ![t] = "pop_unlock"]
      /\ q' = Tail(q) /\ popped' = Append(popped, val[t]) /\ UNCHANGED val
      /\ q # <<>> /\ val[t] = Head(q)
  BY DEF SQ!TypeOK, SQ!PopItem, SQ!Step, SQ!FrontIsPopped
<1>2. popped \in Seq(Answers) /\ q \in Seq(Answers)
  BY DEF SQ!TypeOK
<1>3. Given' = Given
  <2>1. Append(popped, Head(q)) \o Tail(q) = popped \o q
    BY <1>1, <1>2, MoveHead
  <2> QED BY <1>1, <2>1 DEF Given
<1>4. \A u \in Threads : pc'[u] \in {"push_lock", "push"} <=> pc[u] \in {"push_lock", "push"}
  BY <1>1
<1>5. LastIsLast' /\ PushesLast'
  BY <1>1, <1>3, <1>4 DEF LastIsLast, PushesLast, AnswersInv, Threads
<1>6. hpc # "idle"
  BY <1>1 DEF InStep, Outside, HandlerPC, Threads, SQ!PushPC
<1>7. Counted'
  BY <1>3, <1>4, <1>6 DEF Counted, AnswersInv, Threads
<1> QED BY <1>5, <1>7 DEF AnswersInv

LEMMA OtherAnswers ==
  ASSUME SQ!TypeOK, AnswersInv, UNCHANGED <<q, popped, stream, tpc>>,
         hpc' = "idle" => hpc = "idle",
         hpc = "idle" => hpc' = "idle",
         \A t \in Threads : Pushing(t)' => Pushing(t) /\ val'[t] = val[t]
  PROVE  AnswersInv'
<1>1. LastIsLast'
  BY SameGiven DEF More, Threads
<1>2. PushesLast'
  BY DEF PushesLast, AnswersInv
<1>3. Len(Given) \in Nat /\ Len(Given)' = Len(Given)
  BY GivenLength DEF Given
<1>4. Counted'
  BY <1>3, ChunksAssumption DEF Counted, AnswersInv, Threads
<1> QED BY <1>1, <1>2, <1>4 DEF AnswersInv

LEMMA AnswersKept ==
  ASSUME SQ!TypeOK, SQ!FrontIsPopped, InStep, AnswersInv, [Next]_vars
  PROVE  AnswersInv'
<1> USE ThreadAssumption
<1> pc \in [Threads -> SQ!PCs]
  BY DEF SQ!TypeOK
<1>1. CASE UNCHANGED vars
  BY <1>1, OtherAnswers DEF vars, queueVars, Pushing
<1>2. CASE Handle
  BY <1>2, HandleAnswers
<1>3. CASE \E a \in Answers : TaskAnswers(a)
  BY <1>3, TaskAnswersAnswers
<1>4. CASE Refused \/ SendFull \/ StartStream \/ LoopEnds \/ NotWritable \/ CallProvider
           \/ ProviderReturned \/ ProviderWrites \/ SinkDone \/ Stop
  <2>1. UNCHANGED <<queueVars, stream, tpc>> /\ (hpc' = "idle" <=> hpc = "idle")
    BY <1>4 DEF Refused, SendFull, StartStream, LoopEnds, NotWritable, CallProvider,
                ProviderReturned, ProviderWrites, SinkWrite, SinkDone, Stop, Goto
  <2> QED BY <2>1, OtherAnswers DEF queueVars, Pushing
<1>5. CASE AwaitFull \/ ProviderWaits
  <2>1. SQ!WaitAndPop(Handler) /\ UNCHANGED <<stream, tpc>> /\ hpc # "idle" /\ hpc' # "idle"
    BY <1>5 DEF AwaitFull, ProviderWaits, Goto
  <2>2. UNCHANGED <<q, popped, val>> /\ \A t \in Threads : Pushing(t)' => Pushing(t)
    BY <2>1 DEF SQ!WaitAndPop, SQ!Step, Pushing, Threads
  <2> QED BY <2>1, <2>2, OtherAnswers
<1>6. CASE Wakeup
  <2>1. UNCHANGED <<q, popped, val, stream, tpc, hpc>>
        /\ \A t \in Threads : Pushing(t)' => Pushing(t)
    BY <1>6 DEF Wakeup, sendVars, SQ!SpuriousWakeup, SQ!Step, Pushing, Threads
  <2> QED BY <2>1, OtherAnswers
<1>7. ASSUME NEW t \in Threads, InQueue(t)
      PROVE  AnswersInv'
  <2>1. UNCHANGED <<stream, hpc, tpc>>
    BY <1>7 DEF InQueue
  <2>2. CASE SQ!PushItem(t)
    BY <2>1, <2>2, PushAnswers
  <2>3. CASE SQ!PopItem(t)
    BY <2>1, <2>3, PopAnswers
  <2>4. CASE SQ!PushLock(t) \/ SQ!NotifyOne(t) \/ SQ!PushUnlock(t) \/ SQ!PopLock(t)
             \/ SQ!Test(t) \/ SQ!Front(t) \/ SQ!PopUnlock(t)
    <3>1. UNCHANGED <<q, popped>>
      BY <2>4 DEF SQ!PushLock, SQ!Lock, SQ!NotifyOne, SQ!PushUnlock, SQ!Unlock,
                  SQ!PopLock, SQ!Test, SQ!Front, SQ!PopUnlock
    <3>2. \A u \in Threads : Pushing(u)' => Pushing(u)
      BY <2>4 DEF SQ!PushLock, SQ!Lock, SQ!NotifyOne, SQ!PushUnlock, SQ!Unlock,
                  SQ!PopLock, SQ!Test, SQ!Front, SQ!PopUnlock, SQ!Step, Pushing
    <3>3. \A u \in Threads : Pushing(u)' => val'[u] = val[u]
      <4>1. CASE SQ!Front(t)
        BY <4>1 DEF SQ!Front, SQ!Step, Pushing, SQ!TypeOK
      <4> QED
        BY <2>4, <4>1 DEF SQ!PushLock, SQ!Lock, SQ!NotifyOne, SQ!PushUnlock, SQ!Unlock,
                  SQ!PopLock, SQ!Test, SQ!PopUnlock
    <3>4. \A u \in Threads : Pushing(u)' => Pushing(u) /\ val'[u] = val[u]
      BY <3>2, <3>3
    <3> QED BY <2>1, <3>1, <3>4, OtherAnswers
  <2> QED
    BY <1>7, <2>2, <2>3, <2>4 DEF InQueue, SQ!PushStep, SQ!PopStep
<1> QED
  BY <1>1, <1>2, <1>3, <1>4, <1>5, <1>6, <1>7 DEF Next, HandlerStep, TaskStep, Threads

-----------------------------------------------------------------------------
(***************************************************************************)
(* The text of the answers.                                                *)
(***************************************************************************)
Text == {"chunk", "stop", "full", "failed", "refused", "torn", "end"}

LEMMA DataType == \A a : Data(a) \in Seq({"chunk", "stop"}) /\ Data(a) \in Seq(Text)
<1> TAKE a
<1>1. CASE a \in {"chunk", "stop"}
  BY <1>1 DEF Data, Text
<1>2. CASE a \notin {"chunk", "stop"}
  BY <1>2 DEF Data
<1> QED BY <1>1, <1>2

LEMMA DataOfType ==
  ASSUME NEW S, NEW s \in Seq(S)
  PROVE  DataOf(s) \in Seq(Text)
<1>1. [i \in DOMAIN s |-> Data(s[i])] \in Seq(Seq(Text))
  <2>1. DOMAIN s = 1..Len(s) /\ Len(s) \in Nat
    BY LenProperties
  <2>2. \A i \in 1..Len(s) : Data(s[i]) \in Seq(Text)
    BY DataType
  <2> QED BY <2>1, <2>2
<1> QED BY <1>1, FlattenType DEF DataOf

LEMMA DataOfEmpty == DataOf(<<>>) = <<>>
<1>1. [i \in DOMAIN <<>> |-> Data(<<>>[i])] = <<>>
  OBVIOUS
<1> QED BY <1>1, FlattenEmpty DEF DataOf

LEMMA DataOfAppend ==
  ASSUME NEW S, NEW s \in Seq(S), NEW a \in S
  PROVE  DataOf(Append(s, a)) = DataOf(s) \o Data(a)
<1> DEFINE t == Append(s, a)
           f == [i \in DOMAIN s |-> Data(s[i])]
           g == [i \in DOMAIN t |-> Data(t[i])]
<1>1. Len(s) \in Nat /\ DOMAIN s = 1..Len(s) /\ DOMAIN t = 1..Len(s) + 1
      /\ t[Len(s) + 1] = a /\ \A i \in 1..Len(s) : t[i] = s[i]
  BY LenProperties, AppendProperties
<1> HIDE DEF t
<1>2. f \in Seq(Seq(Text)) /\ Len(f) = Len(s) /\ \A i \in 1..Len(s) : f[i] = Data(s[i])
  BY <1>1, DataType
<1>3. g \in Seq(Seq(Text)) /\ Len(g) = Len(s) + 1 /\ g[Len(s) + 1] = Data(a)
      /\ \A i \in 1..Len(s) : g[i] = Data(s[i])
  BY <1>1, DataType
<1> HIDE DEF f, g
<1>4. Data(a) \in Seq(Text)
  BY DataType
<1>5. g = Append(f, Data(a))
  BY <1>1, <1>2, <1>3, <1>4
<1>6. FlattenSeq(g) = FlattenSeq(f) \o Data(a)
  BY <1>2, <1>4, <1>5, FlattenAppend
<1> QED BY <1>6 DEF DataOf, f, g, t

LEMMA AllDataIs == AllData = DataOf(popped)
BY DEF AllData, DataOf

(* What has been popped, seen from its last answer.                        *)
LEMMA LastPopped ==
  ASSUME SQ!TypeOK, popped # <<>>
  PROVE  /\ Front(popped) \in Seq(Answers) /\ Last(popped) \in Answers
         /\ AllData = DataOf(Front(popped)) \o Data(Last(popped))
         /\ DataOf(Front(popped)) \in Seq(Text)
<1>1. PICK s \in Seq(Answers), a \in Answers : s = Front(popped) /\ a = Last(popped) /\ popped = Append(s, a)
  BY FrontLast DEF SQ!TypeOK
<1>2. DataOf(popped) = DataOf(s) \o Data(a)
  BY <1>1, DataOfAppend
<1> QED BY <1>1, <1>2, AllDataIs, DataOfType

(* A broken write stays one, whatever text follows.                        *)
LEMMA BrokenGrows ==
  ASSUME NEW b \in Seq(Text), NEW d \in Seq(Text), NEW e \in Seq(Text), BrokenAt(b, d)
  PROVE  BrokenAt(b, d \o e)
<1>1. CASE IsPrefix(b, d)
  BY <1>1, PrefixConcat DEF BrokenAt
<1>2. CASE b # <<>> /\ Last(b) = "torn" /\ IsPrefix(Front(b), d)
  <2>1. Front(b) \in Seq(Text)
    BY <1>2, FrontLast
  <2> QED BY <1>2, <2>1, PrefixConcat DEF BrokenAt
<1> QED BY <1>1, <1>2 DEF BrokenAt

LEMMA BreaksAt ==
  ASSUME NEW d \in Seq(Text), NEW b \in {d, Append(d, "torn")}
  PROVE  BrokenAt(b, d) /\ b \in Seq(Text)
<1>1. "torn" \in Text
  BY DEF Text
<1>2. CASE b = d
  BY <1>2, PrefixSelf DEF BrokenAt
<1>3. CASE b = Append(d, "torn")
  <2>1. b # <<>> /\ Last(b) = "torn" /\ Front(b) = d /\ b \in Seq(Text)
    BY <1>1, <1>3, FrontLastAppend
  <2> QED BY <2>1, PrefixSelf DEF BrokenAt
<1> QED BY <1>2, <1>3

-----------------------------------------------------------------------------
(***************************************************************************)
(* The response, step by step.                                             *)
(***************************************************************************)
BodyType == body \in Seq(Text)

(* Nothing is written, and nothing popped.                                 *)
LEMMA SamePopped == UNCHANGED popped => AllData' = AllData /\ Finished' = Finished
BY DEF AllData, Finished

LEMMA SameBody ==
  UNCHANGED <<body, ok, popped>> =>
    /\ Broken(AllData)' = Broken(AllData)
    /\ WrittenSoFar(AllData)' = WrittenSoFar(AllData)
    /\ Whole' = Whole
    /\ DataOf(Front(popped))' = DataOf(Front(popped))
    /\ WrittenSoFar(DataOf(Front(popped)))' = WrittenSoFar(DataOf(Front(popped)))
    /\ Chunks(popped)' = Chunks(popped) /\ Chunks(Front(popped))' = Chunks(Front(popped))
BY SamePopped DEF Broken, BrokenAt, WrittenSoFar, Whole, DataOf, Chunks, Data

(* The handler has only moved.                                             *)
LEMMA StayKeeps ==
  ASSUME BodyInv, UNCHANGED <<popped, body, ok, data_available, result, status, stream, hpc>>,
         Unanswered' = Unanswered, stopped => stopped'
  PROVE  BodyInv'
<1> USE SameBody, SamePopped DEF BodyInv
<1>1. CASE hpc = "ended"
  BY <1>1
<1>2. CASE hpc # "ended"
  BY <1>2
<1> QED BY <1>1, <1>2

(* A stream before its first answer has no text.                           *)
LEMMA NothingPopped ==
  ASSUME popped = <<>>, body = <<>>
  PROVE  AllData = <<>> /\ Broken(AllData) /\ Chunks(popped)
<1>1. AllData = <<>>
  BY AllDataIs, DataOfEmpty
<1>2. IsPrefix(<<>>, <<>>)
  <2>1. <<>> \in Seq(Text)
    OBVIOUS
  <2> QED BY <2>1, PrefixSelf
<1>3. Chunks(popped)
  BY DEF Chunks
<1> QED BY <1>1, <1>2, <1>3 DEF Broken, BrokenAt

LEMMA MoveKeeps ==
  ASSUME BodyInv, OfItsKind, InStep, 
         Handle \/ Refused \/ StartStream \/ LoopEnds \/ NotWritable \/ CallProvider
           \/ ProviderReturned \/ Stop
  PROVE  BodyInv'
<1> USE DEF Goto
<1>1. CASE HandleThrows
  <2>1. popped' = <<>> /\ body' = <<>> /\ status' = 500 /\ hpc' = "ended" /\ result' = "success"
    BY <1>1 DEF HandleThrows, queueVars, BodyInv
  <2>2. Broken(AllData)'
    BY <2>1, NothingPopped, SameBody, <1>1 DEF HandleThrows, queueVars, BodyInv
  <2> QED BY <2>1, <2>2 DEF BodyInv
<1>2. CASE HandleRefused \/ HandleAccepted \/ Refused
  <2>1. UNCHANGED <<popped, body, ok, data_available, result>>
        /\ hpc \in {"idle", "refusing"} /\ hpc' \in {"refusing", "respond"}
    BY <1>2 DEF HandleRefused, HandleAccepted, Refused, queueVars, sendVars, SQ!Push
  <2> QED BY <2>1 DEF BodyInv
<1>3. CASE StartStream
  BY <1>3 DEF StartStream, queueVars, BodyInv
<1>4. CASE LoopEnds
  <2>1. UNCHANGED <<popped, body, ok, data_available, status, stopped, stream>>
        /\ hpc = "loop" /\ hpc' = "ended" /\ result' = "success" /\ stream
    BY <1>4 DEF LoopEnds, queueVars, OfItsKind
  <2>2. CASE data_available
    <3>1. stopped /\ popped = <<>> /\ body = <<>>
      BY <1>4, <2>1, <2>2 DEF LoopEnds, BodyInv
    <3>2. Broken(AllData)'
      BY <2>1, <3>1, NothingPopped, SameBody
    <3> QED BY <2>1, <3>1, <3>2 DEF BodyInv
  <2>3. CASE ~data_available
    <3>1. Finished' /\ Whole'
      BY <2>1, <2>3, SameBody, SamePopped DEF BodyInv
    <3> QED BY <2>1, <3>1 DEF BodyInv
  <2> QED BY <2>2, <2>3
<1>5. CASE NotWritable
  <2>1. UNCHANGED <<popped, body, ok, stream>> /\ hpc' = "ended" /\ result' = "write"
        /\ stream /\ popped = <<>> /\ body = <<>>
    BY <1>5 DEF NotWritable, queueVars, OfItsKind, BodyInv
  <2>2. Broken(AllData)'
    BY <2>1, NothingPopped, SameBody
  <2> QED BY <2>1, <2>2 DEF BodyInv
<1>6. CASE CallProvider
  <2>1. UNCHANGED <<popped, body, ok, result>> /\ hpc' = "provide" /\ hpc = "loop"
        /\ ok /\ popped = <<>> /\ body = <<>>
    BY <1>6 DEF CallProvider, queueVars, sendVars, BodyInv
  <2>2. Chunks(popped)' /\ WrittenSoFar(AllData)'
    BY <2>1, NothingPopped, SameBody DEF WrittenSoFar
  <2> QED BY <2>1, <2>2 DEF BodyInv
<1>7. CASE ProviderReturned
  <2>1. UNCHANGED <<popped, body, ok, data_available, stream>> /\ hpc = "returned" /\ stream
    BY <1>7 DEF ProviderReturned, queueVars, OfItsKind
  <2>2. CASE ok
    <3>1. hpc' = "loop" /\ UNCHANGED result
      BY <1>7, <2>2 DEF ProviderReturned
    <3>2. ~data_available' /\ ok' /\ Finished' /\ Whole'
      BY <2>1, <2>2, SameBody, SamePopped DEF BodyInv
    <3> QED BY <2>1, <3>1, <3>2 DEF BodyInv
  <2>3. CASE ~ok
    <3>1. hpc' = "ended" /\ result' = "write"
      BY <1>7, <2>3 DEF ProviderReturned
    <3>2. Broken(AllData)'
      BY <2>1, <2>3, SameBody DEF BodyInv
    <3> QED BY <2>1, <3>1, <3>2 DEF BodyInv
  <2> QED BY <2>2, <2>3
<1>8. CASE Stop
  BY <1>8, StayKeeps DEF Stop, queueVars, sendVars, Unanswered
<1> QED
  BY <1>1, <1>2, <1>3, <1>4, <1>5, <1>6, <1>7, <1>8 DEF Handle

(* The handler goes to wait for an answer.                                 *)
LEMMA WaitKeeps ==
  ASSUME SQ!TypeOK, BodyInv, AwaitFull \/ ProviderWaits
  PROVE  BodyInv'
<1>1. UNCHANGED <<popped, body, ok, result>> /\ Unanswered'
  BY DEF AwaitFull, ProviderWaits, SQ!WaitAndPop, SQ!Step, sendVars, Unanswered, SQ!PopPC,
         SQ!TypeOK, Threads
<1>2. CASE AwaitFull
  BY <1>1, <1>2 DEF AwaitFull, Goto, BodyInv
<1>3. CASE ProviderWaits
  <2>1. hpc = "provide" /\ hpc' = "write"
    BY <1>3 DEF ProviderWaits, Goto
  <2>2. Chunks(popped)' /\ WrittenSoFar(AllData)'
    BY <1>1, <2>1, SameBody DEF BodyInv
  <2> QED BY <1>1, <2>1, <2>2 DEF BodyInv
<1> QED BY <1>2, <1>3

(* A full response: the only answer there is.                              *)
LEMMA FullKeeps ==
  ASSUME SQ!TypeOK, InStep, OfItsKind, AnswersInv, BodyInv, SendFull
  PROVE  BodyInv'
<1>1. hpc = "full" /\ hpc' = "ended" /\ ~stream /\ pc[Handler] = "out"
      /\ UNCHANGED <<popped, stream>>
  BY DEF SendFull, Goto, OfItsKind, queueVars
<1>2. body = <<>> /\ popped # <<>>
  BY <1>1 DEF BodyInv, Unanswered, SQ!PopPC
<1>3. popped \in Seq(Answers) /\ q \in Seq(Answers) /\ Len(popped) \in Nat /\ Len(popped) >= 1
      /\ Len(q) \in Nat
  BY <1>2, EmptySeq, LenProperties DEF SQ!TypeOK
<1>4. Len(Given) = Len(popped) + Len(q)
      /\ Given[1] = popped[1] /\ Given[Len(popped)] = popped[Len(popped)]
  BY <1>3, ConcatProperties DEF Given
<1>5. Given[1] \in {"refused", "full", "failed"} /\ 1 = Len(Given)
  <2>1. 1 \in 1..Len(Given)
    BY <1>3, <1>4
  <2>2. AnswersOf(stream) = {"refused", "full", "failed"}
    BY <1>1 DEF AnswersOf, LastAnswers
  <2>3. Given[1] \in {"refused", "full", "failed"}
    BY <2>1, <2>2 DEF AnswersInv, LastIsLast
  <2> QED BY <2>1, <2>2, <2>3 DEF AnswersInv, LastIsLast
<1>6. Len(popped) = 1 /\ Last(popped) = popped[1] /\ Last(popped) \in Terminal
  <2>1. Len(popped) = 1
    <3>1. PICK m \in Nat, n \in Nat : m = Len(popped) /\ n = Len(q) /\ m >= 1
      BY <1>3
    <3>2. 1 = m + n
      BY <1>4, <1>5, <3>1
    <3>3. m = 1
      BY <3>1, <3>2
    <3> QED BY <3>1, <3>3
  <2> QED BY <1>4, <1>5, <2>1 DEF Last, Terminal
<1>7. popped = <<Last(popped)>>
  BY <1>3, <1>6
<1>8. result' = "success" => body' = <<Last(popped)>>
  <2>1. <<>> \o <<Last(popped)>> = <<Last(popped)>>
    OBVIOUS
  <2> QED BY <1>2, <2>1 DEF SendFull, Written
<1>9. Finished'
  BY <1>1, <1>2, <1>6 DEF Finished
<1> QED BY <1>1, <1>7, <1>8, <1>9 DEF BodyInv

(* What a broken write leaves is the text so far, or the text so far and   *)
(* some of an answer.                                                      *)
LEMMA NotWrittenBreaks ==
  ASSUME NEW d \in Seq(Text), body = d, NotWritten
  PROVE  BrokenAt(body', d)
BY BreaksAt DEF NotWritten

LEMMA WritesKeeps ==
  ASSUME SQ!TypeOK, BodyType, BodyInv, ProviderWrites
  PROVE  BodyInv'
<1>1. hpc = "write" /\ pc[Handler] = "out" /\ UNCHANGED <<popped, result>>
      /\ hpc' = IF Last(popped) \in Terminal THEN "done" ELSE "provide"
  BY DEF ProviderWrites, SinkWrite, queueVars
<1>2. popped # <<>> /\ Chunks(Front(popped)) /\ WrittenSoFar(DataOf(Front(popped)))
      /\ result = "none"
  BY <1>1 DEF BodyInv, Unanswered, SQ!PopPC
<1>3. PICK d \in Seq(Text), e \in Seq(Text) :
        d = DataOf(Front(popped)) /\ e = Data(Last(popped)) /\ AllData = d \o e
  BY <1>2, LastPopped, DataType
<1>4. AllData' = d \o e
  BY <1>1, <1>3, SamePopped
<1>5. WrittenSoFar(AllData)'
  <2>1. CASE ok
    <3>1. body = d
      BY <1>2, <1>3, <2>1 DEF WrittenSoFar
    <3>2. \/ body' = body \o e /\ ok'
          \/ NotWritten /\ ~ok'
      BY <1>3, <2>1 DEF ProviderWrites, SinkWrite, Written
    <3>3. CASE body' = body \o e /\ ok'
      BY <1>4, <3>1, <3>3 DEF WrittenSoFar
    <3>4. CASE NotWritten /\ ~ok'
      <4>1. BrokenAt(body', d) /\ body' \in Seq(Text)
        BY <3>1, <3>4, BreaksAt DEF NotWritten
      <4>2. BrokenAt(body', d \o e)
        BY <4>1, BrokenGrows
      <4> QED BY <1>4, <3>4, <4>2 DEF WrittenSoFar, Broken
    <3> QED BY <3>2, <3>3, <3>4
  <2>2. CASE ~ok
    <3>1. UNCHANGED <<body, ok>>
      BY <2>2 DEF ProviderWrites, SinkWrite
    <3>2. BrokenAt(body, d) /\ body \in Seq(Text)
      BY <1>2, <1>3, <2>2 DEF WrittenSoFar, Broken, BodyType
    <3>3. BrokenAt(body, d \o e)
      BY <3>2, BrokenGrows
    <3> QED BY <1>4, <2>2, <3>1, <3>3 DEF WrittenSoFar, Broken
  <2> QED BY <2>1, <2>2
<1>6. CASE Last(popped) \in Terminal
  <2>1. Finished'
    BY <1>1, <1>2, <1>6 DEF Finished
  <2> QED BY <1>1, <1>2, <1>5, <1>6, <2>1 DEF BodyInv
<1>7. CASE Last(popped) \notin Terminal
  <2>1. Last(popped) = "chunk"
    BY <1>2, <1>7, LastPopped DEF Answers
  <2>2. Chunks(popped)
    <3>1. PICK s \in Seq(Answers) : s = Front(popped) /\ popped = Append(s, "chunk")
      BY <1>2, <2>1, FrontLast DEF SQ!TypeOK
    <3>2. "chunk" \in Answers /\ Chunks(s)
      BY <1>2, <3>1 DEF Answers
    <3> QED BY <3>1, <3>2, AppendProperties, LenProperties DEF Chunks
  <2>3. Chunks(popped)'
    BY <1>1, <2>2 DEF Chunks
  <2> QED BY <1>1, <1>2, <1>5, <1>7, <2>3 DEF BodyInv
<1> QED BY <1>6, <1>7

LEMMA DoneKeeps ==
  ASSUME SQ!TypeOK, BodyInv, SinkDone
  PROVE  BodyInv'
<1>1. hpc = "done" /\ hpc' = "returned" /\ UNCHANGED <<popped, result>>
  BY DEF SinkDone, Goto, queueVars
<1>2. Finished' /\ WrittenSoFar(AllData) /\ result = "none" /\ AllData' = AllData
  BY <1>1, SamePopped DEF BodyInv
<1>3. AllData \in Seq(Text)
  BY AllDataIs, DataOfType DEF SQ!TypeOK
<1>4. IF ok' THEN ~data_available' /\ Whole' ELSE Broken(AllData)'
  <2>1. CASE ok
    <3>1. body = AllData /\ ~data_available'
      BY <1>2, <2>1 DEF WrittenSoFar, SinkDone
    <3>2. CASE body' = body \o <<"end">> /\ ok'
      BY <1>2, <3>1, <3>2 DEF Whole
    <3>3. CASE NotWritten /\ ~ok'
      BY <1>2, <1>3, <3>1, <3>3, NotWrittenBreaks DEF Broken
    <3> QED BY <2>1, <3>2, <3>3 DEF SinkDone, Written
  <2>2. CASE ~ok
    <3>1. UNCHANGED <<body, ok>> /\ Broken(AllData)
      BY <1>2, <2>2 DEF SinkDone, WrittenSoFar
    <3> QED BY <1>2, <2>2, <3>1 DEF Broken
  <2> QED BY <2>1, <2>2
<1> QED BY <1>1, <1>2, <1>4 DEF BodyInv

(* The handler gets an answer.                                             *)
LEMMA PopKeeps ==
  ASSUME SQ!TypeOK, SQ!FrontIsPopped, InStep, BodyInv, NEW t \in Threads, SQ!PopItem(t),
         UNCHANGED <<stream, hpc, tpc, sendVars, stopped>>
  PROVE  BodyInv'
<1>1. t = Handler /\ pc[Handler] = "pop" /\ pc'[Handler] = "pop_unlock"
      /\ hpc \in {"full", "write"}
  BY DEF InStep, Outside, HandlerPC, SQ!PopItem, SQ!Step, SQ!PushPC, Threads, SQ!TypeOK
<1>2. Unanswered /\ ~Unanswered'
  BY <1>1 DEF Unanswered, SQ!PopPC
<1>3. popped' = Append(popped, val[t]) /\ val[t] \in Answers /\ popped \in Seq(Answers)
  <2>1. q \in Seq(Answers) /\ q # <<>> /\ val[t] = Head(q)
    BY <1>1 DEF SQ!FrontIsPopped, SQ!TypeOK
  <2>2. Head(q) \in Answers
    BY <2>1
  <2> QED BY <2>1, <2>2 DEF SQ!PopItem, SQ!TypeOK
<1>4. popped' # <<>> /\ Front(popped') = popped
  BY <1>3, FrontLastAppend
<1>5. UNCHANGED <<body, ok, data_available, result, status, stopped, stream, hpc>>
  BY DEF sendVars
<1>6. CASE hpc = "full"
  BY <1>2, <1>4, <1>5, <1>6 DEF BodyInv
<1>7. CASE hpc = "write"
  <2>1. Chunks(popped) /\ WrittenSoFar(AllData)
    BY <1>2, <1>7 DEF BodyInv
  <2>2. Chunks(Front(popped))' /\ DataOf(Front(popped))' = AllData
    BY <1>4, <2>1, AllDataIs DEF Chunks, DataOf, Data
  <2>3. WrittenSoFar(DataOf(Front(popped)))'
    BY <1>5, <2>1, <2>2 DEF WrittenSoFar, Broken
  <2> QED BY <1>2, <1>4, <1>5, <1>7, <2>2, <2>3 DEF BodyInv
<1> QED BY <1>1, <1>6, <1>7

(* The other steps in the SyncQueue do not change whether it has one.      *)
LEMMA QueueKeeps ==
  ASSUME SQ!TypeOK, SQ!FrontIsPopped, InStep, BodyInv, NEW t \in Threads,
         InQueue(t) \/ Wakeup \/ \E a \in Answers : TaskAnswers(a)
  PROVE  BodyInv'
<1> USE ThreadAssumption DEF Threads
<1> pc \in [Threads -> SQ!PCs]
  BY DEF SQ!TypeOK
<1>1. CASE SQ!PopItem(t) /\ InQueue(t)
  BY <1>1, PopKeeps DEF InQueue
<1>2. ASSUME UNCHANGED popped, Unanswered' = Unanswered,
             UNCHANGED <<stream, hpc, sendVars, stopped>>
      PROVE  BodyInv'
  BY <1>2, StayKeeps DEF sendVars
<1>3. CASE Wakeup
  <2>1. UNCHANGED popped /\ Unanswered' = Unanswered
    BY <1>3 DEF Wakeup, SQ!SpuriousWakeup, SQ!Step, Unanswered, SQ!PopPC
  <2> QED BY <1>2, <1>3, <2>1 DEF Wakeup
<1>4. CASE \E a \in Answers : TaskAnswers(a)
  <2>1. UNCHANGED popped /\ Unanswered' = Unanswered /\ UNCHANGED <<stream, hpc, sendVars, stopped>>
    BY <1>4 DEF TaskAnswers, SQ!Push, SQ!Step, Unanswered
  <2> QED BY <1>2, <2>1
<1>5. CASE InQueue(t) /\ ~SQ!PopItem(t)
  <2>1. UNCHANGED popped
    BY <1>5 DEF InQueue, SQ!PushStep, SQ!PopStep, SQ!PushLock, SQ!PushItem, SQ!NotifyOne,
       SQ!PushUnlock, SQ!PopLock, SQ!Test, SQ!Front, SQ!PopUnlock, SQ!Lock, SQ!Unlock
  <2>2. Unanswered' = Unanswered
    BY <1>5 DEF InQueue, SQ!PushStep, SQ!PopStep, SQ!PushLock, SQ!PushItem, SQ!NotifyOne,
       SQ!PushUnlock, SQ!PopLock, SQ!Test, SQ!Front, SQ!PopUnlock, SQ!Lock, SQ!Unlock, SQ!Step,
       Unanswered, SQ!PopPC
  <2> QED BY <1>2, <1>5, <2>1, <2>2 DEF InQueue
<1> QED BY <1>1, <1>3, <1>4, <1>5

LEMMA BodyKept ==
  ASSUME SQ!TypeOK, SQ!FrontIsPopped, InStep, OfItsKind, AnswersInv, BodyType, BodyInv,
         [Next]_vars
  PROVE  BodyInv'
<1>1. CASE UNCHANGED vars
  BY <1>1, StayKeeps DEF vars, queueVars, sendVars, Unanswered
<1>2. CASE Handle \/ Refused \/ StartStream \/ LoopEnds \/ NotWritable \/ CallProvider
           \/ ProviderReturned \/ Stop
  BY <1>2, MoveKeeps
<1>3. CASE AwaitFull \/ ProviderWaits
  BY <1>3, WaitKeeps
<1>4. CASE SendFull \/ ProviderWrites \/ SinkDone
  BY <1>4, FullKeeps, WritesKeeps, DoneKeeps
<1>5. ASSUME NEW t \in Threads,
             InQueue(t) \/ Wakeup \/ \E a \in Answers : TaskAnswers(a)
      PROVE  BodyInv'
  BY <1>5, QueueKeeps
<1> QED
  BY <1>1, <1>2, <1>3, <1>4, <1>5 DEF Next, HandlerStep, TaskStep, Threads

-----------------------------------------------------------------------------
(***************************************************************************)
(* Types, and the theorems.                                                *)
(***************************************************************************)
OwnTypes ==
  /\ stream \in BOOLEAN /\ data_available \in BOOLEAN /\ ok \in BOOLEAN /\ stopped \in BOOLEAN
  /\ tpc \in {"none", "running", "done"}
  /\ status \in {-1, 200, 409, 500}
  /\ result \in {"none", "success", "write"}
  /\ BodyType

ChatInv == Q!QueueInv /\ InStep /\ OfItsKind /\ AnswersInv /\ BodyInv /\ OwnTypes

LEMMA InitChatInv == Init => ChatInv
<1> SUFFICES ASSUME Init PROVE ChatInv
  OBVIOUS
<1> USE DEF Init, SQ!Init
<1>1. Q!QueueInv
  <2>1. Q!Init
    BY DEF Q!Init
  <2> QED BY <2>1, QueueAssumed, Q!InitQueueInv
<1>2. InStep /\ OfItsKind /\ pc[Handler] = "out" /\ pc[Task] = "out"
  BY DEF InStep, OfItsKind, Outside, HandlerPC, Threads
<1>3. AnswersInv
  <2>1. Given = <<>>
    BY DEF Given
  <2>2. LastIsLast
    BY <2>1 DEF LastIsLast
  <2> QED BY <1>2, <2>2 DEF AnswersInv, PushesLast, Counted, Pushing, Threads
<1>4. BodyInv
  BY DEF BodyInv
<1>5. OwnTypes
  <2>1. stream \in BOOLEAN /\ data_available \in BOOLEAN /\ ok \in BOOLEAN /\ stopped \in BOOLEAN
    BY Zenon
  <2>2. BodyType
    BY DEF BodyType
  <2> QED BY <2>1, <2>2 DEF OwnTypes
<1> QED BY <1>1, <1>2, <1>3, <1>4, <1>5 DEF ChatInv

(* The text of an answer of a request that is not streamed.                *)
LEMMA FullAnswerType ==
  ASSUME SQ!TypeOK, OfItsKind, AnswersInv, BodyInv, SendFull
  PROVE  Last(popped) \in {"full", "failed", "refused"}
<1>1. ~stream /\ popped # <<>>
  BY DEF SendFull, Goto, OfItsKind, BodyInv, Unanswered, SQ!PopPC
<1>2. popped \in Seq(Answers) /\ q \in Seq(Answers) /\ Len(popped) \in Nat /\ Len(popped) >= 1
      /\ Len(q) \in Nat
  BY <1>1, EmptySeq, LenProperties DEF SQ!TypeOK
<1>3. Len(Given) = Len(popped) + Len(q) /\ Given[Len(popped)] = popped[Len(popped)]
  BY <1>2, ConcatProperties DEF Given
<1>4. AnswersOf(stream) = {"refused", "full", "failed"}
  BY <1>1 DEF AnswersOf, LastAnswers
<1>5. Len(popped) \in 1..Len(Given)
  BY <1>2, <1>3
<1>6. Given[Len(popped)] \in {"refused", "full", "failed"}
  BY <1>4, <1>5 DEF AnswersInv, LastIsLast
<1> QED BY <1>3, <1>6 DEF Last

LEMMA BodyTypeKept ==
  ASSUME SQ!TypeOK, OfItsKind, AnswersInv, BodyInv, BodyType, [Next]_vars
  PROVE  BodyType'
<1>1. body \in Seq(Text) /\ "torn" \in Text /\ "end" \in Text
  BY DEF BodyType, Text
<1>2. ASSUME NEW s \in Seq(Text), Written(s) \/ NotWritten
      PROVE  BodyType'
  <2>1. body \o s \in Seq(Text)
    BY <1>1, ConcatProperties
  <2>2. Append(body, "torn") \in Seq(Text)
    BY <1>1, AppendProperties
  <2> QED BY <1>1, <1>2, <2>1, <2>2 DEF BodyType, Written, NotWritten
<1>3. CASE SendFull
  <2>1. <<Last(popped)>> \in Seq(Text)
    BY <1>3, FullAnswerType DEF Text
  <2> QED BY <1>2, <1>3, <2>1 DEF SendFull
<1>4. CASE ProviderWrites
  BY <1>1, <1>2, <1>4, DataType DEF ProviderWrites, SinkWrite, BodyType
<1>5. CASE SinkDone
  <2>1. <<"end">> \in Seq(Text)
    BY <1>1
  <2> QED BY <1>1, <1>2, <1>5, <2>1 DEF SinkDone, BodyType
<1>6. CASE UNCHANGED body
  BY <1>6 DEF BodyType
<1> QED
  BY <1>3, <1>4, <1>5, <1>6 DEF Next, Handle, HandlerStep, TaskStep, HandleThrows,
     HandleRefused, HandleAccepted, Refused, AwaitFull, StartStream, LoopEnds, NotWritable,
     CallProvider, ProviderReturned, ProviderWaits, Stop, Wakeup, InQueue, TaskAnswers,
     sendVars, vars

LEMMA OwnTypesKept ==
  ASSUME SQ!TypeOK, OfItsKind, AnswersInv, BodyInv, OwnTypes, [Next]_vars
  PROVE  OwnTypes'
<1>1. BodyType'
  BY BodyTypeKept DEF OwnTypes
<1>2. stream' \in BOOLEAN /\ data_available' \in BOOLEAN /\ ok' \in BOOLEAN /\ stopped' \in BOOLEAN
  <2>1. stream \in BOOLEAN /\ data_available \in BOOLEAN /\ ok \in BOOLEAN /\ stopped \in BOOLEAN
    BY Zenon DEF OwnTypes
  <2>2. CASE Handle \/ Wakeup \/ InQueue(Handler) \/ TaskStep \/ UNCHANGED vars
    <3>1. UNCHANGED <<stream, data_available, ok, stopped>>
      BY <2>2 DEF Handle, HandleThrows, HandleRefused, HandleAccepted, Wakeup, InQueue,
         TaskStep, TaskAnswers, sendVars, vars
    <3> QED BY <2>1, <3>1, Zenon
  <2>3. CASE Refused \/ AwaitFull \/ SendFull \/ StartStream \/ LoopEnds \/ NotWritable
             \/ CallProvider \/ ProviderReturned \/ ProviderWaits
    BY <2>1, <2>3, Zenon DEF Refused, AwaitFull, SendFull, StartStream, LoopEnds,
       NotWritable, CallProvider, ProviderReturned, ProviderWaits, sendVars
  <2>4. CASE ProviderWrites \/ SinkDone
    BY <2>1, <2>4, Zenon DEF ProviderWrites, SinkWrite, SinkDone
  <2>5. CASE Stop
    BY <2>1, <2>5, Zenon DEF Stop, sendVars
  <2> QED
    BY <2>2, <2>3, <2>4, <2>5, Zenon DEF Next, HandlerStep
<1>3. tpc' \in {"none", "running", "done"} /\ status' \in {-1, 200, 409, 500}
      /\ result' \in {"none", "success", "write"}
  BY DEF OwnTypes, Next, Handle, HandlerStep, TaskStep, HandleThrows,
     HandleRefused, HandleAccepted, Refused, AwaitFull, SendFull, StartStream, LoopEnds,
     NotWritable, CallProvider, ProviderReturned, ProviderWaits, ProviderWrites, SinkWrite,
     SinkDone, Stop, Wakeup, InQueue, TaskAnswers, sendVars, vars, StatusOf
<1> QED BY <1>1, <1>2, <1>3 DEF OwnTypes

LEMMA NextChatInv == ChatInv /\ [Next]_vars => ChatInv'
<1> SUFFICES ASSUME ChatInv, [Next]_vars PROVE ChatInv'
  OBVIOUS
<1>1. SQ!TypeOK /\ SQ!FrontIsPopped /\ BodyType
  BY QueueInvIs DEF ChatInv, OwnTypes
<1>2. Q!QueueInv'
  BY <1>1, QueueKept DEF ChatInv
<1>3. InStep' /\ OfItsKind'
  BY <1>1, PlacesKept DEF ChatInv
<1>4. AnswersInv'
  BY <1>1, AnswersKept DEF ChatInv
<1>5. BodyInv'
  BY <1>1, BodyKept DEF ChatInv
<1>6. OwnTypes'
  BY <1>1, OwnTypesKept DEF ChatInv
<1> QED BY <1>2, <1>3, <1>4, <1>5, <1>6 DEF ChatInv

(* The types of the members and locals that a chat uses.                   *)
THEOREM TypeCorrect == Spec => []TypeOK
<1>1. ChatInv => TypeOK
  BY QueueInvIs DEF ChatInv, TypeOK, OwnTypes, BodyType, Text, InStep
<1> QED BY <1>1, InitChatInv, NextChatInv, PTL DEF Spec

(* The last answer is the last one in the queue, too.                      *)
LEMMA FinishedMeansAnswered == ChatInv /\ Finished => AllAnswered
<1> SUFFICES ASSUME ChatInv, Finished PROVE q = <<>>
  BY DEF Finished, AllAnswered
<1>1. popped \in Seq(Answers) /\ q \in Seq(Answers) /\ popped # <<>>
  BY QueueInvIs DEF ChatInv, SQ!TypeOK, Finished
<1>2. Len(popped) \in Nat /\ Len(popped) >= 1 /\ Len(q) \in Nat
  BY <1>1, EmptySeq, LenProperties
<1>3. Len(Given) = Len(popped) + Len(q) /\ Given[Len(popped)] = popped[Len(popped)]
  BY <1>1, <1>2, ConcatProperties DEF Given
<1>4. Given[Len(popped)] # "chunk" /\ Len(popped) \in 1..Len(Given)
  BY <1>2, <1>3 DEF Finished, Last, Terminal
<1>5. Len(popped) = Len(Given)
  BY <1>4 DEF ChatInv, AnswersInv, LastIsLast
<1>6. Len(q) = 0
  BY <1>2, <1>3, <1>5
<1> QED BY <1>1, <1>6, EmptySeq

(* What process_stream_res and write_content_chunked send is the text of   *)
(* the engine's answers, in order, and its end is that of the text.        *)
THEOREM StreamCorrect == Spec => []StreamIsFaithful
<1>1. ChatInv => StreamIsFaithful
  <2> SUFFICES ASSUME ChatInv, stream
               PROVE  Broken(AllData) \/ (Finished /\ Whole)
    BY FinishedMeansAnswered DEF StreamIsFaithful, Broken, BrokenAt, Whole
  <2>1. SQ!TypeOK /\ hpc \in HandlerPC /\ OfItsKind /\ BodyInv /\ body \in Seq(Text)
    BY QueueInvIs DEF ChatInv, InStep, OwnTypes, BodyType
  <2>2. AllData \in Seq(Text)
    BY <2>1, AllDataIs, DataOfType DEF SQ!TypeOK
  <2>3. CASE hpc \in {"idle", "refusing", "respond"}
    BY <2>1, <2>3, NothingPopped DEF BodyInv
  <2>4. CASE hpc = "loop"
    BY <2>1, <2>4, NothingPopped DEF BodyInv
  <2>5. CASE WrittenSoFar(AllData)
    BY <2>2, <2>5, PrefixSelf DEF WrittenSoFar, Broken, BrokenAt
  <2>6. CASE hpc = "write" /\ ~Unanswered
    <3>1. popped # <<>> /\ WrittenSoFar(DataOf(Front(popped)))
      BY <2>1, <2>6 DEF BodyInv
    <3>2. PICK d \in Seq(Text), e \in Seq(Text) : d = DataOf(Front(popped)) /\ AllData = d \o e
      BY <2>1, <3>1, LastPopped, DataType
    <3>3. BrokenAt(body, d)
      BY <3>1, <3>2, PrefixSelf DEF WrittenSoFar, Broken, BrokenAt
    <3>4. BrokenAt(body, d \o e)
      BY <2>1, <3>3, BrokenGrows
    <3> QED BY <3>2, <3>4 DEF Broken
  <2>7. CASE hpc \in {"returned", "ended"}
    BY <2>1, <2>7 DEF BodyInv
  <2> QED
    BY <2>1, <2>3, <2>4, <2>5, <2>6, <2>7 DEF HandlerPC, OfItsKind, BodyInv
<1> QED BY <1>1, InitChatInv, NextChatInv, PTL DEF Spec

(* A response that httplib takes to have been sent is all of it.           *)
THEOREM SentIsWhole == Spec => []SentMeansWhole
<1>1. ChatInv => SentMeansWhole
  <2> SUFFICES ASSUME ChatInv, result = "success"
               PROVE  \/ Finished /\ body = IF stream THEN AllData \o <<"end">> ELSE popped
                      \/ body = <<>> /\ (stopped \/ status = 500)
    BY FinishedMeansAnswered DEF SentMeansWhole
  <2>1. hpc = "ended" /\ BodyInv
    BY DEF ChatInv, BodyInv
  <2> QED BY <2>1 DEF BodyInv, Whole
<1> QED BY <1>1, InitChatInv, NextChatInv, PTL DEF Spec

(* A chat uses its queue as the users of a SyncQueue do, so that what is   *)
(* proved of every SyncQueue holds of it.                                  *)
THEOREM UsesSyncQueue == Spec => SQ!Spec
<1>1. Init => SQ!Init
  BY DEF Init
<1>2. ChatInv /\ [Next]_vars => [SQ!Next]_(SQ!vars)
  BY QueueInvIs, NextIsQueueStep DEF ChatInv
<1> QED BY <1>1, <1>2, InitChatInv, NextChatInv, PTL DEF Spec, SQ!Spec

(* So the handler of a chat is never left waiting beside an answer that    *)
(* the callback has pushed, with nobody awake or about to be woken for it. *)
THEOREM ChatWakeupNotLost == Spec => []Q!NoLostWakeup
<1>1. Init => Q!NoLostWakeup
  BY DEF Init, SQ!Init, Q!NoLostWakeup, Q!Waiting
<1>2. ChatInv /\ Q!NoLostWakeup /\ [Next]_vars => Q!NoLostWakeup'
  BY QueueInvIs, NextIsQueueStep, SameNext, QueueAssumed, Q!NextKeepsWakeup
     DEF ChatInv, SQ!vars, Q!vars
<1> QED BY <1>1, <1>2, InitChatInv, NextChatInv, PTL DEF Spec

(* And its queue hands over the answers as one with atomic operations.     *)
THEOREM ChatQueueIsAtomic == Spec => Q!IsAnswerQueue
<1>1. Init => Q!AQ!Init
  BY DEF Init, SQ!Init, Q!AQ!Init, Q!PopPC
<1>2. ChatInv /\ [Next]_vars => [Q!AQ!Next]_(Q!AQ!vars)
  BY QueueInvIs, NextIsQueueStep, SameNext, QueueAssumed, Q!StepRefines
     DEF ChatInv, SQ!vars, Q!vars
<1> QED
  BY <1>1, <1>2, InitChatInv, NextChatInv, PTL DEF Spec, Q!IsAnswerQueue, Q!AQ!Spec
=============================================================================
