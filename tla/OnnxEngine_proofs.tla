-------------------------- MODULE OnnxEngine_proofs --------------------------
(***************************************************************************)
(* Theorems about OnnxEngine, for every set of requests, every mix of      *)
(* operations and failures: first those that hold of clients that are      *)
(* Exclusive or not, then those that need them to be.                      *)
(***************************************************************************)
EXTENDS OnnxEngine, TLAPS

(* The request an action of Next belongs to takes the step, or nothing     *)
(* does: the case split that every proof below starts from.                *)
LEMMA NextCases ==
  ASSUME [Next]_vars,
         NEW P,
         ASSUME NEW r \in Requests, Call(r) PROVE P,
         ASSUME NEW r \in Requests, HandlerStep(r) PROVE P,
         ASSUME NEW r \in Requests, TaskStep(r) PROVE P,
         ASSUME NEW r \in Requests, Crash(r) PROVE P,
         ASSUME NEW r \in Requests, RunNext(r) PROVE P,
         ASSUME UNCHANGED vars PROVE P
  PROVE  P
BY DEF Next, ThreadStep, QueueStep

-----------------------------------------------------------------------------
(***************************************************************************)
(* Type correctness.                                                       *)
(***************************************************************************)
Pointers == {"oga_model", "tokenizer", "tokenizer_stream", "model_id"}

(* The assignments that the engine's threads make keep eng in Engines.     *)
LEMMA SetPointer ==
  ASSUME eng \in Engines, NEW m \in Pointers, NEW v \in OrNull(Requests)
  PROVE  [eng EXCEPT ![m] = v] \in Engines
BY DEF Engines, Pointers

LEMMA SetFlag ==
  ASSUME eng \in Engines, NEW f \in BOOLEAN
  PROVE  [eng EXCEPT !["model_loaded"] = f] \in Engines
BY DEF Engines

LEMMA SetPath ==
  ASSUME eng \in Engines, NEW p \in OrNull(Paths)
  PROVE  [eng EXCEPT !["path"] = p] \in Engines
BY DEF Engines

LEMMA TypeInit == Init => TypeOK
<1> SUFFICES ASSUME Init PROVE TypeOK
  OBVIOUS
<1>1. eng \in Engines
  <2>1. PICK f \in InitialFlags :
          eng = [oga_model |-> Null, tokenizer |-> Null, tokenizer_stream |-> Null,
                 model_loaded |-> f, path |-> Null, model_id |-> Null,
                 max_history_chat |-> 0]
    BY DEF Init
  <2>2. f \in BOOLEAN
    BY ModeAssumption
  <2> QED
    BY <2>1, <2>2 DEF Engines, OrNull
<1>2. sent \in [Requests -> Seq(Answers)] /\ tasks \in [Requests -> Seq(Requests)]
  BY DEF Init
<1> QED
  BY <1>1, <1>2 DEF Init, TypeOK, OrNull, PCs

(* What the helpers of the actions do to the types.                        *)
LEMMA GotoType ==
  ASSUME TypeOK, NEW r \in Requests, NEW l \in PCs, Goto(r, l)
  PROVE  pc' \in [Requests -> PCs]
BY DEF TypeOK, Goto

LEMMA ReplyType ==
  ASSUME TypeOK, NEW r \in Requests, NEW a \in Answers, Reply(r, a)
  PROVE  sent' \in [Requests -> Seq(Answers)]
<1>1. sent \in [Requests -> Seq(Answers)] /\ Append(sent[r], a) \in Seq(Answers)
  BY DEF TypeOK
<1> QED
  BY <1>1 DEF Reply

LEMMA BeginType ==
  ASSUME TypeOK, NEW r \in Requests, NEW o \in OpKinds, Begin(r, o)
  PROVE  op' \in [Requests -> OpKinds \cup {"none"}]
BY DEF TypeOK, Begin

LEMMA CheckType ==
  ASSUME TypeOK, NEW r \in Requests, NEW l \in PCs, CheckModelLoaded(r, l)
  PROVE  pc' \in [Requests -> PCs] /\ sent' \in [Requests -> Seq(Answers)]
<1>1. "returned" \in PCs /\ "refused" \in Answers
  BY DEF PCs, EndPC, Answers, Terminal, HasError
<1> QED
  BY <1>1, GotoType, ReplyType DEF CheckModelLoaded, TypeOK

LEMMA EndTaskType ==
  ASSUME TypeOK, NEW r \in Requests, NEW a \in Answers, EndTask(r, a)
  PROVE  /\ pc' \in [Requests -> PCs] /\ sent' \in [Requests -> Seq(Answers)]
         /\ busy' \in [Requests -> OrNull(Requests)]
<1>1. "returned" \in PCs
  BY DEF PCs, EndPC
<1>2. busy' \in [Requests -> OrNull(Requests)]
  BY DEF EndTask, LeaveThread, TypeOK, OrNull
<1> QED
  BY <1>1, <1>2, GotoType, ReplyType DEF EndTask, LeaveThread

(* The two kinds of step that most actions are made of.                    *)
LEMMA MoveType ==
  ASSUME TypeOK, NEW r \in Requests, NEW from, NEW to \in PCs, Move(r, from, to)
  PROVE  TypeOK'
BY DEF TypeOK, Move, Step, Goto, queueVars

LEMMA AssignType ==
  ASSUME TypeOK, NEW r \in Requests, NEW from, NEW m, NEW v, NEW to \in PCs,
         Assign(r, from, m, v, to), [eng EXCEPT ![m] = v] \in Engines
  PROVE  TypeOK'
BY DEF TypeOK, Assign, Step, Goto, Set, queueVars

LEMMA AssignPointerType ==
  ASSUME TypeOK, NEW r \in Requests, NEW from, NEW m \in Pointers,
         NEW v \in OrNull(Requests), NEW to \in PCs, Assign(r, from, m, v, to)
  PROVE  TypeOK'
BY AssignType, SetPointer DEF TypeOK

LEMMA EnginePointers ==
  ASSUME TypeOK
  PROVE  /\ Null \in OrNull(Requests) /\ \A r \in Requests : r \in OrNull(Requests)
         /\ eng.oga_model \in OrNull(Requests)
         /\ eng.tokenizer \in OrNull(Requests)
         /\ eng.path \in OrNull(Paths)
BY DEF TypeOK, Engines, OrNull

LEMMA TypeNext == TypeOK /\ [Next]_vars => TypeOK'
<1> SUFFICES ASSUME TypeOK, [Next]_vars PROVE TypeOK'
  OBVIOUS
<1> USE DEF PCs, LoadPC, UnloadPC, TaskPC, StreamPC, FullPC, EndPC,
            Answers, Terminal, IsDone, HasError
<1>1. ASSUME NEW r \in Requests, Call(r) PROVE TypeOK'
  <2>1. ASSUME NEW p \in Paths, NEW h \in Histories, LoadModel(r, p, h) PROVE TypeOK'
    <3>1. [eng EXCEPT !.path = p, !.max_history_chat = h] \in Engines
      BY BoundsAssumption DEF TypeOK, Engines, OrNull
    <3> QED
      BY <2>1, <3>1 DEF LoadModel, Begin, ArgumentsInUse, TypeOK, Goto, queueVars, OpKinds, Admin, Chats
  <2>2. ASSUME NEW p \in Paths, LoadThrows(r, p) PROVE TypeOK'
    <3>1. [eng EXCEPT !["path"] = p] \in Engines
      BY SetPath DEF TypeOK, OrNull
    <3> QED
      BY <2>2, <3>1 DEF LoadThrows, Begin, ArgumentsInUse, Set, TypeOK, Goto, queueVars, OpKinds, Admin, Chats
  <2>3. CASE UnloadModel(r)
    BY <2>3, CheckType, BeginType
    DEF UnloadModel, TypeOK, queueVars, OpKinds, Admin
  <2>4. CASE GetModels(r)
    BY <2>4, BeginType, GotoType, ReplyType
    DEF GetModels, ModelIdInUse, TypeOK, queueVars, OpKinds
  <2>5. CASE GetModelStatus(r)
    BY <2>5 DEF GetModelStatus, Begin, TypeOK, Goto, Step, Reply, queueVars, OpKinds, Admin, Chats
  <2>6. CASE HandleEmbedding(r)
    BY <2>6 DEF HandleEmbedding, Begin, TypeOK, Goto, Step, Reply, queueVars, OpKinds, Admin, Chats
  <2>7. ASSUME NEW o \in Chats, HandleChatCompletion(r, o) PROVE TypeOK'
    BY <2>7, CheckType, BeginType
    DEF HandleChatCompletion, TypeOK, queueVars, OpKinds
  <2> QED
    BY <1>1, <2>1, <2>2, <2>3, <2>4, <2>5, <2>6, <2>7 DEF Call
<1>2. ASSUME NEW r \in Requests, HandlerStep(r) PROVE TypeOK'
  <2>1. CASE LoadCreate(r)
    BY <2>1, EnginePointers DEF LoadCreate, BuildFrom, TypeOK, Goto, Step, Reply, queueVars
  <2>2. CASE LoadObjects(r) \/ LoadStream(r)
    BY <2>2, EnginePointers, AssignPointerType
    DEF LoadObjects, LoadStream, Pointers
  <2>3. CASE LoadReply(r)
    <3>1. [eng EXCEPT !["model_id"] = r] \in Engines
      BY SetPointer DEF TypeOK, Pointers, OrNull
    <3> QED
      BY <2>3, <3>1, GotoType, ReplyType DEF LoadReply, Set, TypeOK, queueVars
  <2>4. CASE LoadFlag(r)
    BY <2>4, SetFlag, AssignType DEF LoadFlag, TypeOK
  <2>5. CASE LoadQueue(r) \/ LoadFails(r)
    BY <2>5, MoveType DEF LoadQueue, LoadFails
  <2>6. CASE LoadSpawn(r)
    <3>1. pc' \in [Requests -> PCs]
      BY <2>6, GotoType DEF LoadSpawn, Step
    <3>2. stoppedBy' \in [Requests -> OrNull(Requests)]
      BY <2>6 DEF LoadSpawn, TypeOK, OrNull
    <3> QED
      BY <2>6, <3>1, <3>2 DEF LoadSpawn, TypeOK, OrNull
  <2>7. CASE LoadJoin(r)
    BY <2>7 DEF LoadJoin, TypeOK, Goto, Step, Reply, queueVars
  <2>8. CASE LoadCatch(r)
    <3>1. [eng EXCEPT !["tokenizer_stream"] = Null] \in Engines
      BY SetPointer DEF TypeOK, Pointers, OrNull
    <3>2. CASE Step(r, "load_drop_stream", "returned")
      BY <2>8, <3>1, <3>2, GotoType, ReplyType
      DEF LoadCatch, Assign, Set, Step, TypeOK, queueVars
    <3> QED
      BY <2>8, <3>2, EnginePointers, AssignPointerType DEF LoadCatch, Pointers
  <2>9. CASE UnloadObjects(r)
    BY <2>9, EnginePointers, AssignPointerType DEF UnloadObjects, Pointers
  <2>10. CASE UnloadFlag(r)
    <3>1. [eng EXCEPT !["model_loaded"] = FALSE] \in Engines
      BY SetFlag DEF TypeOK
    <3> QED
      BY <2>10, <3>1 DEF UnloadFlag, Set, TypeOK, Goto, Step, Reply, queueVars
  <2>11. CASE ChatEnqueue(r)
    <3>1. CASE Enqueue(r, Append(tasks[q_], r))
      BY <3>1 DEF Enqueue, OrNull, TypeOK, Goto, Step, Reply, queueVars
    <3> QED
      BY <2>11, <3>1, MoveType DEF ChatEnqueue
  <2> QED
    BY <1>2, <2>1, <2>2, <2>3, <2>4, <2>5, <2>6, <2>7, <2>8, <2>9, <2>10, <2>11
    DEF HandlerStep
<1>3. ASSUME NEW r \in Requests, TaskStep(r) PROVE TypeOK'
  <2>1. CASE Encode(r) \/ CreateParams(r) \/ Generated(r) \/ TaskFails(r)
    BY <2>1, MoveType DEF Encode, CreateParams, Generated, TaskFails
  <2>2. CASE UseModel(r)
    BY <2>2, EnginePointers DEF UseModel, TypeOK, Goto, Step, Reply, queueVars
  <2>3. CASE DecodeAll(r) \/ AfterUnload(r) \/ Finish(r)
    <3>1. PICK a \in Answers : EndTask(r, a)
      BY <2>3 DEF DecodeAll, AfterUnload, Finish
    <3> QED
      BY <2>3, <3>1, EndTaskType DEF DecodeAll, AfterUnload, Finish, TypeOK
  <2>4. CASE LoopTest(r) \/ MeasureRate(r)
    BY <2>4, MoveType DEF LoopTest, MeasureRate
  <2>5. CASE Token(r)
    BY <2>5 DEF Token, TypeOK, Goto, Step, Reply, queueVars
  <2>6. CASE RestartDrops(r)
    <3>1. ASSUME NEW h \in Int
          PROVE [eng EXCEPT !.max_history_chat = h, !.tokenizer_stream = Null] \in Engines
      BY DEF TypeOK, Engines, OrNull
    <3>2. (IF eng.max_history_chat \div 2 > 1 THEN eng.max_history_chat \div 2 ELSE 1) \in Int
      BY DEF TypeOK, Engines
    <3>3. CASE Step(r, "restart_stream", "restart_tokenizer")
      BY <2>6, <3>1, <3>2, <3>3 DEF RestartDrops, Assign, TypeOK, Goto, Step, Reply, queueVars
    <3> QED
      BY <2>6, <3>3, EnginePointers, AssignPointerType DEF RestartDrops, Pointers
  <2>7. CASE RestartFlag(r) \/ RestartPath(r)
    <3>1. CASE RestartFlag(r)
      BY <3>1, SetFlag, AssignType DEF RestartFlag, TypeOK
    <3> QED
      BY <2>7, <3>1, EnginePointers DEF RestartPath, TypeOK, Goto, Step, Reply, queueVars
  <2>8. CASE Recreate(r)
    BY <2>8, EnginePointers, AssignPointerType DEF Recreate, Pointers
  <2>9. CASE RecreateFlag(r)
    <3>1. [eng EXCEPT !["model_loaded"] = TRUE] \in Engines
      BY SetFlag DEF TypeOK
    <3> QED
      BY <2>9, <3>1 DEF RecreateFlag, Set, OrNull, TypeOK, Goto, Step, Reply, queueVars
  <2>10. CASE CatchDrops(r)
    BY <2>10, EnginePointers, AssignPointerType DEF CatchDrops, Pointers
  <2>11. CASE CatchReply(r)
    <3>1. [eng EXCEPT !["oga_model"] = Null] \in Engines
      BY SetPointer DEF TypeOK, Pointers, OrNull
    <3> QED
      BY <2>11, <3>1, EndTaskType DEF CatchReply, Set, TypeOK
  <2> QED
    BY <1>3, <2>1, <2>2, <2>3, <2>4, <2>5, <2>6, <2>7, <2>8, <2>9, <2>10, <2>11
    DEF TaskStep
<1>4. ASSUME NEW r \in Requests, Crash(r) PROVE TypeOK'
  BY <1>4 DEF Crash, TypeOK, callVars, queueVars
<1>5. ASSUME NEW k \in Requests, RunNext(k) PROVE TypeOK'
  <2>1. Head(tasks[k]) \in Requests /\ Tail(tasks[k]) \in Seq(Requests)
    BY <1>5 DEF RunNext, Take, TypeOK
  <2> QED
    BY <1>5, <2>1 DEF RunNext, Take, OrNull, TypeOK, Goto, Step, Reply, queueVars
<1>6. ASSUME UNCHANGED vars PROVE TypeOK'
  BY <1>6 DEF vars, callVars, queueVars, TypeOK
<1> QED
  BY <1>1, <1>2, <1>3, <1>4, <1>5, <1>6, NextCases

(* Every member of the engine and every variable of a call keeps its type. *)
THEOREM TypeCorrect == Spec => []TypeOK
<1> QED
  BY TypeInit, TypeNext, PTL DEF Spec
-----------------------------------------------------------------------------
(***************************************************************************)
(* The answers of the chats.                                               *)
(***************************************************************************)
ChatPC == {"chat_enqueue", "queued"} \cup TaskPC

OnlyChunks(r) ==
  \A i \in DOMAIN sent[r] : op[r] = "stream" /\ sent[r][i] = "chunk"
WellFormed(r) ==
  \A i \in DOMAIN sent[r] :
    IF i < Len(sent[r]) THEN op[r] = "stream" /\ sent[r][i] = "chunk"
                        ELSE sent[r][i] = "chunk" => op[r] = "stream"

(* Where a request is agrees with the operation it calls, and the chats    *)
(* that are not over have had nothing but chunks.                          *)
CallOK(r) ==
  /\ pc[r] = "idle" => sent[r] = <<>>
  /\ pc[r] \in LoadPC => op[r] = "load"
  /\ pc[r] \in UnloadPC => op[r] = "unload"
  /\ pc[r] \in ChatPC => op[r] \in Chats /\ OnlyChunks(r)
  /\ pc[r] \in StreamPC => op[r] = "stream"
  /\ op[r] \in Chats => WellFormed(r)
CallInv == \A r \in Requests : CallOK(r)

(* An action touches the place, the operation and the answers of one       *)
(* request only.                                                           *)
Only(r) ==
  \A s \in Requests \ {r} : pc'[s] = pc[s] /\ op'[s] = op[s] /\ sent'[s] = sent[s]

LEMMA CallFrame ==
  ASSUME CallInv, NEW r \in Requests, Only(r), CallOK(r)'
  PROVE  CallInv'
<1> SUFFICES ASSUME NEW s \in Requests PROVE CallOK(s)'
  BY DEF CallInv
<1>1. CASE s = r
  BY <1>1
<1>2. CASE s # r
  <2>1. CallOK(s) /\ pc'[s] = pc[s] /\ op'[s] = op[s] /\ sent'[s] = sent[s]
    BY <1>2 DEF CallInv, Only
  <2> QED
    BY <2>1 DEF CallOK, OnlyChunks, WellFormed
<1> QED
  BY <1>1, <1>2

(* A step without an answer, inside a handler or inside a task.            *)
Inside(from, to, o) ==
  /\ to # "idle"
  /\ to \in LoadPC => from \in LoadPC
  /\ to \in UnloadPC => from \in UnloadPC
  /\ to \in ChatPC => from \in ChatPC
  /\ to \in StreamPC => from \in StreamPC \/ o = "stream"

LEMMA CallMoves ==
  ASSUME TypeOK, CallInv, NEW r \in Requests, NEW to,
         Goto(r, to), UNCHANGED <<op, sent>>, Inside(pc[r], to, op[r])
  PROVE  CallInv'
<1>1. Only(r) /\ pc'[r] = to
  BY DEF TypeOK, Goto, Only
<1>2. CallOK(r)'
  BY <1>1 DEF CallInv, CallOK, OnlyChunks, WellFormed, Inside
<1> QED
  BY <1>1, <1>2, CallFrame

(* The last answer of a chat, and any answer of another call.              *)
LEMMA CallCloses ==
  ASSUME TypeOK, CallInv, NEW r \in Requests, NEW a \in Terminal,
         Goto(r, "returned"), Reply(r, a), op' = op, pc[r] \in ChatPC \/ op[r] \notin Chats
  PROVE  CallInv'
<1>1. Only(r) /\ pc'[r] = "returned" /\ sent'[r] = Append(sent[r], a)
  BY DEF TypeOK, Goto, Reply, Only
<1>2. sent[r] \in Seq(Answers) /\ a # "chunk"
  BY DEF TypeOK, Terminal, IsDone, HasError
<1>3. WellFormed(r)' \/ op[r] \notin Chats
  <2> SUFFICES ASSUME op[r] \in Chats PROVE WellFormed(r)'
    OBVIOUS
  <2>1. OnlyChunks(r)
    BY DEF CallInv, CallOK
  <2> QED
    BY <1>1, <1>2, <2>1 DEF WellFormed, OnlyChunks
<1>4. CallOK(r)'
  BY <1>1, <1>3
  DEF CallOK, LoadPC, UnloadPC, ChatPC, TaskPC, StreamPC, FullPC
<1> QED
  BY <1>1, <1>4, CallFrame

(* Where the handlers that do not answer at once begin.                    *)
Entries ==
  {<<"load", "load_create">>, <<"unload", "unload_model">>}
    \cup (OpKinds \X EndPC) \cup (Chats \X {"chat_enqueue"})

LEMMA CallInit == Init => CallInv
BY DEF Init, CallInv, CallOK, WellFormed, Chats, LoadPC, UnloadPC, ChatPC, TaskPC,
       StreamPC, FullPC

LEMMA CallNext == TypeOK /\ CallInv /\ [Next]_vars => CallInv'
<1> SUFFICES ASSUME TypeOK, CallInv, [Next]_vars PROVE CallInv'
  OBVIOUS
<1> USE DEF LoadPC, UnloadPC, ChatPC, TaskPC, StreamPC, FullPC
<1>1. ASSUME NEW r \in Requests, Call(r) PROVE CallInv'
  <2>1. ASSUME NEW o \in OpKinds, NEW l, Begin(r, o), Goto(r, l)
        PROVE  /\ op'[r] = o /\ pc'[r] = l
               /\ sent[r] = <<>>
               /\ \A s \in Requests \ {r} : pc'[s] = pc[s] /\ op'[s] = op[s]
    BY <2>1 DEF Begin, Goto, TypeOK, CallInv, CallOK
  <2>2. ASSUME NEW o \in OpKinds, NEW l, Begin(r, o), Goto(r, l), sent' = sent,
               <<o, l>> \in Entries
        PROVE  CallInv'
    <3>1. Only(r) /\ sent'[r] = <<>> /\ pc'[r] = l /\ op'[r] = o
      BY <2>1, <2>2 DEF Only
    <3>2. WellFormed(r)' /\ OnlyChunks(r)'
      BY <3>1 DEF WellFormed, OnlyChunks
    <3>3. CallOK(r)'
      BY <2>2, <3>1, <3>2 DEF CallOK, EndPC, Entries
    <3> QED
      BY <3>1, <3>3, CallFrame
  <2>3. ASSUME NEW o \in OpKinds, Begin(r, o), Goto(r, "returned"),
               NEW a \in Terminal, Reply(r, a)
        PROVE  CallInv'
    <3>1. /\ Only(r) /\ pc'[r] = "returned" /\ op'[r] = o
          /\ sent'[r] = Append(<<>>, a)
      BY <2>1, <2>3 DEF Only, Reply, TypeOK
    <3>2. sent'[r] = <<a>> /\ a # "chunk"
      BY <3>1 DEF Terminal, IsDone, HasError
    <3>3. WellFormed(r)'
      BY <3>2 DEF WellFormed
    <3>4. CallOK(r)'
      BY <3>1, <3>3 DEF CallOK
    <3> QED
      BY <3>1, <3>4, CallFrame
  <2>4. "refused" \in Terminal /\ "unsupported" \in Terminal
        /\ "listed" \in Terminal /\ "unlisted" \in Terminal
    BY DEF Terminal, IsDone, HasError
  <2>5. "load" \in OpKinds /\ "unload" \in OpKinds /\ "models" \in OpKinds
        /\ "status" \in OpKinds /\ "embedding" \in OpKinds /\ Chats \subseteq OpKinds
    BY DEF OpKinds, Admin
  <2>6. ASSUME NEW p \in Paths, NEW h \in Histories, LoadModel(r, p, h) PROVE CallInv'
    <3>1. Begin(r, "load") /\ Goto(r, "load_create") /\ sent' = sent
          /\ <<"load", "load_create">> \in Entries
      BY <2>6 DEF LoadModel, Entries
    <3> QED
      BY <2>2, <2>5, <3>1
  <2>7. ASSUME NEW p \in Paths, LoadThrows(r, p) PROVE CallInv'
    <3>1. Begin(r, "load") /\ Goto(r, "threw") /\ sent' = sent /\ <<"load", "threw">> \in Entries
      BY <2>5, <2>7 DEF LoadThrows, EndPC, Entries
    <3> QED
      BY <2>2, <2>5, <3>1
  <2>8. CASE UnloadModel(r)
    <3>1. /\ Begin(r, "unload")
          /\ \/ Goto(r, "unload_model") /\ sent' = sent
             \/ Goto(r, "returned") /\ Reply(r, "refused")
          /\ <<"unload", "unload_model">> \in Entries
      BY <2>8 DEF UnloadModel, CheckModelLoaded, Entries
    <3> QED
      BY <2>2, <2>3, <2>4, <2>5, <3>1
  <2>9. CASE GetModels(r) \/ GetModelStatus(r)
    BY <2>3, <2>4, <2>5, <2>9 DEF GetModels, GetModelStatus
  <2>10. CASE HandleEmbedding(r)
    <3>1. Begin(r, "embedding") /\ Goto(r, "returned") /\ sent' = sent
          /\ <<"embedding", "returned">> \in Entries
      BY <2>5, <2>10 DEF HandleEmbedding, EndPC, Entries
    <3> QED
      BY <2>2, <2>5, <3>1
  <2>11. ASSUME NEW o \in Chats, HandleChatCompletion(r, o) PROVE CallInv'
    <3>1. <<o, "chat_enqueue">> \in Entries
      BY DEF Entries
    <3> QED
      BY <2>2, <2>3, <2>4, <2>5, <2>11, <3>1 DEF HandleChatCompletion, CheckModelLoaded
  <2> QED
    BY <1>1, <2>6, <2>7, <2>8, <2>9, <2>10, <2>11 DEF Call
<1>2. ASSUME NEW r \in Requests, HandlerStep(r) PROVE CallInv'
  <2>1. CASE LoadReply(r)
    <3>1. PICK l \in {"load_flag", "load_drop_model"} : Goto(r, l)
      BY <2>1 DEF LoadReply
    <3>2. Only(r) /\ pc'[r] = l /\ op'[r] = "load"
      BY <2>1, <3>1 DEF LoadReply, Goto, Reply, Only, TypeOK, CallInv, CallOK
    <3>3. CallOK(r)'
      BY <3>2 DEF CallOK, Chats
    <3> QED
      BY <3>2, <3>3, CallFrame
  <2>2. CASE LoadCatch(r) /\ pc[r] = "load_drop_stream"
    <3>1. op[r] = "load" /\ "load_failed" \in Terminal /\ "load" \notin Chats
      BY <2>2 DEF CallInv, CallOK, Terminal, HasError, Chats
    <3> QED
      BY <2>2, <3>1, CallCloses DEF LoadCatch, Assign, Step
  <2>3. CASE UnloadFlag(r)
    <3>1. op[r] = "unload" /\ "unloaded" \in Terminal /\ "unload" \notin Chats
      BY <2>3 DEF UnloadFlag, Step, CallInv, CallOK, Terminal, IsDone, Chats
    <3> QED
      BY <2>3, <3>1, CallCloses DEF UnloadFlag, Step
  <2>4. CASE ~LoadReply(r) /\ ~UnloadFlag(r) /\ ~(LoadCatch(r) /\ pc[r] = "load_drop_stream")
    <3>1. UNCHANGED <<op, sent>> /\ \E to : Goto(r, to) /\ Inside(pc[r], to, op[r])
      <4>1. CASE LoadCreate(r)
        BY <4>1 DEF LoadCreate, BuildFrom, Step, Inside
      <4>7. CASE LoadFlag(r)
        <5>1. pc[r] = "load_flag" /\ Goto(r, "load_queue") /\ UNCHANGED <<op, sent>>
          BY <4>7, Zenon DEF LoadFlag, Assign, Step
        <5> QED
          BY <5>1 DEF Inside
      <4>5. CASE LoadObjects(r)
        BY <4>5 DEF LoadObjects, Assign, Step, Inside
      <4>6. CASE LoadStream(r)
        BY <4>6 DEF LoadStream, Assign, Step, Inside
      <4>2. CASE LoadQueue(r) \/ LoadSpawn(r) \/ LoadJoin(r) \/ LoadFails(r)
        BY <4>2 DEF LoadQueue, LoadSpawn, LoadJoin, LoadFails, Move, Step, Inside
      <4>3. CASE LoadCatch(r) \/ UnloadObjects(r)
        BY <2>4, <4>3 DEF LoadCatch, UnloadObjects, Assign, Step, Inside
      <4>4. CASE ChatEnqueue(r)
        BY <4>4 DEF ChatEnqueue, Enqueue, Move, Step, Inside
      <4> QED
        BY <1>2, <2>4, <4>1, <4>2, <4>3, <4>4, <4>5, <4>6, <4>7 DEF HandlerStep
    <3> QED
      BY <3>1, CallMoves
  <2> QED
    BY <2>1, <2>2, <2>3, <2>4
<1>3. ASSUME NEW r \in Requests, TaskStep(r) PROVE CallInv'
  <2>1. CASE DecodeAll(r) \/ AfterUnload(r) \/ Finish(r) \/ CatchReply(r)
    <3>1. PICK a \in {"full", "cut", "stop", "failed"} : EndTask(r, a)
      BY <2>1 DEF DecodeAll, AfterUnload, Finish, CatchReply
    <3>2. pc[r] \in ChatPC /\ op' = op
      BY <2>1 DEF DecodeAll, AfterUnload, Finish, CatchReply
    <3>3. a \in Terminal
      BY DEF Terminal, IsDone, HasError
    <3> QED
      BY <3>1, <3>2, <3>3, CallCloses DEF EndTask, LeaveThread
  <2>2. CASE Token(r)
    <3>1. /\ Only(r) /\ pc'[r] = "loop" /\ op'[r] = op[r]
          /\ sent'[r] = Append(sent[r], "chunk")
      BY <2>2 DEF Token, Step, Goto, Reply, Only, TypeOK
    <3>2. op[r] = "stream" /\ OnlyChunks(r) /\ sent[r] \in Seq(Answers)
      BY <2>2 DEF Token, Step, CallInv, CallOK, TypeOK
    <3>3. OnlyChunks(r)' /\ WellFormed(r)'
      BY <3>1, <3>2 DEF OnlyChunks, WellFormed
    <3>4. CallOK(r)'
      BY <3>1, <3>2, <3>3 DEF CallOK, Chats
    <3> QED
      BY <3>1, <3>4, CallFrame
  <2>3. CASE ~(DecodeAll(r) \/ AfterUnload(r) \/ Finish(r) \/ CatchReply(r) \/ Token(r))
    <3>1. UNCHANGED <<op, sent>> /\ \E to : Goto(r, to) /\ Inside(pc[r], to, op[r])
      <4>1. CASE Encode(r) \/ CreateParams(r) \/ Generated(r) \/ TaskFails(r)
        BY <4>1 DEF Encode, CreateParams, Generated, TaskFails, Move, Step, Inside
      <4>2. CASE UseModel(r)
        BY <4>2 DEF UseModel, Step, Inside
      <4>3. CASE LoopTest(r) \/ MeasureRate(r)
        BY <4>3 DEF LoopTest, MeasureRate, Move, Step, Inside
      <4>4. CASE RestartDrops(r) \/ RestartFlag(r) \/ RestartPath(r)
        BY <4>4 DEF RestartDrops, RestartFlag, RestartPath, Assign, Step, Inside
      <4>5. CASE Recreate(r)
        BY <4>5 DEF Recreate, Assign, Step, Inside
      <4>6. CASE RecreateFlag(r)
        <5>1. pc[r] = "recreate_flag" /\ Goto(r, "finish") /\ UNCHANGED <<op, sent>>
          BY <4>6, Zenon DEF RecreateFlag, Step
        <5> QED
          BY <5>1 DEF Inside
      <4>7. CASE CatchDrops(r)
        BY <4>7 DEF CatchDrops, Assign, Step, Inside
      <4> QED
        BY <1>3, <2>3, <4>1, <4>2, <4>3, <4>4, <4>5, <4>6, <4>7 DEF TaskStep
    <3> QED
      BY <3>1, CallMoves
  <2> QED
    BY <2>1, <2>2, <2>3
<1>4. ASSUME NEW r \in Requests, Crash(r) PROVE CallInv'
  BY <1>4 DEF Crash, callVars, CallInv, CallOK, OnlyChunks, WellFormed
<1>5. ASSUME NEW k \in Requests, RunNext(k) PROVE CallInv'
  <2>1. Head(tasks[k]) \in Requests
    BY <1>5 DEF RunNext, Take, TypeOK
  <2> QED
    BY <1>5, <2>1, CallMoves DEF RunNext, Take, Step, Inside
<1>6. ASSUME UNCHANGED vars PROVE CallInv'
  BY <1>6 DEF vars, callVars, CallInv, CallOK, OnlyChunks, WellFormed
<1> QED
  BY <1>1, <1>2, <1>3, <1>4, <1>5, <1>6, NextCases

(* A chat is answered by chunks, if it is streamed, and one last answer    *)
(* that nothing follows, through every return and exception of its task.   *)
THEOREM ChatsAnsweredOnce == Spec => []ChatAnswersWellFormed
<1>1. CallInv => ChatAnswersWellFormed
  BY DEF CallInv, CallOK, WellFormed, ChatAnswersWellFormed
<1> QED
  BY <1>1, CallInit, CallNext, TypeCorrect, PTL DEF Spec
-----------------------------------------------------------------------------
(***************************************************************************)
(* The queues.                                                             *)
(***************************************************************************)

(* The chats that run are held by a queue's thread, and only q_ holds any  *)
(* chat as long as it has not been replaced.                               *)
RunningIsHeld == \A c \in Requests : Running(c) => \E k \in Requests : busy[k] = c
OneQueue ==
  ~QueueReplaced => \A k \in Requests : busy[k] # Null \/ tasks[k] # <<>> => k = q_
HoldInv == EachChatHeldOnce /\ RunningIsHeld /\ OneQueue

LEMMA HoldInit == Init => HoldInv
BY NullAssumption
DEF Init, HoldInv, EachChatHeldOnce, RunningIsHeld, OneQueue, Running, TaskPC,
    StreamPC, FullPC

LEMMA HeldTypes ==
  ASSUME TypeOK
  PROVE  /\ \A k \in Requests : busy[k] # Null => busy[k] \in Requests
         /\ \A k \in Requests : tasks[k] \in Seq(Requests)
         /\ \A k \in Requests : \A i \in DOMAIN tasks[k] : tasks[k][i] \in Requests
BY DEF TypeOK, OrNull

(* Most steps leave the queues alone, and neither make a request wait or   *)
(* run nor stop it.                                                        *)
LEMMA HeldFrame ==
  ASSUME TypeOK, EachChatHeldOnce, RunningIsHeld, NEW r \in Requests, NEW to,
         Goto(r, to), UNCHANGED <<tasks, busy>>,
         pc[r] # "queued", to \in TaskPC <=> pc[r] \in TaskPC
  PROVE  EachChatHeldOnce' /\ RunningIsHeld'
<1>1. /\ pc'[r] = to
      /\ \A s \in Requests \ {r} : pc'[s] = pc[s]
  BY DEF TypeOK, Goto
<1>2. \A s \in Requests : Running(s)' <=> Running(s)
  BY <1>1 DEF Running
<1>3. EachChatHeldOnce'
  BY <1>1, <1>2, HeldTypes DEF EachChatHeldOnce
<1> QED
  BY <1>2, <1>3 DEF RunningIsHeld

(* A task that returns leaves its queue's thread free.                     *)
LEMMA HoldLeave ==
  ASSUME TypeOK, HoldInv, NEW c \in Requests, LeaveThread(c), pc[c] \in TaskPC,
         UNCHANGED <<tasks, stoppedBy, q_>>
  PROVE  HoldInv'
<1>1. /\ pc'[c] = "returned"
      /\ \A s \in Requests \ {c} : pc'[s] = pc[s]
      /\ \A k \in Requests : busy'[k] = IF busy[k] = c THEN Null ELSE busy[k]
  BY DEF LeaveThread, TypeOK, Goto
<1>2. ~Running(c)' /\ \A s \in Requests \ {c} : Running(s)' <=> Running(s)
  BY <1>1 DEF Running, TaskPC, StreamPC, FullPC
<1>3. c # Null
  BY NullAssumption
<1>4. \A k \in Requests : \A i \in DOMAIN tasks[k] : tasks[k][i] \in Requests \ {c}
  BY HeldTypes DEF HoldInv, EachChatHeldOnce, TaskPC, StreamPC, FullPC
<1>5. \A k \in Requests : busy'[k] # Null => busy[k] = busy'[k] /\ busy[k] \in Requests \ {c}
  BY <1>1, HeldTypes
<1>6. EachChatHeldOnce'
  BY <1>1, <1>2, <1>4, <1>5 DEF HoldInv, EachChatHeldOnce
<1>7. RunningIsHeld'
  BY <1>1, <1>2 DEF HoldInv, RunningIsHeld
<1> QED
  BY <1>5, <1>6, <1>7 DEF HoldInv, OneQueue, QueueReplaced

(* An accepted chat goes to the end of q_.                                 *)
LEMMA HoldEnqueue ==
  ASSUME TypeOK, HoldInv, NEW r \in Requests, Enqueue(r, Append(tasks[q_], r))
  PROVE  HoldInv'
<1>1. /\ pc[r] = "chat_enqueue" /\ pc'[r] = "queued"
      /\ \A s \in Requests \ {r} : pc'[s] = pc[s]
      /\ UNCHANGED <<busy, stoppedBy, q_>>
      /\ q_ \in Requests
  BY DEF Enqueue, Step, Goto, TypeOK, OrNull
<1>2. /\ tasks'[q_] = Append(tasks[q_], r)
      /\ \A k \in Requests \ {q_} : tasks'[k] = tasks[k]
  BY <1>1 DEF Enqueue, TypeOK
<1>3. \A s \in Requests : Running(s)' <=> Running(s)
  BY <1>1 DEF Running, TaskPC, StreamPC, FullPC
<1>4. \A k \in Requests : \A i \in DOMAIN tasks[k] : tasks[k][i] \in Requests \ {r}
  BY <1>1, HeldTypes DEF HoldInv, EachChatHeldOnce
<1>5. /\ DOMAIN tasks'[q_] = 1..Len(tasks[q_]) + 1
      /\ DOMAIN tasks[q_] = 1..Len(tasks[q_]) /\ Len(tasks[q_]) \in Nat
      /\ tasks'[q_][Len(tasks[q_]) + 1] = r
      /\ \A i \in DOMAIN tasks[q_] : tasks'[q_][i] = tasks[q_][i]
  BY <1>1, <1>2, HeldTypes
<1>6. ASSUME NEW k \in Requests, NEW i \in DOMAIN tasks'[k]
      PROVE  \/ i \in DOMAIN tasks[k] /\ tasks'[k][i] = tasks[k][i]
             \/ k = q_ /\ i = Len(tasks[q_]) + 1 /\ tasks'[k][i] = r
  BY <1>2, <1>5
<1>7. \A k \in Requests : \A i \in DOMAIN tasks'[k] : pc'[tasks'[k][i]] = "queued"
  BY <1>1, <1>4, <1>6 DEF HoldInv, EachChatHeldOnce
<1>8. \A k, l \in Requests : \A i \in DOMAIN tasks'[k], j \in DOMAIN tasks'[l] :
        tasks'[k][i] = tasks'[l][j] => k = l /\ i = j
  BY <1>4, <1>6 DEF HoldInv, EachChatHeldOnce
<1>9. EachChatHeldOnce'
  BY <1>1, <1>3, <1>7, <1>8, HeldTypes DEF HoldInv, EachChatHeldOnce
<1>10. OneQueue'
  BY <1>1, <1>2 DEF HoldInv, OneQueue, QueueReplaced
<1> QED
  BY <1>1, <1>3, <1>9, <1>10 DEF HoldInv, RunningIsHeld

LEMMA TailFacts ==
  ASSUME NEW S, NEW s \in Seq(S), s # <<>>, NEW i \in DOMAIN Tail(s)
  PROVE  i \in Nat \ {0} /\ i + 1 \in DOMAIN s /\ Tail(s)[i] = s[i + 1] /\ s[i + 1] \in S
<1>1. Len(s) \in Nat /\ Len(s) # 0
  OBVIOUS
<1>2. DOMAIN Tail(s) = 1..Len(s) - 1 /\ DOMAIN s = 1..Len(s)
  BY <1>1
<1> QED
  BY <1>1, <1>2

(* A queue's thread takes the first task of its queue.                     *)
LEMMA HoldRunNext ==
  ASSUME TypeOK, HoldInv, NEW q \in Requests, RunNext(q)
  PROVE  HoldInv'
<1>1. PICK c \in Requests :
        /\ c = Head(tasks[q]) /\ c = tasks[q][1] /\ 1 \in DOMAIN tasks[q]
        /\ tasks[q] \in Seq(Requests) /\ tasks[q] # <<>>
  <2>1. tasks[q] \in Seq(Requests) /\ tasks[q] # <<>>
    BY HeldTypes DEF RunNext, Take
  <2> QED
    BY <2>1
<1>2. /\ pc[c] = "queued" /\ pc'[c] = "encode"
      /\ \A s \in Requests \ {c} : pc'[s] = pc[s]
      /\ busy[q] = Null /\ busy'[q] = c
      /\ \A k \in Requests \ {q} : busy'[k] = busy[k] /\ tasks'[k] = tasks[k]
      /\ tasks'[q] = Tail(tasks[q])
      /\ UNCHANGED <<stoppedBy, q_>>
  BY <1>1 DEF RunNext, Take, Step, Goto, TypeOK
<1>3. ~Running(c) /\ Running(c)' /\ \A s \in Requests \ {c} : Running(s)' <=> Running(s)
  BY <1>2 DEF Running, TaskPC, StreamPC, FullPC
<1>4. \A k \in Requests : busy[k] # c
  BY <1>1, <1>3, NullAssumption DEF HoldInv, EachChatHeldOnce
<1>5. ASSUME NEW k \in Requests, NEW i \in DOMAIN tasks'[k]
      PROVE  \E j \in DOMAIN tasks[k] :
               /\ tasks'[k][i] = tasks[k][j]
               /\ j = IF k = q THEN i + 1 ELSE i
               /\ tasks[k][j] \in Requests \ {c}
               /\ i \in Nat
  <2>1. CASE k # q
    <3>1. tasks'[k] = tasks[k] /\ tasks[k][i] \in Requests /\ i \in Nat
      BY <1>2, <2>1, HeldTypes
    <3>2. tasks[k][i] # c
      BY <1>1, <2>1, <3>1 DEF HoldInv, EachChatHeldOnce
    <3> QED
      BY <2>1, <3>1, <3>2
  <2>2. CASE k = q
    <3>1. /\ i + 1 \in DOMAIN tasks[q] /\ i + 1 # 1
          /\ tasks'[q][i] = tasks[q][i + 1] /\ tasks[q][i + 1] \in Requests
          /\ i \in Nat
      <4>1. i \in DOMAIN Tail(tasks[q])
        BY <1>2, <2>2
      <4>2. /\ i \in Nat \ {0} /\ i + 1 \in DOMAIN tasks[q]
            /\ Tail(tasks[q])[i] = tasks[q][i + 1] /\ tasks[q][i + 1] \in Requests
        BY <1>1, <4>1, TailFacts
      <4> QED
        BY <1>2, <4>2
    <3>2. tasks[q][i + 1] # c
      BY <1>1, <3>1 DEF HoldInv, EachChatHeldOnce
    <3> QED
      BY <2>2, <3>1, <3>2
  <2> QED
    BY <2>1, <2>2
<1>6. \A k \in Requests : \A i \in DOMAIN tasks'[k] : pc'[tasks'[k][i]] = "queued"
  BY <1>2, <1>5 DEF HoldInv, EachChatHeldOnce
<1>7. ASSUME NEW k \in Requests, NEW l \in Requests,
             NEW i \in DOMAIN tasks'[k], NEW j \in DOMAIN tasks'[l],
             tasks'[k][i] = tasks'[l][j]
      PROVE  k = l /\ i = j
  <2>1. i \in Nat /\ j \in Nat
    BY <1>5
  <2>2. PICK m \in DOMAIN tasks[k] : /\ tasks'[k][i] = tasks[k][m]
                                     /\ m = IF k = q THEN i + 1 ELSE i
    BY <1>5
  <2>3. PICK n \in DOMAIN tasks[l] : /\ tasks'[l][j] = tasks[l][n]
                                     /\ n = IF l = q THEN j + 1 ELSE j
    BY <1>5
  <2>4. tasks[k][m] = tasks[l][n]
    BY <1>7, <2>2, <2>3
  <2>5. k = l /\ m = n
    BY <2>4 DEF HoldInv, EachChatHeldOnce
  <2> QED
    BY <2>1, <2>2, <2>3, <2>5
<1>8. ASSUME NEW k \in Requests, NEW l \in Requests, busy'[k] # Null
      PROVE  Running(busy[k])' /\ (busy'[l] = busy'[k] => k = l)
  <2>1. CASE k = q
    BY <1>2, <1>3, <1>4, <2>1
  <2>2. CASE k # q
    <3>1. busy'[k] = busy[k] /\ busy[k] \in Requests \ {c} /\ Running(busy[k])
      BY <1>2, <1>4, <1>8, <2>2, HeldTypes DEF HoldInv, EachChatHeldOnce
    <3>2. Running(busy[k])'
      BY <1>2, <3>1 DEF Running
    <3>3. busy'[l] = busy'[k] => k = l
      BY <1>2, <1>8, <3>1 DEF HoldInv, EachChatHeldOnce
    <3> QED
      BY <3>2, <3>3
  <2> QED
    BY <2>1, <2>2
<1>10. EachChatHeldOnce'
  BY <1>6, <1>7, <1>8 DEF EachChatHeldOnce
<1>11. RunningIsHeld'
  BY <1>2, <1>3, NullAssumption DEF HoldInv, RunningIsHeld
<1>12. OneQueue'
  BY <1>1, <1>2 DEF HoldInv, OneQueue, QueueReplaced
<1> QED
  BY <1>10, <1>11, <1>12 DEF HoldInv

(* The steps of a handler, and of a task, but for those that change its    *)
(* queue: where they go.                                                   *)
LEMMA HandlerMoves ==
  ASSUME NEW r \in Requests, HandlerStep(r),
         ~LoadSpawn(r), ~LoadJoin(r), ~ChatEnqueue(r)
  PROVE  /\ UNCHANGED queueVars
         /\ pc[r] \notin TaskPC \cup {"queued"}
         /\ \E to \in PCs \ TaskPC : Goto(r, to)
<1> USE DEF PCs, LoadPC, UnloadPC, EndPC, TaskPC, StreamPC, FullPC
<1>1. CASE LoadCreate(r)
  BY <1>1 DEF LoadCreate, BuildFrom, Step, queueVars
<1>2. CASE LoadObjects(r)
  BY <1>2 DEF LoadObjects, Assign, Step, queueVars
<1>3. CASE LoadStream(r)
  BY <1>3 DEF LoadStream, Assign, Step, queueVars
<1>4. CASE LoadReply(r)
  BY <1>4 DEF LoadReply, queueVars
<1>5. CASE LoadFlag(r)
  <2>1. pc[r] = "load_flag" /\ Goto(r, "load_queue") /\ UNCHANGED queueVars
    BY <1>5, Zenon DEF LoadFlag, Assign, Step
  <2> QED
    BY <2>1
<1>6. CASE LoadQueue(r) \/ LoadFails(r)
  BY <1>6 DEF LoadQueue, LoadFails, Move, Step, queueVars
<1>7. CASE LoadCatch(r)
  BY <1>7 DEF LoadCatch, Assign, Step, queueVars
<1>8. CASE UnloadObjects(r)
  BY <1>8 DEF UnloadObjects, Assign, Step, queueVars
<1>9. CASE UnloadFlag(r)
  <2>1. pc[r] = "unload_flag" /\ Goto(r, "returned") /\ UNCHANGED queueVars
    BY <1>9, Zenon DEF UnloadFlag, Step
  <2> QED
    BY <2>1
<1> QED
  BY <1>1, <1>2, <1>3, <1>4, <1>5, <1>6, <1>7, <1>8, <1>9 DEF HandlerStep

LEMMA TaskMoves ==
  ASSUME NEW c \in Requests, TaskStep(c),
         ~(DecodeAll(c) \/ AfterUnload(c) \/ Finish(c) \/ CatchReply(c) \/ RecreateFlag(c))
  PROVE  UNCHANGED queueVars /\ pc[c] \in TaskPC /\ \E to \in TaskPC : Goto(c, to)
<1> USE DEF TaskPC, StreamPC, FullPC
<1>1. CASE Encode(c) \/ CreateParams(c) \/ Generated(c) \/ TaskFails(c)
  BY <1>1 DEF Encode, CreateParams, Generated, TaskFails, Move, Step, queueVars
<1>2. CASE UseModel(c) \/ Token(c)
  BY <1>2 DEF UseModel, Token, Step, queueVars
<1>3. CASE LoopTest(c) \/ MeasureRate(c)
  BY <1>3 DEF LoopTest, MeasureRate, Move, Step, queueVars
<1>4. CASE RestartDrops(c)
  BY <1>4 DEF RestartDrops, Assign, Step, queueVars
<1>5. CASE RestartFlag(c) \/ RestartPath(c)
  <2>1. /\ \/ pc[c] = "restart_flag" /\ Goto(c, "restart_path")
           \/ pc[c] = "restart_path" /\ Goto(c, "recreate_model")
        /\ UNCHANGED queueVars
    BY <1>5, Zenon DEF RestartFlag, RestartPath, Assign, Step, queueVars
  <2> QED
    BY <2>1
<1>6. CASE Recreate(c)
  BY <1>6 DEF Recreate, Assign, Step, queueVars
<1>7. CASE CatchDrops(c)
  BY <1>7 DEF CatchDrops, Assign, Step, queueVars
<1> QED
  BY <1>1, <1>2, <1>3, <1>4, <1>5, <1>6, <1>7 DEF TaskStep

LEMMA HoldNext == TypeOK /\ HoldInv /\ [Next]_vars => HoldInv'
<1> SUFFICES ASSUME TypeOK, HoldInv, [Next]_vars PROVE HoldInv'
  OBVIOUS
<1> USE DEF TaskPC, StreamPC, FullPC
<1>1. ASSUME NEW r \in Requests, NEW to, Goto(r, to), UNCHANGED queueVars,
             pc[r] # "queued", to \in TaskPC <=> pc[r] \in TaskPC
      PROVE  HoldInv'
  <2>1. UNCHANGED <<tasks, busy>> /\ UNCHANGED <<stoppedBy, q_>>
    BY <1>1 DEF queueVars
  <2>2. EachChatHeldOnce' /\ RunningIsHeld'
    BY <1>1, <2>1, HeldFrame DEF HoldInv
  <2> QED
    BY <2>1, <2>2 DEF HoldInv, OneQueue, QueueReplaced
<1>2. ASSUME NEW r \in Requests, Call(r) PROVE HoldInv'
  <2>1. PICK to \in {"load_create", "threw", "unload_model", "returned", "chat_enqueue"} :
          Goto(r, to)
    BY <1>2
    DEF Call, LoadModel, LoadThrows, UnloadModel, GetModels, GetModelStatus,
        HandleEmbedding, HandleChatCompletion, CheckModelLoaded
  <2>2. pc[r] = "idle" /\ UNCHANGED queueVars
    BY <1>2
    DEF Call, LoadModel, LoadThrows, UnloadModel, GetModels, GetModelStatus,
        HandleEmbedding, HandleChatCompletion, Begin
  <2> QED
    BY <1>1, <2>1, <2>2
<1>3. ASSUME NEW r \in Requests, HandlerStep(r) PROVE HoldInv'
  <2>1. CASE LoadSpawn(r)
    <3>1. pc[r] = "load_spawn" /\ \E to \in {"returned", "load_join"} : Goto(r, to)
      BY <2>1 DEF LoadSpawn, Step
    <3>2. EachChatHeldOnce' /\ RunningIsHeld'
      BY <2>1, <3>1, HeldFrame DEF LoadSpawn, HoldInv
    <3>3. CASE q_ # Null
      <4>1. QueueReplaced'
        BY <2>1, <3>3, NullAssumption DEF LoadSpawn, Step, TypeOK, OrNull, QueueReplaced
      <4> QED
        BY <3>2, <4>1 DEF HoldInv, OneQueue
    <3>4. CASE q_ = Null
      BY <2>1, <3>2, <3>4, NullAssumption DEF LoadSpawn, Step, HoldInv, OneQueue, QueueReplaced
    <3> QED
      BY <3>3, <3>4
  <2>2. CASE LoadJoin(r)
    <3>1. /\ \A k \in Requests : tasks'[k] = <<>> \/ tasks'[k] = tasks[k]
          /\ UNCHANGED <<busy, stoppedBy, q_>>
          /\ pc[r] = "load_join" /\ pc'[r] = "returned"
          /\ \A s \in Requests \ {r} : pc'[s] = pc[s]
      BY <2>2 DEF LoadJoin, Step, Goto, TypeOK
    <3>2. \A s \in Requests : Running(s)' <=> Running(s)
      BY <3>1 DEF Running
    <3>3. EachChatHeldOnce'
      BY <3>1, <3>2, HeldTypes DEF HoldInv, EachChatHeldOnce
    <3> QED
      BY <3>1, <3>2, <3>3 DEF HoldInv, RunningIsHeld, OneQueue, QueueReplaced
  <2>3. CASE ChatEnqueue(r)
    BY <1>1, <2>3, HoldEnqueue DEF ChatEnqueue, Move, Step
  <2>4. CASE ~LoadSpawn(r) /\ ~LoadJoin(r) /\ ~ChatEnqueue(r)
    <3>1. UNCHANGED queueVars /\ pc[r] \notin TaskPC \cup {"queued"}
          /\ \E to \in PCs \ TaskPC : Goto(r, to)
      BY <1>3, <2>4, HandlerMoves
    <3> QED
      BY <1>1, <3>1
  <2> QED
    BY <2>1, <2>2, <2>3, <2>4
<1>4. ASSUME NEW r \in Requests, TaskStep(r) PROVE HoldInv'
  <2>1. CASE DecodeAll(r) \/ AfterUnload(r) \/ Finish(r) \/ CatchReply(r)
    BY <2>1, HoldLeave DEF DecodeAll, AfterUnload, Finish, CatchReply, EndTask
  <2>2. CASE RecreateFlag(r)
    <3>1. pc[r] = "recreate_flag" /\ Goto(r, "finish") /\ UNCHANGED <<tasks, busy, stoppedBy>>
      BY <2>2, Zenon DEF RecreateFlag, Step
    <3>2. EachChatHeldOnce' /\ RunningIsHeld'
      BY <3>1, HeldFrame DEF HoldInv
    <3>3. QueueReplaced \/ q_ # Null
      BY <3>1, NullAssumption DEF HoldInv, RunningIsHeld, OneQueue, Running
    <3>4. q_ # Null => q_' = q_
      BY <2>2 DEF RecreateFlag
    <3> QED
      BY <3>1, <3>2, <3>3, <3>4 DEF HoldInv, OneQueue, QueueReplaced
  <2>3. CASE ~(DecodeAll(r) \/ AfterUnload(r) \/ Finish(r) \/ CatchReply(r) \/ RecreateFlag(r))
    <3>1. UNCHANGED queueVars /\ pc[r] \in TaskPC /\ \E to \in TaskPC : Goto(r, to)
      BY <1>4, <2>3, TaskMoves
    <3> QED
      BY <1>1, <3>1
  <2> QED
    BY <2>1, <2>2, <2>3
<1>5. ASSUME NEW r \in Requests, Crash(r) PROVE HoldInv'
  BY <1>5 DEF Crash, callVars, queueVars, HoldInv, EachChatHeldOnce, RunningIsHeld, OneQueue,
              Running, QueueReplaced
<1>6. ASSUME NEW k \in Requests, RunNext(k) PROVE HoldInv'
  BY <1>6, HoldRunNext
<1>7. ASSUME UNCHANGED vars PROVE HoldInv'
  BY <1>7 DEF vars, callVars, queueVars, HoldInv, EachChatHeldOnce, RunningIsHeld, OneQueue,
              Running, QueueReplaced
<1> QED
  BY <1>2, <1>3, <1>4, <1>5, <1>6, <1>7, NextCases

(* No chat waits twice, waits while it runs, or is run by two threads.     *)
THEOREM ChatsHeldOnce == Spec => []EachChatHeldOnce
<1> QED
  BY HoldInit, HoldNext, TypeCorrect, PTL DEF Spec, HoldInv

(* Two tasks never run together unless concurrent loads have replaced q_.  *)
THEOREM SerialInference == Spec => []InferenceIsSerial
<1>1. HoldInv => InferenceIsSerial
  BY NullAssumption DEF HoldInv, RunningIsHeld, OneQueue, InferenceIsSerial
<1> QED
  BY <1>1, HoldInit, HoldNext, TypeCorrect, PTL DEF Spec

-----------------------------------------------------------------------------
(***************************************************************************)
(* The rest is about an OnnxEngine whose clients are Exclusive.  Whatever  *)
(* fails, its queue is kept, it serves the chats as ChatService says, and  *)
(* every path that leaves model_loaded_ cleared has freed the objects.     *)
(* When nothing fails but a badly typed body of a chat, the objects belong *)
(* together.                                                               *)
(***************************************************************************)
(* A load or an unload in progress is alone, and finds q_ as it tested it. *)
AdminAlone ==
  \A r, s \in Requests : InProgress(r) /\ InProgress(s) /\ op[s] \in Admin => r = s
QueueKept ==
  \A r \in Requests : /\ stoppedBy[r] = Null /\ pc[r] # "load_join"
                      /\ pc[r] = "load_spawn" => q_ = Null

(* A chat has no answer before it is run.                                  *)
Unanswered ==
  \A c \in Requests : pc[c] \in {"chat_enqueue", "queued"} => sent[c] = <<>>

AloneInv == AdminAlone /\ QueueKept /\ Unanswered
BaseInv == TypeOK /\ CallInv /\ HoldInv /\ AloneInv
-----------------------------------------------------------------------------
(***************************************************************************)
(* Who can be where at the same time.                                      *)
(***************************************************************************)
LEMMA ChatsInProgress ==
  ASSUME NEW c \in Requests, pc[c] \in ChatPC
  PROVE  InProgress(c)
BY DEF InProgress, ChatPC, TaskPC, StreamPC, FullPC, EndPC

LEMMA Aside ==
  ASSUME BaseInv, NEW r \in Requests, pc[r] \in LoadPC \cup UnloadPC,
         NEW s \in Requests \ {r}
  PROVE  ~InProgress(s)
<1>1. op[r] \in Admin
  BY DEF BaseInv, CallInv, CallOK, Admin
<1>2. InProgress(r)
  BY DEF InProgress, LoadPC, UnloadPC, EndPC
<1> QED
  BY <1>1, <1>2 DEF BaseInv, AloneInv, AdminAlone

LEMMA OneTask ==
  ASSUME BaseInv, NEW c \in Requests, NEW d \in Requests, pc[c] \in TaskPC, pc[d] \in TaskPC
  PROVE  c = d
BY NullAssumption
DEF BaseInv, AloneInv, QueueKept, QueueReplaced, HoldInv, RunningIsHeld, OneQueue, Running

(* The chats in q_ are the only ones that wait, and its thread is the only *)
(* one that runs any.                                                      *)
LEMMA HeldByQueue ==
  ASSUME BaseInv, NEW k \in Requests, busy[k] # Null \/ tasks[k] # <<>>
  PROVE  k = q_
BY DEF BaseInv, AloneInv, QueueKept, QueueReplaced, HoldInv, OneQueue

LEMMA RunByQueue ==
  ASSUME BaseInv, NEW c \in Requests, pc[c] \in TaskPC
  PROVE  q_ \in Requests /\ busy[q_] = c
<1>1. PICK k \in Requests : busy[k] = c
  BY DEF BaseInv, HoldInv, RunningIsHeld, Running
<1> QED
  BY <1>1, HeldByQueue, NullAssumption

(* The threads of the engine take their steps for one request in progress. *)
LEMMA HandlerFrame ==
  ASSUME NEW r \in Requests, HandlerStep(r)
  PROVE  InProgress(r) /\ op' = op /\ \E to : Goto(r, to)
BY DEF HandlerStep, LoadCreate, BuildFrom, LoadObjects, LoadStream, LoadReply, LoadFlag,
       LoadQueue, LoadSpawn, LoadJoin, LoadFails, LoadCatch, UnloadObjects, UnloadFlag,
       ChatEnqueue, Enqueue, Move, Assign, Step, InProgress, EndPC

LEMMA TaskFrame ==
  ASSUME NEW c \in Requests, TaskStep(c)
  PROVE  InProgress(c) /\ op' = op /\ \E to : Goto(c, to)
BY DEF TaskStep, Encode, CreateParams, UseModel, Generated, DecodeAll, LoopTest, Token,
       AfterUnload, MeasureRate, Finish, RestartDrops, RestartFlag, RestartPath, Recreate,
       RecreateFlag, TaskFails, CatchDrops, CatchReply, EndTask, LeaveThread, Move, Assign, Step,
       InProgress, EndPC
(* The engine after an assignment.                                         *)
LEMMA Assigned ==
  ASSUME BaseInv, NEW m \in DOMAIN eng, NEW v, Set(m, v)
  PROVE  eng'[m] = v /\ \A n \in DOMAIN eng \ {m} : eng'[n] = eng[n]
BY DEF Set, BaseInv, TypeOK, Engines
-----------------------------------------------------------------------------
LEMMA AloneInit == Init => AloneInv
BY DEF Init, AloneInv, AdminAlone, QueueKept, Unanswered, InProgress

LEMMA BeginsAlone ==
  ASSUME Exclusive, BaseInv, NEW r \in Requests, NEW o, Begin(r, o), NEW to, Goto(r, to)
  PROVE  AdminAlone'
<1>1. /\ pc[r] = "idle" /\ op'[r] = o
      /\ \A s \in Requests \ {r} : pc'[s] = pc[s] /\ op'[s] = op[s]
  BY DEF Begin, Goto, BaseInv, TypeOK
<1>2. /\ ~InProgress(r)
      /\ \A s \in Requests \ {r} : InProgress(s)' <=> InProgress(s)
      /\ \A s \in Requests : InProgress(s) => o \notin Admin /\ op[s] \notin Admin
  BY <1>1 DEF InProgress, Begin
<1> QED
  BY <1>1, <1>2 DEF AdminAlone

LEMMA MovesAlone ==
  ASSUME BaseInv, NEW r \in Requests, InProgress(r), op' = op, NEW to, Goto(r, to)
  PROVE  AdminAlone'
<1>1. \A s \in Requests : InProgress(s)' => InProgress(s)
  BY DEF InProgress, Goto, BaseInv, TypeOK
<1> QED
  BY <1>1 DEF BaseInv, AloneInv, AdminAlone

LEMMA AloneNext == Exclusive /\ BaseInv /\ [Next]_vars => AloneInv'
<1> SUFFICES ASSUME Exclusive, BaseInv, [Next]_vars PROVE AloneInv'
  OBVIOUS
<1>1. ASSUME NEW r \in Requests, NEW to, Goto(r, to), AdminAlone',
             UNCHANGED <<q_, stoppedBy>>,
             to \notin {"load_join", "load_spawn", "chat_enqueue"},
             to = "queued" => pc[r] = "chat_enqueue" /\ sent' = sent,
             sent' = sent \/ \E a : Reply(r, a)
      PROVE  AloneInv'
  <2>1. /\ pc'[r] = to /\ \A s \in Requests \ {r} : pc'[s] = pc[s] /\ sent'[s] = sent[s]
    BY <1>1 DEF Goto, Reply, BaseInv, TypeOK
  <2> QED
    BY <1>1, <2>1 DEF BaseInv, AloneInv, QueueKept, Unanswered
<1>2. ASSUME NEW r \in Requests, Call(r) PROVE AloneInv'
  <2>1. PICK o, to :
          /\ Begin(r, o) /\ Goto(r, to) /\ UNCHANGED queueVars
          /\ \/ to \in EndPC /\ (sent' = sent \/ \E a : Reply(r, a))
             \/ to \in {"load_create", "unload_model", "chat_enqueue"} /\ sent' = sent
    BY <1>2
    DEF Call, LoadModel, LoadThrows, UnloadModel, GetModels, GetModelStatus,
        HandleEmbedding, HandleChatCompletion, CheckModelLoaded, EndPC
  <2>2. AdminAlone' /\ UNCHANGED <<q_, stoppedBy>>
    BY <2>1, BeginsAlone DEF queueVars
  <2>3. CASE to # "chat_enqueue"
    BY <1>1, <2>1, <2>2, <2>3 DEF EndPC
  <2>4. CASE to = "chat_enqueue"
    <3>1. /\ pc[r] = "idle" /\ pc'[r] = "chat_enqueue" /\ sent' = sent
          /\ \A s \in Requests \ {r} : pc'[s] = pc[s]
      BY <2>1, <2>4 DEF Begin, Goto, BaseInv, TypeOK, EndPC
    <3>2. sent[r] = <<>>
      BY <3>1 DEF BaseInv, CallInv, CallOK
    <3> QED
      BY <2>2, <3>1, <3>2 DEF BaseInv, AloneInv, QueueKept, Unanswered
  <2> QED
    BY <2>3, <2>4
<1>3. ASSUME NEW r \in Requests, HandlerStep(r) PROVE AloneInv'
  <2>1. AdminAlone'
    BY <1>3, HandlerFrame, MovesAlone
  <2>2. CASE LoadQueue(r) /\ Goto(r, "load_spawn")
    <3>1. /\ pc[r] = "load_queue" /\ pc'[r] = "load_spawn" /\ q_ = Null
          /\ \A s \in Requests \ {r} : pc'[s] = pc[s]
          /\ UNCHANGED <<q_, stoppedBy, sent>>
      BY <2>2 DEF LoadQueue, Move, Step, Goto, queueVars, BaseInv, TypeOK
    <3> QED
      BY <2>1, <3>1 DEF BaseInv, AloneInv, QueueKept, Unanswered
  <2>3. CASE LoadSpawn(r)
    <3>1. pc[r] = "load_spawn" /\ q_ = Null
      BY <2>3 DEF LoadSpawn, Step, BaseInv, AloneInv, QueueKept
    <3>2. /\ pc'[r] = "returned" /\ UNCHANGED <<stoppedBy, sent>>
          /\ \A s \in Requests \ {r} : pc'[s] = pc[s]
      BY <2>3, <3>1 DEF LoadSpawn, Step, Goto, BaseInv, TypeOK
    <3>3. \A s \in Requests \ {r} : pc[s] # "load_spawn"
      BY <3>1, Aside DEF LoadPC, InProgress, EndPC
    <3> QED
      BY <2>1, <3>1, <3>2, <3>3 DEF BaseInv, AloneInv, QueueKept, Unanswered
  <2>4. CASE ~LoadSpawn(r) /\ ~(LoadQueue(r) /\ Goto(r, "load_spawn"))
    <3>1. \E to : /\ Goto(r, to)
                  /\ to \notin {"load_join", "load_spawn", "chat_enqueue"}
                  /\ to = "queued" => pc[r] = "chat_enqueue" /\ sent' = sent
                  /\ sent' = sent \/ \E a : Reply(r, a)
                  /\ UNCHANGED <<q_, stoppedBy>>
      BY <1>3, <2>4
      DEF HandlerStep, LoadCreate, BuildFrom, LoadObjects, LoadStream, LoadReply, LoadFlag,
          LoadQueue, LoadJoin, LoadFails, LoadCatch, UnloadObjects, UnloadFlag,
          ChatEnqueue, Enqueue, Move, Assign, Step, queueVars
    <3> QED
      BY <1>1, <2>1, <3>1
  <2> QED
    BY <2>2, <2>3, <2>4
<1>4. ASSUME NEW c \in Requests, TaskStep(c) PROVE AloneInv'
  <2>1. AdminAlone'
    BY <1>4, TaskFrame, MovesAlone
  <2>2. pc[c] = "recreate_flag" => q_ # Null
    BY RunByQueue, NullAssumption DEF TaskPC, StreamPC
  <2>3. \E to : /\ Goto(c, to)
                /\ to \notin {"load_join", "load_spawn", "chat_enqueue", "queued"}
                /\ sent' = sent \/ \E a : Reply(c, a)
                /\ UNCHANGED <<q_, stoppedBy>>
    BY <1>4, <2>2
    DEF TaskStep, Encode, CreateParams, UseModel, Generated, DecodeAll, LoopTest, Token,
        AfterUnload, MeasureRate, Finish, RestartDrops, RestartFlag, RestartPath, Recreate,
        RecreateFlag, TaskFails, CatchDrops, CatchReply, EndTask, LeaveThread, Move, Assign, Step, queueVars
  <2> QED
    BY <1>1, <2>1, <2>3
<1>5. ASSUME NEW k \in Requests, RunNext(k) PROVE AloneInv'
  <2>1. PICK c \in Requests : pc[c] = "queued" /\ Goto(c, "encode")
    BY <1>5 DEF RunNext, Take, Step, BaseInv, TypeOK
  <2>2. op' = op /\ UNCHANGED <<q_, stoppedBy, sent>>
    BY <1>5 DEF RunNext, Take
  <2>3. InProgress(c)
    BY <2>1 DEF InProgress, EndPC
  <2> QED
    BY <1>1, <2>1, <2>2, <2>3, MovesAlone
<1>6. ASSUME NEW r \in Requests, Crash(r) PROVE AloneInv'
  BY <1>6
  DEF Crash, callVars, queueVars, BaseInv, AloneInv, AdminAlone, QueueKept, Unanswered,
      InProgress
<1>7. ASSUME UNCHANGED vars PROVE AloneInv'
  BY <1>7
  DEF vars, callVars, queueVars, BaseInv, AloneInv, AdminAlone, QueueKept, Unanswered,
      InProgress
<1> QED
  BY <1>2, <1>3, <1>4, <1>5, <1>6, <1>7, NextCases

LEMMA BaseInvariant == ASSUME Exclusive PROVE Spec => []BaseInv
<1>1. Init => BaseInv
  BY TypeInit, CallInit, HoldInit, AloneInit DEF BaseInv
<1>2. BaseInv /\ [Next]_vars => BaseInv'
  BY TypeNext, CallNext, HoldNext, AloneNext DEF BaseInv
<1> QED
  BY <1>1, <1>2, PTL DEF Spec

(* The queue that the first load created is kept by every load and restart,*)
(* so that no chat that waits in it is dropped.                            *)
THEOREM QueueNeverReplaced == ASSUME Exclusive PROVE Spec => []QueueIsKept
<1>1. BaseInv => QueueIsKept
  BY DEF BaseInv, AloneInv, QueueKept, QueueIsKept, QueueReplaced
<1> QED
  BY <1>1, BaseInvariant, PTL
-----------------------------------------------------------------------------
(***************************************************************************)
(* The refinement of ChatService.                                          *)
(***************************************************************************)
LEMMA EmptyFirst ==
  ASSUME NEW S, NEW s \in Seq(S)
  PROVE  <<>> \o s = s
OBVIOUS

LEMMA OneFirst ==
  ASSUME NEW S, NEW s \in Seq(S), NEW e \in S
  PROVE  /\ <<e>> \o s \in Seq(S) /\ <<e>> \o s # <<>>
         /\ Head(<<e>> \o s) = e /\ Tail(<<e>> \o s) = s
OBVIOUS

LEMMA HeadFirst ==
  ASSUME NEW S, NEW s \in Seq(S), s # <<>>
  PROVE  <<Head(s)>> \o Tail(s) = s
OBVIOUS

LEMMA AppendLast ==
  ASSUME NEW S, NEW s \in Seq(S), NEW t \in Seq(S), NEW e \in S
  PROVE  s \o Append(t, e) = Append(s \o t, e)
OBVIOUS

LEMMA QueueTypes ==
  ASSUME BaseInv
  PROVE  /\ q_ = Null => line = <<>>
         /\ q_ # Null =>
              /\ q_ \in Requests /\ tasks[q_] \in Seq(Requests)
              /\ busy[q_] = Null => line = tasks[q_]
              /\ busy[q_] # Null => busy[q_] \in Requests /\ line = <<busy[q_]>> \o tasks[q_]
<1>1. /\ q_ # Null => q_ \in Requests
      /\ \A k \in Requests : busy[k] # Null => busy[k] \in Requests
      /\ \A k \in Requests : tasks[k] \in Seq(Requests)
  BY DEF BaseInv, TypeOK, OrNull
<1>2. q_ # Null => tasks[q_] \in Seq(Requests) /\ <<>> \o tasks[q_] = tasks[q_]
  BY <1>1, EmptyFirst
<1> QED
  BY <1>1, <1>2 DEF line

(* The chats in the line wait or run.                                      *)
LEMMA ChatsInLine ==
  ASSUME BaseInv, NEW i \in DOMAIN line
  PROVE  line[i] \in Requests /\ pc[line[i]] \in {"queued"} \cup TaskPC
<1>1. /\ q_ # Null /\ q_ \in Requests /\ tasks[q_] \in Seq(Requests)
  BY QueueTypes
<1>2. /\ \A j \in DOMAIN tasks[q_] :
           tasks[q_][j] \in Requests /\ pc[tasks[q_][j]] = "queued"
      /\ busy[q_] # Null => pc[busy[q_]] \in TaskPC
  BY <1>1, HeldTypes DEF BaseInv, HoldInv, EachChatHeldOnce, Running
<1>3. CASE busy[q_] = Null
  BY <1>1, <1>2, <1>3, QueueTypes
<1>4. CASE busy[q_] # Null
  <2>1. busy[q_] \in Requests /\ line = <<busy[q_]>> \o tasks[q_]
    BY <1>1, <1>4, QueueTypes
  <2>2. line[i] = busy[q_] \/ \E j \in DOMAIN tasks[q_] : line[i] = tasks[q_][j]
    BY <1>1, <2>1
  <2> QED
    BY <1>2, <1>4, <2>1, <2>2
<1> QED
  BY <1>3, <1>4

(* The running chat is the first of the line.                              *)
LEMMA FirstInLine ==
  ASSUME BaseInv, NEW c \in Requests, pc[c] \in TaskPC
  PROVE  /\ q_ \in Requests /\ busy[q_] = c /\ tasks[q_] \in Seq(Requests)
         /\ line = <<c>> \o tasks[q_]
         /\ line # <<>> /\ Head(line) = c /\ Tail(line) = tasks[q_]
<1>1. q_ \in Requests /\ busy[q_] = c /\ c # Null /\ q_ # Null
  BY RunByQueue, NullAssumption
<1>2. tasks[q_] \in Seq(Requests) /\ line = <<c>> \o tasks[q_]
  BY <1>1, QueueTypes
<1> QED
  BY <1>1, <1>2, OneFirst

LEMMA Stutters ==
  ASSUME UNCHANGED <<q_, tasks, busy>>, replies' = replies
  PROVE  [CS!Next]_(CS!vars)
BY DEF line, CS!vars

(* What an answer, or none, does to replies.                               *)
LEMMA RepliesTo ==
  ASSUME BaseInv, NEW r \in Requests, NEW a, Reply(r, a), op' = op
  PROVE  /\ op[r] \notin Chats => replies' = replies
         /\ op[r] \in Chats => replies' = [replies EXCEPT ![r] = Append(@, a)]
<1>1. /\ sent'[r] = Append(sent[r], a)
      /\ \A s \in Requests \ {r} : sent'[s] = sent[s]
  BY DEF Reply, BaseInv, TypeOK
<1> QED
  BY <1>1 DEF replies

LEMMA RepliesSame ==
  ASSUME UNCHANGED <<op, sent>>
  PROVE  replies' = replies
BY DEF replies

LEMMA CallRefines ==
  ASSUME BaseInv, NEW r \in Requests, Call(r)
  PROVE  [CS!Next]_(CS!vars)
<1>1. PICK o \in OpKinds :
        /\ Begin(r, o) /\ UNCHANGED queueVars
        /\ \/ sent' = sent
           \/ o \notin Chats /\ \E a : Reply(r, a)
           \/ Reply(r, "refused")
  <2>1. CASE \E p \in Paths, h \in Histories : LoadModel(r, p, h)
    <3>1. Begin(r, "load") /\ UNCHANGED queueVars /\ sent' = sent
      BY <2>1 DEF LoadModel
    <3> QED
      BY <3>1 DEF OpKinds, Admin
  <2>2. CASE \E p \in Paths : LoadThrows(r, p)
    <3>1. Begin(r, "load") /\ UNCHANGED queueVars /\ sent' = sent
      BY <2>2 DEF LoadThrows
    <3> QED
      BY <3>1 DEF OpKinds, Admin
  <2>3. CASE UnloadModel(r)
    <3>1. Begin(r, "unload") /\ UNCHANGED queueVars
      BY <2>3 DEF UnloadModel
    <3>2. sent' = sent \/ Reply(r, "refused")
      BY <2>3 DEF UnloadModel, CheckModelLoaded
    <3> QED
      BY <3>1, <3>2 DEF OpKinds, Admin
  <2>4. CASE GetModels(r)
    <3>1. Begin(r, "models") /\ UNCHANGED queueVars /\ \E a : Reply(r, a)
      BY <2>4 DEF GetModels
    <3> QED
      BY <3>1 DEF OpKinds, Chats
  <2>5. CASE GetModelStatus(r)
    <3>1. Begin(r, "status") /\ UNCHANGED queueVars /\ \E a : Reply(r, a)
      BY <2>5 DEF GetModelStatus
    <3> QED
      BY <3>1 DEF OpKinds, Chats
  <2>6. CASE HandleEmbedding(r)
    <3>1. Begin(r, "embedding") /\ UNCHANGED queueVars /\ sent' = sent
      BY <2>6 DEF HandleEmbedding
    <3> QED
      BY <3>1 DEF OpKinds
  <2>7. CASE \E o \in Chats : HandleChatCompletion(r, o)
    <3>1. PICK o \in Chats : HandleChatCompletion(r, o)
      BY <2>7
    <3>2. Begin(r, o) /\ UNCHANGED queueVars /\ o \in OpKinds
      BY <3>1 DEF HandleChatCompletion, OpKinds
    <3>3. sent' = sent \/ Reply(r, "refused")
      BY <3>1 DEF HandleChatCompletion, CheckModelLoaded
    <3> QED
      BY <3>2, <3>3
  <2> QED
    BY <2>1, <2>2, <2>3, <2>4, <2>5, <2>6, <2>7 DEF Call
<1>2. /\ pc[r] = "idle" /\ op'[r] = o /\ sent[r] = <<>>
      /\ \A s \in Requests \ {r} : op'[s] = op[s]
  BY <1>1 DEF Begin, BaseInv, TypeOK, CallInv, CallOK
<1>3. \A a : Reply(r, a) =>
        sent'[r] = Append(<<>>, a) /\ \A s \in Requests \ {r} : sent'[s] = sent[s]
  BY <1>2 DEF Reply, BaseInv, TypeOK
<1>4. CASE sent' = sent \/ o \notin Chats
  <2>1. replies' = replies
    BY <1>1, <1>2, <1>3, <1>4 DEF replies
  <2> QED
    BY <1>1, <2>1, Stutters DEF queueVars
<1>5. CASE o \in Chats /\ Reply(r, "refused")
  <2>1. replies[r] = <<>>
    BY <1>2 DEF replies
  <2>2. replies' = [replies EXCEPT ![r] = <<"refused">>]
    <3>1. /\ op'[r] \in Chats /\ sent'[r] = <<"refused">>
          /\ \A s \in Requests \ {r} : op'[s] = op[s] /\ sent'[s] = sent[s]
      BY <1>2, <1>3, <1>5
    <3> QED
      BY <3>1 DEF replies
  <2>3. \A i \in DOMAIN line : line[i] # r
    BY <1>2, ChatsInLine DEF TaskPC, StreamPC, FullPC
  <2>4. line' = line
    BY <1>1 DEF line, queueVars
  <2> QED
    BY <2>1, <2>2, <2>3, <2>4 DEF CS!Next, CS!Refuse, CS!New
<1> QED
  BY <1>1, <1>4, <1>5

LEMMA HandlerRefines ==
  ASSUME BaseInv, NEW r \in Requests, HandlerStep(r)
  PROVE  [CS!Next]_(CS!vars)
<1>1. CASE Enqueue(r, Append(tasks[q_], r))
  <2>1. /\ q_ \in Requests /\ q_ # Null /\ UNCHANGED <<op, sent, q_, busy>>
        /\ pc[r] = "chat_enqueue" /\ tasks[q_] \in Seq(Requests)
        /\ tasks'[q_] = Append(tasks[q_], r)
    BY <1>1 DEF Enqueue, Step, BaseInv, TypeOK, OrNull
  <2>2. replies' = replies /\ replies[r] = <<>>
    BY <2>1, RepliesSame DEF replies, BaseInv, AloneInv, Unanswered
  <2>3. \A i \in DOMAIN line : line[i] # r
    BY <2>1, ChatsInLine DEF TaskPC, StreamPC, FullPC
  <2>4. line' = Append(line, r)
    <3>1. CASE busy[q_] = Null
      <4>1. line = tasks[q_] /\ <<>> \o Append(tasks[q_], r) = Append(tasks[q_], r)
        BY <2>1, <3>1, QueueTypes, EmptyFirst
      <4> QED
        BY <2>1, <3>1, <4>1 DEF line
    <3>2. CASE busy[q_] # Null
      <4>1. busy[q_] \in Requests /\ line = <<busy[q_]>> \o tasks[q_]
        BY <2>1, <3>2, QueueTypes
      <4>2. line' = <<busy[q_]>> \o Append(tasks[q_], r)
        BY <2>1, <3>2 DEF line
      <4>3. <<busy[q_]>> \in Seq(Requests)
        BY <4>1
      <4> QED
        BY <2>1, <4>1, <4>2, <4>3, AppendLast
    <3> QED
      BY <3>1, <3>2
  <2> QED
    BY <2>2, <2>3, <2>4 DEF CS!Next, CS!Accept, CS!New
<1>2. CASE LoadSpawn(r)
  <2>1. /\ q_ = Null /\ q_' = r /\ UNCHANGED <<op, sent, tasks, busy>>
    BY <1>2 DEF LoadSpawn, Step, BaseInv, AloneInv, QueueKept
  <2>2. busy[r] = Null /\ tasks[r] = <<>>
    BY <2>1, HeldByQueue, NullAssumption
  <2>3. line = <<>> /\ line' = <<>>
    BY <2>1, <2>2, NullAssumption DEF line
  <2> QED
    BY <2>1, <2>3, RepliesSame DEF CS!vars
<1>3. CASE ~Enqueue(r, Append(tasks[q_], r)) /\ ~LoadSpawn(r)
  <2>1. ~LoadJoin(r)
    BY DEF LoadJoin, Step, BaseInv, AloneInv, QueueKept
  <2>2. UNCHANGED queueVars
    <3>1. CASE ChatEnqueue(r)
      BY <1>3, <3>1 DEF ChatEnqueue, Move
    <3> QED
      BY <1>3, <2>1, <3>1, HandlerMoves
  <2>3. op' = op /\ (sent' = sent \/ (pc[r] \in LoadPC \cup UnloadPC /\ \E a : Reply(r, a)))
    BY <1>3, <2>1
    DEF HandlerStep, LoadCreate, BuildFrom, LoadObjects, LoadStream, LoadReply, LoadFlag,
        LoadQueue, LoadFails, LoadCatch, UnloadObjects, UnloadFlag, ChatEnqueue,
        Move, Assign, Step, LoadPC, UnloadPC
  <2>4. replies' = replies
    <3>1. pc[r] \in LoadPC \cup UnloadPC => op[r] \notin Chats
      BY DEF BaseInv, CallInv, CallOK, Chats
    <3> QED
      BY <2>3, <3>1, RepliesTo, RepliesSame
  <2> QED
    BY <2>2, <2>4, Stutters DEF queueVars
<1> QED
  BY <1>1, <1>2, <1>3

LEMMA TaskRefines ==
  ASSUME BaseInv, NEW c \in Requests, TaskStep(c)
  PROVE  [CS!Next]_(CS!vars)
<1> USE DEF TaskPC, StreamPC, FullPC
<1>1. pc[c] \in TaskPC => op[c] \in Chats
  BY DEF BaseInv, CallInv, CallOK, ChatPC
<1>2. CASE Token(c)
  <2>1. pc[c] = "token" /\ Reply(c, "chunk") /\ op' = op /\ UNCHANGED <<q_, tasks, busy>>
    BY <1>2 DEF Token, Step, queueVars
  <2>2. replies' = [replies EXCEPT ![c] = Append(@, "chunk")]
    BY <1>1, <2>1, RepliesTo
  <2>3. line # <<>> /\ Head(line) = c /\ line' = line
    BY <2>1, FirstInLine DEF line
  <2> QED
    BY <2>2, <2>3 DEF CS!Next, CS!Chunk
<1>3. CASE DecodeAll(c) \/ AfterUnload(c) \/ Finish(c) \/ CatchReply(c)
  <2>1. PICK a \in {"full", "cut", "stop", "failed"} :
          /\ EndTask(c, a) /\ pc[c] \in TaskPC /\ op' = op /\ UNCHANGED <<q_, tasks>>
    BY <1>3 DEF DecodeAll, AfterUnload, Finish, CatchReply
  <2>2. replies' = [replies EXCEPT ![c] = Append(@, a)]
    BY <1>1, <2>1, RepliesTo DEF EndTask
  <2>3. /\ q_ \in Requests /\ busy[q_] = c /\ line # <<>> /\ Head(line) = c
        /\ tasks[q_] \in Seq(Requests) /\ Tail(line) = tasks[q_]
    BY <2>1, FirstInLine
  <2>4. busy'[q_] = Null
    BY <2>1, <2>3 DEF EndTask, LeaveThread
  <2>5. line' = tasks[q_]
    BY <2>1, <2>3, <2>4, EmptyFirst, NullAssumption DEF line
  <2> QED
    BY <2>2, <2>3, <2>5 DEF CS!Next, CS!Close, CS!LastAnswers
<1>4. CASE RecreateFlag(c)
  <2>1. pc[c] = "recreate_flag" /\ UNCHANGED <<op, sent, tasks, busy>>
    BY <1>4, Zenon DEF RecreateFlag, Step
  <2>2. q_' = q_
    BY <1>4, <2>1, FirstInLine, NullAssumption DEF RecreateFlag
  <2> QED
    BY <2>1, <2>2, RepliesSame, Stutters
<1>5. CASE ~(DecodeAll(c) \/ AfterUnload(c) \/ Finish(c) \/ CatchReply(c) \/ RecreateFlag(c))
           /\ ~Token(c)
  <2>1. UNCHANGED queueVars
    BY <1>5, TaskMoves
  <2>2. UNCHANGED <<op, sent>>
    BY <1>5
    DEF TaskStep, Encode, CreateParams, UseModel, Generated, LoopTest, MeasureRate,
        RestartDrops, RestartFlag, RestartPath, Recreate, TaskFails, CatchDrops, Move, Assign
  <2> QED
    BY <2>1, <2>2, RepliesSame, Stutters DEF queueVars
<1> QED
  BY <1>2, <1>3, <1>4, <1>5

LEMMA RunNextRefines ==
  ASSUME BaseInv, NEW k \in Requests, RunNext(k)
  PROVE  [CS!Next]_(CS!vars)
<1>1. /\ busy[k] = Null /\ tasks[k] # <<>> /\ tasks[k] \in Seq(Requests)
      /\ busy'[k] = Head(tasks[k]) /\ tasks'[k] = Tail(tasks[k])
      /\ UNCHANGED <<op, sent, q_>>
  BY DEF RunNext, Take, BaseInv, TypeOK
<1>2. k = q_ /\ k # Null /\ Head(tasks[k]) \in Requests
  BY <1>1, HeldByQueue, NullAssumption
<1>3. line = tasks[k]
  BY <1>1, <1>2, QueueTypes
<1>4. line' = <<Head(tasks[k])>> \o Tail(tasks[k])
  BY <1>1, <1>2, NullAssumption DEF line
<1>5. line' = line
  BY <1>1, <1>3, <1>4, HeadFirst
<1> QED
  BY <1>1, <1>5, RepliesSame DEF CS!vars

(* Chats are served as ChatService promises, whatever fails: one at a      *)
(* time, in the order of their acceptance, each by chunks and one last     *)
(* answer.                                                                 *)
THEOREM ImplementsChatService == ASSUME Exclusive PROVE Spec => ServesInOrder
<1>1. Init => CS!Init
  BY DEF Init, CS!Init, line, replies
<1>2. BaseInv /\ [Next]_vars => [CS!Next]_(CS!vars)
  <2> SUFFICES ASSUME BaseInv, [Next]_vars PROVE [CS!Next]_(CS!vars)
    OBVIOUS
  <2>1. ASSUME NEW r \in Requests, Crash(r) PROVE [CS!Next]_(CS!vars)
    BY <2>1, RepliesSame, Stutters DEF Crash, callVars, queueVars
  <2>2. ASSUME UNCHANGED vars PROVE [CS!Next]_(CS!vars)
    BY <2>2, RepliesSame, Stutters DEF vars, callVars, queueVars
  <2> QED
    BY <2>1, <2>2, CallRefines, HandlerRefines, TaskRefines, RunNextRefines, NextCases
<1> QED
  BY <1>1, <1>2, BaseInvariant, PTL DEF Spec, ServesInOrder, CS!Spec
-----------------------------------------------------------------------------
(***************************************************************************)
(* The three objects are released, whatever fails.                         *)
(***************************************************************************)
Objects == {"oga_model", "tokenizer", "tokenizer_stream"}
Empty == \A m \in Objects : eng[m] = Null

(* Where a request works on the three objects.                             *)
RenewPC ==
  {"restart_stream", "restart_tokenizer", "restart_model", "restart_flag", "restart_path",
   "recreate_model", "recreate_tokenizer", "recreate_stream", "recreate_flag",
   "catch_stream", "catch_tokenizer", "catch_model"}
WorkPC == LoadPC \cup UnloadPC \cup RenewPC

(* What it has done so far, on the paths that may end without the flag.    *)
Freed(r) ==
  /\ pc[r] \in {"unload_tokenizer", "unload_stream", "unload_flag",
                "load_drop_tokenizer", "load_drop_stream"} => eng.oga_model = Null
  /\ pc[r] \in {"unload_stream", "unload_flag", "load_drop_stream", "catch_model"} =>
       eng.tokenizer = Null
  /\ pc[r] \in {"unload_flag", "catch_tokenizer", "catch_model"} =>
       eng.tokenizer_stream = Null
  /\ pc[r] \in {"load_queue", "load_spawn"} => eng.model_loaded

Released == (\A r \in Requests : pc[r] \notin WorkPC) => eng.model_loaded \/ Empty
ReleaseInv == Released /\ \A r \in Requests : Freed(r)

(* Where Freed says nothing.                                               *)
PlainPC ==
  WorkPC \ {"unload_tokenizer", "unload_stream", "unload_flag",
            "load_drop_tokenizer", "load_drop_stream", "catch_tokenizer", "catch_model",
            "load_queue", "load_spawn"}
-----------------------------------------------------------------------------
LEMMA PCKinds ==
  /\ RenewPC \subseteq TaskPC /\ (LoadPC \cup UnloadPC) \cap TaskPC = {}
  /\ EndPC \cap WorkPC = {} /\ "idle" \notin WorkPC
BY DEF RenewPC, TaskPC, StreamPC, FullPC, LoadPC, UnloadPC, EndPC, WorkPC

(* A request that works on the objects is the only one.                    *)
LEMMA WorksAlone ==
  ASSUME BaseInv, NEW r \in Requests, pc[r] \in WorkPC, NEW s \in Requests \ {r}
  PROVE  pc[s] \notin WorkPC
<1>1. /\ pc[r] \in WorkPC => InProgress(r)
      /\ pc[s] \in WorkPC => InProgress(s)
  BY PCKinds DEF InProgress
<1>2. CASE pc[r] \in LoadPC \cup UnloadPC
  BY <1>1, <1>2, Aside
<1>3. CASE pc[r] \in RenewPC
  <2>1. pc[s] \notin LoadPC \cup UnloadPC
    BY <1>1, Aside
  <2>2. pc[s] \notin RenewPC
    BY <1>3, OneTask, PCKinds
  <2> QED
    BY <2>1, <2>2 DEF WorkPC
<1> QED
  BY <1>2, <1>3 DEF WorkPC

(* A request that does not work on the objects moves on, or begins to.     *)
LEMMA StaysOut ==
  ASSUME BaseInv, ReleaseInv, NEW r \in Requests, NEW to, Goto(r, to),
         pc[r] \notin WorkPC, to \in WorkPC => to \in PlainPC,
         \A m \in Objects \cup {"model_loaded"} : eng'[m] = eng[m]
  PROVE  ReleaseInv'
<1>1. pc'[r] = to /\ \A s \in Requests \ {r} : pc'[s] = pc[s]
  BY DEF Goto, BaseInv, TypeOK
<1>2. \A s \in Requests : Freed(s)'
  <2>1. \A s \in Requests \ {r} : Freed(s)'
    BY <1>1 DEF ReleaseInv, Freed, Objects
  <2>2. Freed(r)'
    BY <1>1 DEF Freed, PlainPC, WorkPC, LoadPC, UnloadPC, RenewPC
  <2> QED
    BY <2>1, <2>2
<1>3. Released'
  <2>1. Empty' <=> Empty
    BY DEF Empty
  <2>2. (\A s \in Requests : pc'[s] \notin WorkPC) => \A s \in Requests : pc[s] \notin WorkPC
    BY <1>1
  <2> QED
    BY <2>1, <2>2 DEF ReleaseInv, Released
<1> QED
  BY <1>2, <1>3 DEF ReleaseInv

(* A request that works on the objects goes on, or has done.               *)
LEMMA WorksOn ==
  ASSUME BaseInv, NEW r \in Requests, NEW to, Goto(r, to), pc[r] \in WorkPC,
         \/ to \in PlainPC
         \/ to \in WorkPC /\ Freed(r)'
         \/ to \notin WorkPC /\ (eng'.model_loaded \/ Empty')
  PROVE  ReleaseInv'
<1>1. pc'[r] = to /\ \A s \in Requests \ {r} : pc'[s] = pc[s]
  BY DEF Goto, BaseInv, TypeOK
<1>2. \A s \in Requests \ {r} : pc'[s] \notin WorkPC
  BY <1>1, WorksAlone
<1>3. \A s \in Requests : pc'[s] \notin WorkPC \/ pc'[s] \in PlainPC => Freed(s)'
  BY DEF Freed, PlainPC, WorkPC, LoadPC, UnloadPC, RenewPC
<1>4. PlainPC \subseteq WorkPC
  BY DEF PlainPC
<1> QED
  BY <1>1, <1>2, <1>3, <1>4 DEF ReleaseInv, Released
-----------------------------------------------------------------------------
LEMMA ReleaseInit == Init => ReleaseInv
<1> SUFFICES ASSUME Init PROVE ReleaseInv
  OBVIOUS
<1>1. \A r \in Requests : pc[r] = "idle"
  BY DEF Init
<1>2. Empty
  BY DEF Init, Empty, Objects
<1> QED
  BY <1>1, <1>2 DEF ReleaseInv, Released, Freed

LEMMA CallReleases ==
  ASSUME BaseInv, ReleaseInv, NEW r \in Requests, Call(r)
  PROVE  ReleaseInv'
<1> DEFINE Same == \A m \in Objects \cup {"model_loaded"} : eng'[m] = eng[m]
<1>1. PICK to \in EndPC \cup {"load_create", "unload_model", "chat_enqueue"} :
        pc[r] = "idle" /\ Goto(r, to) /\ Same
  <2>1. CASE \E p \in Paths, h \in Histories : LoadModel(r, p, h)
    <3>1. PICK p \in Paths, h \in Histories :
            eng' = [eng EXCEPT !.path = p, !.max_history_chat = h]
      BY <2>1 DEF LoadModel
    <3>2. Same
      BY <3>1 DEF Objects, BaseInv, TypeOK, Engines
    <3> QED
      BY <2>1, <3>2 DEF LoadModel, Begin
  <2>2. CASE \E p \in Paths : LoadThrows(r, p)
    <3>1. PICK p \in Paths : Set("path", p)
      BY <2>2 DEF LoadThrows
    <3>2. DOMAIN eng = {"oga_model", "tokenizer", "tokenizer_stream", "model_loaded",
                        "path", "model_id", "max_history_chat"}
      BY DEF BaseInv, TypeOK, Engines
    <3>3. \A n \in DOMAIN eng \ {"path"} : eng'[n] = eng[n]
      BY <3>1, <3>2, Assigned
    <3>4. Same
      BY <3>2, <3>3 DEF Objects
    <3> QED
      BY <2>2, <3>4 DEF LoadThrows, Begin, EndPC
  <2>3. CASE ~(\E p \in Paths, h \in Histories : LoadModel(r, p, h))
             /\ ~\E p \in Paths : LoadThrows(r, p)
    BY <2>3
    DEF Call, UnloadModel, GetModels, GetModelStatus, HandleEmbedding,
        HandleChatCompletion, CheckModelLoaded, Begin, EndPC
  <2> QED
    BY <2>1, <2>2, <2>3
<1>2. pc[r] \notin WorkPC /\ (to \in WorkPC => to \in PlainPC)
  BY <1>1, PCKinds DEF PlainPC, WorkPC, LoadPC, UnloadPC, RenewPC
<1> QED
  BY <1>1, <1>2, StaysOut

LEMMA HandlerReleases ==
  ASSUME BaseInv, ReleaseInv, NEW r \in Requests, HandlerStep(r)
  PROVE  ReleaseInv'
<1>1. \A to : Goto(r, to) => pc'[r] = to
  BY DEF Goto, BaseInv, TypeOK
<1>2. DOMAIN eng = {"oga_model", "tokenizer", "tokenizer_stream", "model_loaded", "path",
                    "model_id", "max_history_chat"}
  BY DEF BaseInv, TypeOK, Engines
<1>3. Freed(r)
  BY DEF ReleaseInv
<1>4. LoadPC \cup UnloadPC \subseteq WorkPC /\ "returned" \notin WorkPC
  BY PCKinds DEF WorkPC, EndPC
<1>5. ASSUME NEW m \in DOMAIN eng, NEW v, NEW from \in LoadPC \cup UnloadPC,
             NEW to \in LoadPC \cup UnloadPC, Assign(r, from, m, v, to),
             Goto(r, to) /\ pc[r] = from /\ eng'[m] = v
               /\ (\A n \in DOMAIN eng \ {m} : eng'[n] = eng[n]) => Freed(r)'
      PROVE  ReleaseInv'
  <2>1. Goto(r, to) /\ pc[r] = from /\ Set(m, v)
    BY <1>5 DEF Assign, Step
  <2>2. eng'[m] = v /\ \A n \in DOMAIN eng \ {m} : eng'[n] = eng[n]
    BY <2>1, Assigned
  <2> QED
    BY <1>4, <1>5, <2>1, <2>2, WorksOn
<1>6. ASSUME pc[r] \in LoadPC, NEW to \in PlainPC, Goto(r, to) PROVE ReleaseInv'
  BY <1>4, <1>6, WorksOn
<1>7. CASE LoadCreate(r) \/ LoadObjects(r) \/ LoadStream(r) \/ LoadReply(r) \/ LoadFails(r)
  <2>1. /\ pc[r] \in {"load_create", "load_model", "load_tokenizer", "load_stream",
                      "load_reply", "load_spawn"}
        /\ \E to \in {"load_model", "load_tokenizer", "load_stream", "load_reply",
                      "load_flag", "load_drop_model"} : Goto(r, to)
    BY <1>7 DEF LoadCreate, BuildFrom, LoadObjects, LoadStream, LoadReply, LoadFails,
                Assign, Move, Step
  <2> QED
    BY <1>6, <2>1 DEF LoadPC, PlainPC, WorkPC
<1>8. CASE LoadFlag(r)
  <2>1. pc[r] = "load_flag" /\ Goto(r, "load_queue") /\ Set("model_loaded", TRUE)
    BY <1>8, Zenon DEF LoadFlag, Assign, Step
  <2>2. eng'.model_loaded
    BY <1>2, <2>1, Assigned
  <2>3. Freed(r)'
    BY <1>1, <2>1, <2>2 DEF Freed
  <2> QED
    BY <1>4, <2>1, <2>3, WorksOn DEF LoadPC
<1>9. CASE LoadQueue(r) \/ LoadSpawn(r)
  <2>1. pc[r] \in {"load_queue", "load_spawn"} /\ eng' = eng /\ eng.model_loaded
    BY <1>3, <1>9 DEF LoadQueue, LoadSpawn, Move, Step, Freed
  <2>2. pc[r] = "load_spawn" => q_ = Null
    BY DEF BaseInv, AloneInv, QueueKept
  <2>3. \E to \in {"load_spawn", "returned"} : Goto(r, to)
    BY <1>9, <2>2 DEF LoadQueue, LoadSpawn, Move, Step
  <2>4. Goto(r, "load_spawn") => Freed(r)'
    BY <1>1, <2>1 DEF Freed
  <2> QED
    BY <1>4, <2>1, <2>3, <2>4, WorksOn DEF LoadPC
<1>10. CASE LoadJoin(r)
  BY <1>10 DEF LoadJoin, Step, BaseInv, AloneInv, QueueKept
<1>11. CASE LoadCatch(r)
  <2>1. CASE Assign(r, "load_drop_model", "oga_model", Null, "load_drop_tokenizer")
    BY <1>1, <1>2, <1>5, <2>1 DEF Freed, LoadPC
  <2>2. CASE Assign(r, "load_drop_tokenizer", "tokenizer", Null, "load_drop_stream")
    BY <1>1, <1>2, <1>3, <1>5, <2>2 DEF Freed, LoadPC
  <2>3. CASE Step(r, "load_drop_stream", "returned")
    <3>1. /\ pc[r] = "load_drop_stream" /\ Goto(r, "returned")
          /\ Set("tokenizer_stream", Null)
      BY <1>11, <2>3 DEF LoadCatch, Assign, Step
    <3>2. Empty'
      BY <1>2, <1>3, <3>1, Assigned DEF Freed, Empty, Objects
    <3> QED
      BY <1>4, <3>1, <3>2, WorksOn DEF LoadPC
  <2> QED
    BY <1>11, <2>1, <2>2, <2>3 DEF LoadCatch
<1>12. CASE UnloadObjects(r)
  <2>1. CASE Assign(r, "unload_model", "oga_model", Null, "unload_tokenizer")
    BY <1>1, <1>2, <1>5, <2>1 DEF Freed, UnloadPC
  <2>2. CASE Assign(r, "unload_tokenizer", "tokenizer", Null, "unload_stream")
    BY <1>1, <1>2, <1>3, <1>5, <2>2 DEF Freed, UnloadPC
  <2>3. CASE Assign(r, "unload_stream", "tokenizer_stream", Null, "unload_flag")
    BY <1>1, <1>2, <1>3, <1>5, <2>3 DEF Freed, UnloadPC
  <2> QED
    BY <1>12, <2>1, <2>2, <2>3 DEF UnloadObjects
<1>13. CASE UnloadFlag(r)
  <2>1. pc[r] = "unload_flag" /\ Goto(r, "returned") /\ Set("model_loaded", FALSE)
    BY <1>13, Zenon DEF UnloadFlag, Step
  <2>2. Empty'
    BY <1>2, <1>3, <2>1, Assigned DEF Freed, Empty, Objects
  <2> QED
    BY <1>4, <2>1, <2>2, WorksOn DEF UnloadPC
<1>14. CASE ChatEnqueue(r)
  <2>1. /\ pc[r] = "chat_enqueue" /\ eng' = eng
        /\ \E to \in {"queued", "threw"} : Goto(r, to)
    BY <1>14 DEF ChatEnqueue, Enqueue, Move, Step
  <2> QED
    BY <2>1, StaysOut DEF WorkPC, LoadPC, UnloadPC, RenewPC
<1> QED
  BY <1>7, <1>8, <1>9, <1>10, <1>11, <1>12, <1>13, <1>14 DEF HandlerStep

LEMMA TaskReleases ==
  ASSUME BaseInv, ReleaseInv, NEW c \in Requests, TaskStep(c)
  PROVE  ReleaseInv'
<1>1. \A to : Goto(c, to) => pc'[c] = to
  BY DEF Goto, BaseInv, TypeOK
<1>2. DOMAIN eng = {"oga_model", "tokenizer", "tokenizer_stream", "model_loaded", "path",
                    "model_id", "max_history_chat"}
  BY DEF BaseInv, TypeOK, Engines
<1>3. Freed(c)
  BY DEF ReleaseInv
<1>4. RenewPC \subseteq WorkPC /\ "returned" \notin WorkPC /\ "finish" \notin WorkPC
  BY PCKinds DEF WorkPC, EndPC, LoadPC, UnloadPC, RenewPC
<1>5. CASE \/ Encode(c) \/ CreateParams(c) \/ UseModel(c) \/ Generated(c) \/ DecodeAll(c)
           \/ LoopTest(c) \/ Token(c) \/ AfterUnload(c) \/ MeasureRate(c) \/ Finish(c)
  <2>1. /\ pc[c] \in {"encode", "params", "generator", "generate", "generating", "decode",
                      "loop", "token", "after", "finish"}
        /\ eng' = eng
        /\ \E to \in {"params", "generator", "generate", "generating", "decode", "loop",
                      "token", "after", "finish", "restart_stream", "returned"} : Goto(c, to)
    BY <1>5 DEF Encode, CreateParams, UseModel, Generated, DecodeAll, LoopTest, Token,
                AfterUnload, MeasureRate, Finish, EndTask, LeaveThread, Move, Step
  <2> QED
    BY <2>1, StaysOut DEF PlainPC, WorkPC, LoadPC, UnloadPC, RenewPC
<1>6. CASE RestartDrops(c) \/ RestartFlag(c) \/ RestartPath(c) \/ Recreate(c)
  <2>1. /\ pc[c] \in RenewPC
        /\ \E to \in {"restart_tokenizer", "restart_model", "restart_flag",
                      "restart_path", "recreate_model", "recreate_tokenizer", "recreate_stream", "recreate_flag"} : Goto(c, to)
    BY <1>6 DEF RestartDrops, RestartFlag, RestartPath, Recreate, Assign, Step, RenewPC
  <2> QED
    BY <1>4, <2>1, WorksOn DEF PlainPC, WorkPC, RenewPC
<1>7. CASE RecreateFlag(c)
  <2>1. pc[c] = "recreate_flag" /\ Goto(c, "finish") /\ Set("model_loaded", TRUE)
    BY <1>7, Zenon DEF RecreateFlag, Step
  <2>2. eng'.model_loaded
    BY <1>2, <2>1, Assigned
  <2> QED
    BY <1>4, <2>1, <2>2, WorksOn DEF RenewPC
<1>8. CASE TaskFails(c)
  <2>1. Goto(c, "catch_stream") /\ eng' = eng /\ "catch_stream" \in PlainPC
    BY <1>8 DEF TaskFails, Move, Step, PlainPC, WorkPC, RenewPC
  <2> QED
    BY <2>1, StaysOut, WorksOn
<1>9. CASE CatchDrops(c)
  <2>1. ASSUME NEW m \in DOMAIN eng, NEW from \in RenewPC, NEW to \in RenewPC,
               Assign(c, from, m, Null, to)
        PROVE  /\ Goto(c, to) /\ pc[c] = from /\ eng'[m] = Null
               /\ \A n \in DOMAIN eng \ {m} : eng'[n] = eng[n]
    BY <2>1, Assigned DEF Assign, Step
  <2>2. CASE Assign(c, "catch_stream", "tokenizer_stream", Null, "catch_tokenizer")
    <3>1. /\ Goto(c, "catch_tokenizer") /\ pc[c] = "catch_stream"
          /\ eng'.tokenizer_stream = Null
      BY <1>2, <2>1, <2>2 DEF RenewPC
    <3>2. Freed(c)'
      BY <1>1, <3>1 DEF Freed
    <3> QED
      BY <1>4, <3>1, <3>2, WorksOn DEF RenewPC
  <2>3. CASE Assign(c, "catch_tokenizer", "tokenizer", Null, "catch_model")
    <3>1. /\ Goto(c, "catch_model") /\ pc[c] = "catch_tokenizer"
          /\ eng'.tokenizer = Null /\ eng'.tokenizer_stream = eng.tokenizer_stream
      BY <1>2, <2>1, <2>3 DEF RenewPC
    <3>2. Freed(c)'
      BY <1>1, <1>3, <3>1 DEF Freed
    <3> QED
      BY <1>4, <3>1, <3>2, WorksOn DEF RenewPC
  <2> QED
    BY <1>9, <2>2, <2>3 DEF CatchDrops
<1>10. CASE CatchReply(c)
  <2>1. pc[c] = "catch_model" /\ Goto(c, "returned") /\ Set("oga_model", Null)
    BY <1>10 DEF CatchReply, EndTask, LeaveThread
  <2>2. Empty'
    BY <1>2, <1>3, <2>1, Assigned DEF Freed, Empty, Objects
  <2> QED
    BY <1>4, <2>1, <2>2, WorksOn DEF RenewPC
<1> QED
  BY <1>5, <1>6, <1>7, <1>8, <1>9, <1>10 DEF TaskStep

LEMMA ReleaseNext == BaseInv /\ ReleaseInv /\ [Next]_vars => ReleaseInv'
<1> SUFFICES ASSUME BaseInv, ReleaseInv, [Next]_vars PROVE ReleaseInv'
  OBVIOUS
<1>1. ASSUME NEW k \in Requests, RunNext(k) PROVE ReleaseInv'
  <2>1. PICK c \in Requests : pc[c] = "queued" /\ Goto(c, "encode")
    BY <1>1 DEF RunNext, Take, Step, BaseInv, TypeOK
  <2>2. eng' = eng
    BY <1>1 DEF RunNext, Take
  <2> QED
    BY <2>1, <2>2, StaysOut DEF WorkPC, LoadPC, UnloadPC, RenewPC
<1>2. ASSUME UNCHANGED <<pc, eng>> PROVE ReleaseInv'
  BY <1>2 DEF ReleaseInv, Released, Freed, Empty
<1>3. ASSUME NEW r \in Requests, Crash(r) PROVE ReleaseInv'
  BY <1>2, <1>3 DEF Crash, callVars
<1>4. ASSUME UNCHANGED vars PROVE ReleaseInv'
  BY <1>2, <1>4 DEF vars, callVars
<1> QED
  BY <1>1, <1>3, <1>4, CallReleases, HandlerReleases, TaskReleases, NextCases

(* Between calls, an engine that says it has no model holds none of the    *)
(* three objects: UnloadModel, the catch of LoadModel, and a restart that  *)
(* fails half-way, have freed all of them.                                 *)
THEOREM NothingIsLeft == ASSUME Exclusive PROVE Spec => []UnloadedEngineHoldsNothing
<1>1. ReleaseInv => UnloadedEngineHoldsNothing
  <2> SUFFICES ASSUME ReleaseInv, Quiet, ~eng.model_loaded
               PROVE  {eng.oga_model, eng.tokenizer, eng.tokenizer_stream} = {Null}
    BY DEF UnloadedEngineHoldsNothing
  <2>1. \A r \in Requests : pc[r] \notin WorkPC
    BY PCKinds DEF Quiet, InProgress
  <2> QED
    BY <2>1 DEF ReleaseInv, Released, Empty, Objects
<1>2. Init => ReleaseInv
  BY ReleaseInit
<1>3. BaseInv /\ ReleaseInv /\ [Next]_vars => ReleaseInv'
  BY ReleaseNext
<1>4. Spec => []BaseInv
  BY BaseInvariant
<1> QED
  BY <1>1, <1>2, <1>3, <1>4, PTL DEF Spec
-----------------------------------------------------------------------------
(***************************************************************************)
(* The three objects belong together, when nothing fails but a badly typed *)
(* body of a chat: for every set of requests and paths, every operation    *)
(* and any number of tokens.                                               *)
(***************************************************************************)
(* Clients and failures as in the run engine_exclusive.                    *)
Careful ==
  Exclusive /\ Faults \subseteq {"chat_args"} /\ InitialFlags \subseteq {FALSE}

(* Where a request works on the three objects, and where none can be when  *)
(* nothing fails.                                                          *)
RecreatePC == {"recreate_model", "recreate_tokenizer", "recreate_stream", "recreate_flag"}
RestartPC ==
  {"restart_stream", "restart_tokenizer", "restart_model", "restart_flag", "restart_path"}
    \cup RecreatePC
ChangePC == LoadPC \cup UnloadPC \cup RestartPC
FailPC == {"load_join", "load_drop_model", "load_drop_tokenizer", "load_drop_stream",
           "catch_stream", "catch_tokenizer", "catch_model"}

(* The three objects belong together, and to the path that was loaded.     *)
Sound ==
  /\ eng.model_loaded /\ q_ # Null
  /\ eng.oga_model # Null /\ eng.tokenizer = eng.oga_model
  /\ eng.tokenizer_stream = eng.oga_model
  /\ built[eng.oga_model] = eng.path
  /\ eng.model_id \in Requests /\ built[eng.model_id] = eng.path

(* What a load or a restart has done so far.                               *)
LoadedSoFar(r) ==
  /\ pc[r] # "load_create" => built[r] = eng.path
  /\ pc[r] \notin {"load_create", "load_model"} => eng.oga_model = r
  /\ pc[r] \notin {"load_create", "load_model", "load_tokenizer"} => eng.tokenizer = r
  /\ pc[r] \notin {"load_create", "load_model", "load_tokenizer", "load_stream"} =>
       eng.tokenizer_stream = r
  /\ pc[r] \in {"load_flag", "load_queue", "load_spawn"} => eng.model_id = r
  /\ pc[r] \in {"load_queue", "load_spawn"} => eng.model_loaded
  /\ pc[r] = "load_spawn" => q_ = Null
RestartedSoFar(c) ==
  /\ q_ # Null
  /\ eng.model_id \in Requests /\ built[eng.model_id] = eng.path
  /\ pc[c] \in RecreatePC => built[c] = eng.path
  /\ pc[c] \in RecreatePC \ {"recreate_model"} => eng.oga_model = c
  /\ pc[c] \in {"recreate_stream", "recreate_flag"} => eng.tokenizer = c
  /\ pc[c] = "recreate_flag" => eng.tokenizer_stream = c

NothingFails == ~crashed /\ \A r \in Requests : pc[r] \notin FailPC
Changing ==
  \A r \in Requests : /\ pc[r] \in LoadPC => LoadedSoFar(r)
                      /\ pc[r] \in RestartPC => RestartedSoFar(r)
Settled ==
  /\ \A r \in Requests : pc[r] \notin ChangePC
  /\ eng.model_loaded \/ \E c \in Requests : pc[c] \in ChatPC
  => Sound
OwnModel ==
  \A c \in Requests : pc[c] \in {"generating", "loop", "token"} => gen[c] = eng.oga_model

ExclusiveInv == NothingFails /\ Changing /\ Settled /\ OwnModel
-----------------------------------------------------------------------------
(***************************************************************************)
(* Who can be where at the same time.                                      *)
(***************************************************************************)
LEMMA PCFacts ==
  /\ RestartPC \subseteq TaskPC /\ TaskPC \subseteq ChatPC
  /\ (LoadPC \cup UnloadPC) \cap ChatPC = {}
BY DEF RestartPC, RecreatePC, LoadPC, UnloadPC, ChatPC, TaskPC, StreamPC, FullPC

(* A task that does not restart the model finds everything in place.       *)
LEMMA TaskIsSound ==
  ASSUME BaseInv, ExclusiveInv, NEW c \in Requests, pc[c] \in TaskPC \ RestartPC
  PROVE  Sound /\ \A s \in Requests : pc[s] \notin ChangePC
<1>1. ASSUME NEW s \in Requests PROVE pc[s] \notin ChangePC
  <2>1. CASE s = c
    BY <2>1, PCFacts DEF ChangePC
  <2>2. CASE s # c
    <3>1. pc[s] \notin LoadPC \cup UnloadPC
      BY <2>2, Aside, ChatsInProgress, PCFacts
    <3>2. pc[s] \notin RestartPC
      BY <2>2, OneTask, PCFacts
    <3> QED
      BY <3>1, <3>2 DEF ChangePC
  <2> QED
    BY <2>1, <2>2
<1> QED
  BY <1>1, PCFacts DEF BaseInv, ExclusiveInv, Settled

(* A chat in progress finds a queue.                                       *)
LEMMA ChatHasQueue ==
  ASSUME BaseInv, ExclusiveInv, NEW c \in Requests, pc[c] \in ChatPC
  PROVE  q_ # Null
<1>1. CASE \E s \in Requests : pc[s] \in RestartPC
  BY <1>1 DEF BaseInv, ExclusiveInv, Changing, RestartedSoFar
<1>2. CASE \A s \in Requests : pc[s] \notin RestartPC
  <2>1. \A s \in Requests : pc[s] \notin LoadPC \cup UnloadPC
    BY Aside, ChatsInProgress, PCFacts
  <2> QED
    BY <1>2, <2>1 DEF BaseInv, ExclusiveInv, Settled, ChangePC, Sound
<1> QED
  BY <1>1, <1>2
-----------------------------------------------------------------------------
(***************************************************************************)
(* The three kinds of step that keep the invariant.                        *)
(***************************************************************************)
Tokens == {"generating", "loop", "token"}

(* A chat moves on, outside of a restart, and changes nothing that others  *)
(* see.                                                                    *)
LEMMA ChatMoves ==
  ASSUME BaseInv, ExclusiveInv, NEW r \in Requests, NEW to, Goto(r, to),
         UNCHANGED <<op, eng, built, q_, stoppedBy, crashed>>,
         pc[r] \in ChatPC \ RestartPC,
         to \in ((ChatPC \ RestartPC) \ FailPC) \cup EndPC,
         \A s \in Requests \ {r} : gen'[s] = gen[s],
         to \in Tokens => gen'[r] = eng.oga_model
  PROVE  ExclusiveInv'
<1>1. pc'[r] = to /\ \A s \in Requests \ {r} : pc'[s] = pc[s]
  BY DEF Goto, BaseInv, TypeOK
<1>2. pc[r] \notin ChangePC /\ to \notin ChangePC \cup FailPC
  BY DEF ChangePC, RestartPC, RecreatePC, FailPC, EndPC, ChatPC, TaskPC, StreamPC,
         FullPC, LoadPC, UnloadPC
<1>3. InProgress(r) /\ \A s \in Requests \ {r} : InProgress(s)' <=> InProgress(s)
  BY <1>1, ChatsInProgress DEF InProgress
<1>5. NothingFails'
  BY <1>1, <1>2 DEF BaseInv, ExclusiveInv, NothingFails
<1>6. Changing'
  BY <1>1, <1>2 DEF BaseInv, ExclusiveInv, Changing, ChangePC, LoadedSoFar, RestartedSoFar
<1>7. Settled'
  <2>1. Sound' <=> Sound
    BY DEF Sound
  <2>2. (\A s \in Requests : pc'[s] \notin ChangePC) => \A s \in Requests : pc[s] \notin ChangePC
    BY <1>1, <1>2
  <2> QED
    BY <2>1, <2>2 DEF BaseInv, ExclusiveInv, Settled
<1>8. OwnModel'
  BY <1>1 DEF BaseInv, ExclusiveInv, OwnModel, Tokens
<1> QED
  BY <1>5, <1>6, <1>7, <1>8 DEF ExclusiveInv

(* A load or an unload moves on.                                           *)
LEMMA AdminMoves ==
  ASSUME BaseInv, ExclusiveInv, NEW r \in Requests, NEW to, Goto(r, to),
         UNCHANGED <<op, gen, stoppedBy, crashed>>,
         pc[r] \in LoadPC \cup UnloadPC,
         \/ to \in LoadPC \ FailPC /\ LoadedSoFar(r)'
         \/ to \in UnloadPC
         \/ to = "returned" /\ (Sound' \/ ~eng.model_loaded')
  PROVE  ExclusiveInv'
<1>1. pc'[r] = to /\ \A s \in Requests \ {r} : pc'[s] = pc[s]
  BY DEF Goto, BaseInv, TypeOK
<1>2. \A s \in Requests \ {r} : ~InProgress(s) /\ ~InProgress(s)'
  BY <1>1, Aside DEF InProgress
<1>3. \A s \in Requests \ {r} : pc'[s] \notin ChangePC \cup ChatPC
  BY <1>2 DEF InProgress, ChangePC, RestartPC, RecreatePC, ChatPC, TaskPC, StreamPC,
              FullPC, LoadPC, UnloadPC, EndPC
<1>4. to \notin RestartPC \cup ChatPC \cup FailPC
  BY DEF RestartPC, RecreatePC, ChatPC, TaskPC, StreamPC, FullPC, LoadPC, UnloadPC, FailPC
<1>6. NothingFails'
  BY <1>1, <1>4 DEF BaseInv, ExclusiveInv, NothingFails
<1>7. Changing'
  <2>1. to \in LoadPC => LoadedSoFar(r)'
    BY DEF LoadPC, UnloadPC
  <2> QED
    BY <1>1, <1>3, <1>4, <2>1 DEF Changing, ChangePC
<1>8. Settled'
  BY <1>1, <1>3, <1>4 DEF Settled, ChangePC
<1>9. OwnModel'
  <2>1. \A s \in Requests : pc'[s] \notin Tokens
    BY <1>1, <1>3, <1>4 DEF Tokens, ChatPC, TaskPC, StreamPC, FullPC
  <2> QED
    BY <2>1 DEF OwnModel, Tokens
<1> QED
  BY <1>6, <1>7, <1>8, <1>9 DEF ExclusiveInv

(* A task begins, continues or ends a restart.                             *)
LEMMA RestartMoves ==
  ASSUME BaseInv, ExclusiveInv, NEW c \in Requests, NEW to, Goto(c, to),
         UNCHANGED <<op, gen, stoppedBy, crashed>>,
         pc[c] \in TaskPC,
         \/ to \in RestartPC /\ RestartedSoFar(c)'
         \/ to = "finish" /\ Sound'
  PROVE  ExclusiveInv'
<1>1. pc'[c] = to /\ \A s \in Requests \ {c} : pc'[s] = pc[s]
  BY DEF Goto, BaseInv, TypeOK
<1>2. InProgress(c) /\ \A s \in Requests \ {c} : InProgress(s)' <=> InProgress(s)
  BY <1>1, ChatsInProgress, PCFacts DEF InProgress
<1>3. \A s \in Requests \ {c} : pc[s] \notin LoadPC \cup UnloadPC \cup TaskPC
  BY <1>2, Aside, OneTask
<1>4. to \in TaskPC /\ to \notin FailPC \cup Tokens
  BY DEF RestartPC, RecreatePC, TaskPC, StreamPC, FailPC, Tokens
<1>6. NothingFails'
  BY <1>1, <1>4 DEF BaseInv, ExclusiveInv, NothingFails
<1>7. \A s \in Requests \ {c} : pc'[s] \notin ChangePC
  BY <1>1, <1>3, PCFacts DEF ChangePC
<1>8. to \notin LoadPC \cup UnloadPC
  BY <1>4, PCFacts
<1>9. Changing'
  <2>1. to \in RestartPC => RestartedSoFar(c)'
    BY DEF RestartPC, RecreatePC
  <2> QED
    BY <1>1, <1>7, <1>8, <2>1 DEF Changing, ChangePC
<1>10. Settled'
  BY <1>1, <1>7 DEF Settled, ChangePC
<1>11. OwnModel'
  <2>1. \A s \in Requests : pc'[s] \notin Tokens
    BY <1>1, <1>3, <1>4 DEF Tokens, TaskPC, StreamPC, FullPC
  <2> QED
    BY <2>1 DEF OwnModel, Tokens
<1> QED
  BY <1>6, <1>9, <1>10, <1>11 DEF ExclusiveInv
-----------------------------------------------------------------------------
(***************************************************************************)
(* The steps.                                                              *)
(***************************************************************************)
LEMMA ExclusiveInit == Careful /\ Init => ExclusiveInv
<1> SUFFICES ASSUME Careful, Init PROVE ExclusiveInv
  OBVIOUS
<1>1. \A r \in Requests : pc[r] = "idle" /\ ~InProgress(r) /\ stoppedBy[r] = Null
  BY DEF Init, InProgress
<1>2. ~crashed /\ eng.model_loaded = FALSE
  <2>1. PICK f \in InitialFlags :
          eng = [oga_model |-> Null, tokenizer |-> Null, tokenizer_stream |-> Null,
                 model_loaded |-> f, path |-> Null, model_id |-> Null,
                 max_history_chat |-> 0]
    BY DEF Init
  <2> QED
    BY <2>1 DEF Init, Careful
<1>3. "idle" \notin LoadPC \cup RestartPC \cup FailPC \cup ChatPC \cup Tokens
  BY DEF LoadPC, RestartPC, RecreatePC, FailPC, ChatPC, TaskPC, StreamPC, FullPC, Tokens
<1> QED
  BY <1>1, <1>2, <1>3
  DEF ExclusiveInv, NothingFails, Changing, Settled, OwnModel, Tokens

(* A call begins while no load or unload is in progress, and a load or an  *)
(* unload while nothing is.                                                *)
LEMMA CallExclusive ==
  ASSUME Careful, BaseInv, ExclusiveInv, NEW r \in Requests, Call(r)
  PROVE  ExclusiveInv'
<1> SUFFICES ASSUME NEW o \in OpKinds, NEW to,
                    Begin(r, o), Goto(r, to),
                    UNCHANGED <<gen, built, queueVars, crashed>>,
                    \/ to \in EndPC /\ UNCHANGED eng
                    \/ to = "unload_model" /\ o = "unload" /\ UNCHANGED eng
                    \/ to = "chat_enqueue" /\ o \in Chats /\ eng.model_loaded /\ UNCHANGED eng
                    \/ to = "load_create" /\ o = "load"
             PROVE  ExclusiveInv'
  <2> USE DEF Careful, EndPC
  <2>1. ASSUME NEW o \in OpKinds, Begin(r, o) PROVE ~ModelIdInUse
    <3>1. \A s \in Requests : pc[s] = "load_reply" => InProgress(s) /\ op[s] \in Admin
      BY DEF InProgress, EndPC, LoadPC, BaseInv, CallInv, CallOK, Admin
    <3> QED
      BY <2>1, <3>1 DEF Begin, ModelIdInUse
  <2>2. ASSUME Begin(r, "load") PROVE ArgumentsInUse = FALSE
    <3>1. \A s \in Requests :
            pc[s] \in {"load_create", "chat_enqueue", "restart_path"} => InProgress(s)
      BY DEF InProgress
    <3> QED
      BY <2>2, <3>1 DEF Begin, ArgumentsInUse, Admin
  <2>3. crashed = FALSE
    BY DEF BaseInv, TypeOK, ExclusiveInv, NothingFails
  <2>4. CASE \E p \in Paths, h \in Histories : LoadModel(r, p, h)
    <3>1. crashed' = crashed
      BY <2>2, <2>3, <2>4 DEF LoadModel
    <3> QED
      BY <2>4, <3>1 DEF LoadModel, OpKinds, Admin
  <2>5. CASE \E p \in Paths : LoadThrows(r, p)
    BY <2>5 DEF LoadThrows
  <2>6. CASE UnloadModel(r)
    BY <2>6 DEF UnloadModel, CheckModelLoaded, OpKinds, Admin
  <2>7. CASE GetModels(r)
    <3>1. Begin(r, "models") /\ "models" \in OpKinds
      BY <2>7 DEF GetModels, OpKinds
    <3>2. crashed' = crashed
      BY <2>1, <2>3, <2>7, <3>1 DEF GetModels
    <3> QED
      BY <2>7, <3>1, <3>2 DEF GetModels
  <2>8. CASE GetModelStatus(r) \/ HandleEmbedding(r)
    BY <2>8 DEF GetModelStatus, HandleEmbedding, OpKinds
  <2>9. CASE \E o \in Chats : HandleChatCompletion(r, o)
    BY <2>9 DEF HandleChatCompletion, CheckModelLoaded, OpKinds
  <2> QED
    BY <2>4, <2>5, <2>6, <2>7, <2>8, <2>9 DEF Call
<1>1. /\ pc[r] = "idle" /\ pc'[r] = to /\ op'[r] = o
      /\ \A s \in Requests \ {r} : pc'[s] = pc[s] /\ op'[s] = op[s]
  BY DEF Begin, Goto, BaseInv, TypeOK
<1>2. /\ ~InProgress(r)
      /\ \A s \in Requests \ {r} : InProgress(s)' <=> InProgress(s)
      /\ \A s \in Requests : InProgress(s) => o \notin Admin /\ op[s] \notin Admin
  BY <1>1 DEF InProgress, Begin, Careful
<1>4. NothingFails'
  BY <1>1 DEF BaseInv, ExclusiveInv, NothingFails, queueVars, FailPC, EndPC
<1>5. CASE o \in Admin
  <2>1. \A s \in Requests \ {r} : pc'[s] \notin ChangePC \cup ChatPC
    BY <1>2, <1>5 DEF InProgress, EndPC, ChangePC, RestartPC, RecreatePC, ChatPC, TaskPC,
                      StreamPC, FullPC, LoadPC, UnloadPC
  <2>2. to \in EndPC \cup {"unload_model", "load_create"}
    BY <1>5 DEF Admin, Chats
  <2>3. /\ to \notin ChatPC \cup RestartPC
        /\ to \in LoadPC <=> to = "load_create"
        /\ to \in ChangePC \/ to \in EndPC
    BY <2>2 DEF EndPC, ChangePC, RestartPC, RecreatePC, ChatPC, TaskPC, StreamPC, FullPC,
                LoadPC, UnloadPC
  <2>4. Changing'
    BY <1>1, <2>1, <2>3 DEF Changing, ChangePC, LoadedSoFar
  <2>5. Settled'
    <3>1. CASE to \in ChangePC
      BY <1>1, <3>1 DEF Settled
    <3>2. CASE to \in EndPC
      <4>1. UNCHANGED eng
        BY <3>2 DEF EndPC
      <4>2. Sound' <=> Sound
        BY <4>1 DEF Sound, queueVars
      <4>3. \A s \in Requests : pc[s] \notin ChangePC
        BY <1>1, <2>1 DEF ChangePC, LoadPC, UnloadPC, RestartPC, RecreatePC
      <4> QED
        BY <1>1, <2>1, <2>3, <4>1, <4>2, <4>3 DEF BaseInv, ExclusiveInv, Settled
    <3> QED
      BY <2>3, <3>1, <3>2
  <2>6. OwnModel'
    <3>1. \A s \in Requests : pc'[s] \notin Tokens
      BY <1>1, <2>1, <2>3 DEF Tokens, ChatPC, TaskPC, StreamPC, FullPC
    <3> QED
      BY <3>1 DEF OwnModel, Tokens
  <2> QED
    BY <1>4, <2>4, <2>5, <2>6 DEF ExclusiveInv
<1>6. CASE o \notin Admin
  <2>1. UNCHANGED eng /\ (to \in EndPC \/ (to = "chat_enqueue" /\ eng.model_loaded))
    BY <1>6 DEF Admin
  <2>2. to \notin ChangePC \cup Tokens /\ (to \in ChatPC => eng.model_loaded)
    BY <2>1 DEF EndPC, ChangePC, RestartPC, RecreatePC, ChatPC, TaskPC, StreamPC, FullPC,
                LoadPC, UnloadPC, Tokens
  <2>3. Changing'
    BY <1>1, <2>1, <2>2
    DEF BaseInv, ExclusiveInv, Changing, ChangePC, LoadedSoFar, RestartedSoFar, queueVars
  <2>4. Settled'
    <3>1. Sound' <=> Sound
      BY <2>1 DEF Sound, queueVars
    <3>2. (\A s \in Requests : pc'[s] \notin ChangePC) => \A s \in Requests : pc[s] \notin ChangePC
      BY <1>1 DEF ChangePC, LoadPC, UnloadPC, RestartPC, RecreatePC
    <3> QED
      BY <1>1, <2>1, <2>2, <3>1, <3>2 DEF BaseInv, ExclusiveInv, Settled
  <2>5. OwnModel'
    BY <1>1, <2>1, <2>2 DEF BaseInv, ExclusiveInv, OwnModel, Tokens
  <2> QED
    BY <1>4, <2>3, <2>4, <2>5 DEF ExclusiveInv
<1> QED
  BY <1>5, <1>6

LEMMA HandlerExclusive ==
  ASSUME Careful, BaseInv, ExclusiveInv, NEW r \in Requests, HandlerStep(r)
  PROVE  ExclusiveInv'
<1> DEFINE Same == UNCHANGED <<op, gen, stoppedBy, crashed>>
<1>1. ASSUME NEW to \in (LoadPC \ FailPC) \cup UnloadPC, Goto(r, to), Same,
             pc[r] \in LoadPC \cup UnloadPC, to \in LoadPC => LoadedSoFar(r)'
      PROVE  ExclusiveInv'
  BY <1>1, AdminMoves DEF LoadPC, UnloadPC
<1>2. ASSUME Goto(r, "returned"), Same, pc[r] \in LoadPC \cup UnloadPC,
             Sound' \/ ~eng.model_loaded'
      PROVE  ExclusiveInv'
  BY <1>2, AdminMoves
<1>3. DOMAIN eng = {"oga_model", "tokenizer", "tokenizer_stream", "model_loaded", "path",
                    "model_id", "max_history_chat"}
  BY DEF BaseInv, TypeOK, Engines
<1>4. \A to : Goto(r, to) => pc'[r] = to
  BY DEF Goto, BaseInv, TypeOK
<1>5. pc[r] \in LoadPC => LoadedSoFar(r)
  BY DEF BaseInv, ExclusiveInv, Changing
<1>6. CASE LoadCreate(r)
  <2>1. /\ pc[r] = "load_create" /\ Goto(r, "load_model") /\ Same
        /\ built'[r] = eng.path /\ eng' = eng
    BY <1>6 DEF LoadCreate, BuildFrom, Step, queueVars, BaseInv, TypeOK
  <2>2. LoadedSoFar(r)'
    BY <1>4, <2>1 DEF LoadedSoFar
  <2> QED
    BY <1>1, <2>1, <2>2 DEF LoadPC, FailPC
<1>7. CASE LoadObjects(r)
  <2>1. CASE Assign(r, "load_model", "oga_model", r, "load_tokenizer")
    <3>1. /\ pc[r] = "load_model" /\ Goto(r, "load_tokenizer") /\ Same /\ built' = built
          /\ Set("oga_model", r)
      BY <2>1 DEF Assign, Step, queueVars
    <3>2. eng'.oga_model = r /\ eng'.path = eng.path
      BY <1>3, <3>1, Assigned
    <3>3. LoadedSoFar(r)'
      BY <1>4, <1>5, <3>1, <3>2 DEF LoadedSoFar, LoadPC
    <3> QED
      BY <1>1, <3>1, <3>3 DEF LoadPC, FailPC
  <2>2. CASE Assign(r, "load_tokenizer", "tokenizer", eng.oga_model, "load_stream")
    <3>1. /\ pc[r] = "load_tokenizer" /\ Goto(r, "load_stream") /\ Same /\ built' = built
          /\ Set("tokenizer", eng.oga_model)
      BY <2>2 DEF Assign, Step, queueVars
    <3>2. /\ eng'.tokenizer = eng.oga_model
          /\ eng'.oga_model = eng.oga_model /\ eng'.path = eng.path
      BY <1>3, <3>1, Assigned
    <3>3. LoadedSoFar(r)'
      BY <1>4, <1>5, <3>1, <3>2 DEF LoadedSoFar, LoadPC
    <3> QED
      BY <1>1, <3>1, <3>3 DEF LoadPC, FailPC
  <2> QED
    BY <1>7, <2>1, <2>2 DEF LoadObjects
<1>8. CASE LoadStream(r)
  <2>1. /\ pc[r] = "load_stream" /\ Goto(r, "load_reply") /\ Same /\ built' = built
        /\ Set("tokenizer_stream", eng.tokenizer)
    BY <1>8 DEF LoadStream, Assign, Step, queueVars
  <2>2. /\ eng'.tokenizer_stream = eng.tokenizer /\ eng'.tokenizer = eng.tokenizer
        /\ eng'.oga_model = eng.oga_model /\ eng'.path = eng.path
    BY <1>3, <2>1, Assigned
  <2>3. LoadedSoFar(r)'
    BY <1>4, <1>5, <2>1, <2>2 DEF LoadedSoFar, LoadPC
  <2> QED
    BY <1>1, <2>1, <2>3 DEF LoadPC, FailPC
<1>9. CASE LoadReply(r)
  <2>1. /\ pc[r] = "load_reply" /\ Goto(r, "load_flag") /\ Same /\ built' = built
        /\ Set("model_id", r)
    BY <1>9 DEF LoadReply, queueVars, Careful
  <2>2. /\ eng'.model_id = r /\ eng'.tokenizer_stream = eng.tokenizer_stream
        /\ eng'.tokenizer = eng.tokenizer
        /\ eng'.oga_model = eng.oga_model /\ eng'.path = eng.path
    BY <1>3, <2>1, Assigned
  <2>3. LoadedSoFar(r)'
    BY <1>4, <1>5, <2>1, <2>2 DEF LoadedSoFar, LoadPC
  <2> QED
    BY <1>1, <2>1, <2>3 DEF LoadPC, FailPC
<1>10. CASE LoadFlag(r)
  <2>1. /\ pc[r] = "load_flag" /\ Goto(r, "load_queue") /\ Same /\ built' = built
        /\ Set("model_loaded", TRUE)
    BY <1>10, Zenon DEF LoadFlag, Assign, Step, queueVars
  <2>2. /\ eng'.model_loaded = TRUE
        /\ eng'.model_id = eng.model_id /\ eng'.tokenizer_stream = eng.tokenizer_stream
        /\ eng'.tokenizer = eng.tokenizer
        /\ eng'.oga_model = eng.oga_model /\ eng'.path = eng.path
    BY <1>3, <2>1, Assigned
  <2>3. LoadedSoFar(r)'
    BY <1>4, <1>5, <2>1, <2>2 DEF LoadedSoFar, LoadPC
  <2> QED
    BY <1>1, <2>1, <2>3 DEF LoadPC, FailPC
<1>11. CASE LoadQueue(r)
  <2>1. /\ pc[r] = "load_queue" /\ Same /\ UNCHANGED <<built, eng, q_>>
        /\ \/ q_ # Null /\ Goto(r, "returned")
           \/ q_ = Null /\ Goto(r, "load_spawn")
    BY <1>11 DEF LoadQueue, Move, Step, queueVars
  <2>2. CASE q_ # Null
    <3>1. Sound'
      BY <1>5, <2>1, <2>2, NullAssumption DEF LoadedSoFar, LoadPC, Sound
    <3> QED
      BY <1>2, <2>1, <2>2, <3>1 DEF LoadPC
  <2>3. CASE q_ = Null
    <3>1. LoadedSoFar(r)'
      BY <1>4, <1>5, <2>1, <2>3 DEF LoadedSoFar, LoadPC
    <3> QED
      BY <1>1, <2>1, <2>3, <3>1 DEF LoadPC, FailPC
  <2> QED
    BY <2>2, <2>3
<1>12. CASE LoadSpawn(r)
  <2>1. pc[r] = "load_spawn" /\ q_ = Null
    BY <1>5, <1>12 DEF LoadSpawn, Step, LoadedSoFar, LoadPC
  <2>2. Goto(r, "returned") /\ Same /\ UNCHANGED <<built, eng>> /\ q_' = r
    BY <1>12, <2>1 DEF LoadSpawn, Step
  <2>3. Sound'
    BY <1>5, <2>1, <2>2, NullAssumption DEF LoadedSoFar, LoadPC, Sound
  <2> QED
    BY <1>2, <2>1, <2>2, <2>3 DEF LoadPC
<1>13. CASE LoadJoin(r) \/ LoadFails(r) \/ LoadCatch(r)
  BY <1>13
  DEF LoadJoin, LoadFails, LoadCatch, Assign, Step, Careful, BaseInv, ExclusiveInv,
      NothingFails, FailPC
<1>14. CASE UnloadObjects(r)
  <2>1. /\ \E to \in UnloadPC : Goto(r, to)
        /\ Same /\ pc[r] \in UnloadPC
    BY <1>14 DEF UnloadObjects, Assign, Step, queueVars, UnloadPC
  <2>2. UnloadPC \cap LoadPC = {}
    BY DEF UnloadPC, LoadPC
  <2> QED
    BY <1>1, <2>1, <2>2
<1>15. CASE UnloadFlag(r)
  <2>1. /\ pc[r] = "unload_flag" /\ Goto(r, "returned") /\ Same
        /\ Set("model_loaded", FALSE)
    BY <1>15, Zenon DEF UnloadFlag, Step, queueVars
  <2>2. eng'.model_loaded = FALSE
    BY <1>3, <2>1, Assigned
  <2> QED
    BY <1>2, <2>1, <2>2 DEF UnloadPC
<1>16. CASE ChatEnqueue(r)
  <2>1. /\ pc[r] = "chat_enqueue" /\ \E to \in {"queued", "threw"} : Goto(r, to)
        /\ UNCHANGED <<op, eng, built, q_, stoppedBy, crashed, gen>>
    BY <1>16 DEF ChatEnqueue, Enqueue, Move, Step, queueVars
  <2> QED
    BY <2>1, ChatMoves
    DEF ChatPC, TaskPC, StreamPC, FullPC, RestartPC, RecreatePC, FailPC, EndPC, Tokens
<1> QED
  BY <1>6, <1>7, <1>8, <1>9, <1>10, <1>11, <1>12, <1>13, <1>14, <1>15, <1>16 DEF HandlerStep

LEMMA TaskExclusive ==
  ASSUME Careful, BaseInv, ExclusiveInv, NEW c \in Requests, TaskStep(c)
  PROVE  ExclusiveInv'
<1> DEFINE Same == UNCHANGED <<op, stoppedBy, crashed>>
<1>1. ASSUME NEW to, Goto(c, to), Same, UNCHANGED <<eng, built, q_>>,
             pc[c] \in TaskPC \ RestartPC,
             to \in ((TaskPC \ RestartPC) \ FailPC) \cup EndPC,
             \A s \in Requests \ {c} : gen'[s] = gen[s],
             to \in Tokens => gen'[c] = eng.oga_model
      PROVE  ExclusiveInv'
  BY <1>1, ChatMoves, PCFacts
<1>2. ASSUME NEW to \in RestartPC, Goto(c, to), Same, gen' = gen, pc[c] \in TaskPC,
             RestartedSoFar(c)'
      PROVE  ExclusiveInv'
  BY <1>2, RestartMoves
<1>3. DOMAIN eng = {"oga_model", "tokenizer", "tokenizer_stream", "model_loaded", "path",
                    "model_id", "max_history_chat"}
  BY DEF BaseInv, TypeOK, Engines
<1>4. \A to : Goto(c, to) => pc'[c] = to
  BY DEF Goto, BaseInv, TypeOK
<1>5. pc[c] \in RestartPC => RestartedSoFar(c)
  BY DEF BaseInv, ExclusiveInv, Changing
<1>6. pc[c] \in TaskPC \ RestartPC => Sound
  BY TaskIsSound
<1>7. pc[c] \in Tokens => gen[c] = eng.oga_model
  BY DEF BaseInv, ExclusiveInv, OwnModel, Tokens
<1>8. CASE Encode(c) \/ CreateParams(c) \/ Generated(c)
  <2>1. /\ pc[c] \in {"encode", "params", "generating"}
        /\ \E to \in {"params", "generator", "generate", "decode"} : Goto(c, to)
        /\ Same /\ UNCHANGED <<eng, built, q_, gen>>
    BY <1>8 DEF Encode, CreateParams, Generated, Move, Step, queueVars
  <2> QED
    BY <1>1, <2>1 DEF TaskPC, StreamPC, FullPC, RestartPC, RecreatePC, FailPC, Tokens
<1>9. CASE UseModel(c)
  <2>1. /\ pc[c] \in {"generator", "generate"}
        /\ \E to \in {"loop", "generating"} : Goto(c, to)
        /\ Same /\ UNCHANGED <<eng, built, q_>>
        /\ gen'[c] = eng.oga_model /\ \A s \in Requests \ {c} : gen'[s] = gen[s]
    BY <1>9 DEF UseModel, Step, queueVars, BaseInv, TypeOK
  <2> QED
    BY <1>1, <2>1 DEF TaskPC, StreamPC, FullPC, RestartPC, RecreatePC, FailPC, Tokens
<1>10. CASE LoopTest(c) \/ Token(c)
  <2>1. /\ pc[c] \in {"loop", "token"}
        /\ \E to \in {"token", "after", "loop"} : Goto(c, to)
        /\ Same /\ UNCHANGED <<eng, built, q_, gen>>
    BY <1>10 DEF LoopTest, Token, Move, Step, queueVars
  <2> QED
    BY <1>1, <1>7, <2>1 DEF TaskPC, StreamPC, FullPC, RestartPC, RecreatePC, FailPC, Tokens
<1>11. CASE DecodeAll(c) \/ AfterUnload(c) \/ Finish(c)
  <2>1. /\ pc[c] \in {"decode", "after", "finish"} /\ Goto(c, "returned")
        /\ Same /\ UNCHANGED <<eng, built, q_, gen>>
    BY <1>11 DEF DecodeAll, AfterUnload, Finish, EndTask, LeaveThread
  <2> QED
    BY <1>1, <2>1 DEF TaskPC, StreamPC, FullPC, RestartPC, RecreatePC, EndPC, Tokens
<1>12. CASE MeasureRate(c)
  <2>1. /\ pc[c] = "after" /\ (Goto(c, "finish") \/ Goto(c, "restart_stream"))
        /\ Same /\ UNCHANGED <<eng, built, q_, gen>>
    BY <1>12 DEF MeasureRate, Move, Step, queueVars
  <2>2. pc[c] \in TaskPC \ RestartPC
    BY <2>1 DEF TaskPC, StreamPC, RestartPC, RecreatePC
  <2>3. CASE Goto(c, "finish")
    BY <1>1, <2>1, <2>2, <2>3
    DEF TaskPC, StreamPC, RestartPC, RecreatePC, FailPC, Tokens
  <2>4. CASE Goto(c, "restart_stream")
    <3>1. RestartedSoFar(c)'
      BY <1>4, <1>6, <2>1, <2>2, <2>4 DEF Sound, RestartedSoFar, RecreatePC
    <3> QED
      BY <1>2, <2>1, <2>2, <2>4, <3>1 DEF RestartPC
  <2> QED
    BY <2>1, <2>3, <2>4
<1>13. CASE RestartDrops(c)
  <2>1. ASSUME NEW to \in RestartPC \ RecreatePC, Goto(c, to), Same, UNCHANGED <<built, q_, gen>>,
               pc[c] \in RestartPC, eng'.path = eng.path, eng'.model_id = eng.model_id
        PROVE  ExclusiveInv'
    <3>1. RestartedSoFar(c)'
      BY <1>4, <1>5, <2>1 DEF RestartedSoFar, RecreatePC
    <3> QED
      BY <1>2, <2>1, <3>1, PCFacts
  <2>2. CASE Step(c, "restart_stream", "restart_tokenizer")
    <3>1. /\ Same /\ UNCHANGED <<built, q_, gen>>
          /\ eng' = [eng EXCEPT
                       !.max_history_chat = IF @ \div 2 > 1 THEN @ \div 2 ELSE 1,
                       !.tokenizer_stream = Null]
      BY <1>13, <2>2 DEF RestartDrops, Assign, Step, queueVars
    <3>2. eng'.path = eng.path /\ eng'.model_id = eng.model_id
      BY <3>1
    <3> QED
      BY <2>1, <2>2, <3>1, <3>2 DEF Step, RestartPC, RecreatePC
  <2>3. ASSUME NEW m \in {"tokenizer", "oga_model"}, NEW from \in RestartPC,
               NEW to \in RestartPC \ RecreatePC, Assign(c, from, m, Null, to)
        PROVE  ExclusiveInv'
    <3>1. /\ Same /\ UNCHANGED <<built, q_, gen>> /\ Goto(c, to) /\ pc[c] = from
          /\ Set(m, Null)
      BY <2>3 DEF Assign, Step, queueVars
    <3>2. eng'.path = eng.path /\ eng'.model_id = eng.model_id
      BY <1>3, <3>1, Assigned
    <3> QED
      BY <2>1, <3>1, <3>2
  <2> QED
    BY <1>13, <2>2, <2>3 DEF RestartDrops, RestartPC, RecreatePC
<1>14. CASE RestartFlag(c)
  <2>1. /\ pc[c] = "restart_flag" /\ Goto(c, "restart_path")
        /\ Same /\ UNCHANGED <<built, q_, gen>> /\ Set("model_loaded", FALSE)
    BY <1>14 DEF RestartFlag, Assign, Step, queueVars
  <2>2. eng'.path = eng.path /\ eng'.model_id = eng.model_id
    BY <1>3, <2>1, Assigned
  <2>3. RestartedSoFar(c)'
    BY <1>4, <1>5, <2>1, <2>2 DEF RestartedSoFar, RestartPC, RecreatePC
  <2> QED
    BY <1>2, <2>1, <2>3, PCFacts DEF RestartPC, RecreatePC
<1>15. CASE RestartPath(c)
  <2>1. /\ pc[c] = "restart_path" /\ Goto(c, "recreate_model")
        /\ Same /\ UNCHANGED <<eng, q_, gen>>
        /\ built' = [built EXCEPT ![c] = eng.path]
    BY <1>15 DEF RestartPath, Step, queueVars
  <2>2. eng'.path = eng.path /\ eng'.model_id = eng.model_id
    BY <2>1
  <2>3. built'[c] = eng.path /\ \A s \in Requests \ {c} : built'[s] = built[s]
    BY <2>1 DEF BaseInv, TypeOK
  <2>4. RestartedSoFar(c)'
    BY <1>4, <1>5, <2>1, <2>2, <2>3 DEF RestartedSoFar, RestartPC, RecreatePC
  <2> QED
    BY <1>2, <2>1, <2>4, PCFacts DEF RestartPC, RecreatePC
<1>16. CASE Recreate(c)
  <2>1. ASSUME NEW m \in {"oga_model", "tokenizer", "tokenizer_stream"}, NEW v,
               NEW from \in RecreatePC, NEW to \in RecreatePC, Assign(c, from, m, v, to)
        PROVE  /\ Same /\ UNCHANGED <<built, q_, gen>> /\ Goto(c, to) /\ pc[c] = from
               /\ eng'[m] = v /\ \A n \in DOMAIN eng \ {m} : eng'[n] = eng[n]
               /\ pc[c] \in RestartPC
    BY <1>3, <2>1, Assigned DEF Assign, Step, queueVars, RestartPC
  <2>2. CASE Assign(c, "recreate_model", "oga_model", c, "recreate_tokenizer")
    <3>1. /\ Same /\ UNCHANGED <<built, q_, gen>> /\ Goto(c, "recreate_tokenizer")
          /\ pc[c] = "recreate_model" /\ pc[c] \in RestartPC
          /\ eng'.oga_model = c /\ eng'.path = eng.path /\ eng'.model_id = eng.model_id
      BY <1>3, <2>1, <2>2 DEF RecreatePC
    <3>2. RestartedSoFar(c)'
      BY <1>4, <1>5, <3>1 DEF RestartedSoFar, RecreatePC
    <3> QED
      BY <1>2, <3>1, <3>2, PCFacts DEF RestartPC, RecreatePC
  <2>3. CASE Assign(c, "recreate_tokenizer", "tokenizer", eng.oga_model, "recreate_stream")
    <3>1. /\ Same /\ UNCHANGED <<built, q_, gen>> /\ Goto(c, "recreate_stream")
          /\ pc[c] = "recreate_tokenizer" /\ pc[c] \in RestartPC
          /\ eng'.tokenizer = eng.oga_model /\ eng'.oga_model = eng.oga_model
          /\ eng'.path = eng.path /\ eng'.model_id = eng.model_id
      BY <1>3, <2>1, <2>3 DEF RecreatePC
    <3>2. RestartedSoFar(c)'
      BY <1>4, <1>5, <3>1 DEF RestartedSoFar, RecreatePC
    <3> QED
      BY <1>2, <3>1, <3>2, PCFacts DEF RestartPC, RecreatePC
  <2>4. CASE Assign(c, "recreate_stream", "tokenizer_stream", eng.tokenizer, "recreate_flag")
    <3>1. /\ Same /\ UNCHANGED <<built, q_, gen>> /\ Goto(c, "recreate_flag")
          /\ pc[c] = "recreate_stream" /\ pc[c] \in RestartPC
          /\ eng'.tokenizer_stream = eng.tokenizer /\ eng'.tokenizer = eng.tokenizer
          /\ eng'.oga_model = eng.oga_model
          /\ eng'.path = eng.path /\ eng'.model_id = eng.model_id
      BY <1>3, <2>1, <2>4 DEF RecreatePC
    <3>2. RestartedSoFar(c)'
      BY <1>4, <1>5, <3>1 DEF RestartedSoFar, RecreatePC
    <3> QED
      BY <1>2, <3>1, <3>2, PCFacts DEF RestartPC, RecreatePC
  <2> QED
    BY <1>16, <2>2, <2>3, <2>4 DEF Recreate
<1>17. CASE RecreateFlag(c)
  <2>1. /\ pc[c] = "recreate_flag" /\ Goto(c, "finish") /\ Same /\ UNCHANGED <<built, gen>>
        /\ Set("model_loaded", TRUE)
    BY <1>17, Zenon DEF RecreateFlag, Step
  <2>2. pc[c] \in RestartPC /\ RestartedSoFar(c)
    BY <1>5, <2>1 DEF RestartPC, RecreatePC
  <2>3. q_' = q_
    BY <1>17, <2>2 DEF RecreateFlag, RestartedSoFar
  <2>4. /\ eng'.model_loaded = TRUE
        /\ eng'.model_id = eng.model_id /\ eng'.tokenizer_stream = eng.tokenizer_stream
        /\ eng'.tokenizer = eng.tokenizer
        /\ eng'.oga_model = eng.oga_model /\ eng'.path = eng.path
    BY <1>3, <2>1, Assigned
  <2>5. Sound'
    BY <2>1, <2>2, <2>3, <2>4, NullAssumption DEF RestartedSoFar, Sound, RecreatePC
  <2> QED
    BY <2>1, <2>2, <2>5, RestartMoves, PCFacts
<1>18. CASE TaskFails(c) \/ CatchDrops(c) \/ CatchReply(c)
  BY <1>18
  DEF TaskFails, CatchDrops, CatchReply, Assign, Step, Careful, BaseInv, ExclusiveInv,
      NothingFails, FailPC
<1> QED
  BY <1>8, <1>9, <1>10, <1>11, <1>12, <1>13, <1>14, <1>15, <1>16, <1>17,
     <1>18 DEF TaskStep

(* No pointer is null where it is followed, and nobody else is at work     *)
(* where it is assigned.                                                   *)
LEMMA NoCrash ==
  ASSUME BaseInv, ExclusiveInv, NEW r \in Requests
  PROVE  ~Crash(r)
<1> SUFFICES ASSUME InProgress(r) PROVE ~NullPointer(r) /\ ~DataRace(r)
                                        /\ ~(pc[r] = "generating" /\ eng.oga_model # gen[r])
  BY DEF Crash
<1>1. ASSUME NEW m \in DOMAIN Readers, pc[r] \in Readers[m]
      PROVE  eng[m] # Null
  <2>1. CASE pc[r] \in LoadPC
    BY <1>1, <2>1, NullAssumption
    DEF Readers, BaseInv, ExclusiveInv, Changing, LoadedSoFar, LoadPC
  <2>2. CASE pc[r] \in RestartPC
    BY <1>1, <2>2, NullAssumption
    DEF Readers, BaseInv, ExclusiveInv, Changing, RestartedSoFar, RestartPC, RecreatePC
  <2>3. CASE pc[r] \notin LoadPC \cup RestartPC
    <3>1. pc[r] \in TaskPC
      BY <1>1, <2>3 DEF Readers, LoadPC, RestartPC, RecreatePC, TaskPC, StreamPC, FullPC
    <3>2. Sound
      BY <2>3, <3>1, TaskIsSound
    <3> QED
      BY <1>1, <3>2 DEF Readers, Sound
  <2> QED
    BY <2>1, <2>2, <2>3
<1>2. ~NullPointer(r)
  BY <1>1, ChatHasQueue DEF NullPointer, ChatPC
<1>3. ASSUME NEW m \in DOMAIN Writers, pc[r] \in Writers[m],
             NEW s \in Requests \ {r}, pc[s] \in Readers[m] \cup Writers[m]
      PROVE  FALSE
  <2>1. pc[r] \in LoadPC \cup UnloadPC \cup TaskPC
    BY <1>3 DEF Writers, LoadPC, UnloadPC, TaskPC, StreamPC
  <2>2. pc[s] \in LoadPC \cup UnloadPC \cup TaskPC
    BY <1>3 DEF Readers, Writers, LoadPC, UnloadPC, TaskPC, StreamPC, FullPC
  <2>3. InProgress(s)
    BY <2>2 DEF InProgress, EndPC, LoadPC, UnloadPC, TaskPC, StreamPC, FullPC
  <2> QED
    BY <2>1, <2>2, <2>3, Aside, OneTask
<1>4. ASSUME pc[r] = "load_spawn", NEW s \in Requests \ {r},
             pc[s] \in {"chat_enqueue", "load_queue", "load_spawn", "recreate_flag"}
      PROVE  FALSE
  BY <1>4, Aside DEF InProgress, LoadPC, EndPC
<1>5. ~DataRace(r)
  BY <1>3, <1>4, Zenon DEF DataRace, Others
<1> QED
  BY <1>2, <1>5 DEF BaseInv, ExclusiveInv, OwnModel

LEMMA ExclusiveNext == Careful /\ BaseInv /\ ExclusiveInv /\ [Next]_vars => ExclusiveInv'
<1> SUFFICES ASSUME Careful, BaseInv, ExclusiveInv, [Next]_vars PROVE ExclusiveInv'
  OBVIOUS
<1>1. ASSUME NEW k \in Requests, RunNext(k) PROVE ExclusiveInv'
  <2>1. PICK c \in Requests : pc[c] = "queued" /\ Goto(c, "encode")
    BY <1>1 DEF RunNext, Take, Step, BaseInv, TypeOK
  <2>2. UNCHANGED <<op, eng, built, q_, stoppedBy, crashed, gen>>
    BY <1>1 DEF RunNext, Take
  <2> QED
    BY <2>1, <2>2, ChatMoves
    DEF ChatPC, TaskPC, StreamPC, FullPC, RestartPC, RecreatePC, FailPC, Tokens
<1>2. ASSUME UNCHANGED vars PROVE ExclusiveInv'
  BY <1>2
  DEF vars, callVars, queueVars, ExclusiveInv, NothingFails, Changing,
      Settled, OwnModel, InProgress, LoadedSoFar, RestartedSoFar, Sound
<1> QED
  BY <1>1, <1>2, CallExclusive, HandlerExclusive, TaskExclusive, NoCrash, NextCases

LEMMA Invariant == ASSUME Careful PROVE Spec => [](BaseInv /\ ExclusiveInv)
<1>1. Exclusive
  BY DEF Careful
<1>2. Init => ExclusiveInv
  BY ExclusiveInit
<1>3. BaseInv /\ ExclusiveInv /\ [Next]_vars => ExclusiveInv'
  BY ExclusiveNext
<1>4. Spec => []BaseInv
  BY <1>1, BaseInvariant
<1> QED
  BY <1>2, <1>3, <1>4, PTL DEF Spec
-----------------------------------------------------------------------------
(***************************************************************************)
(* The theorems.                                                           *)
(***************************************************************************)
(* No thread of the engine follows a null pointer, assigns a pointer that  *)
(* another one uses, or destroys a model on which another one generates,   *)
(* restarts included.                                                      *)
THEOREM EngineNeverCrashes == ASSUME Careful PROVE Spec => []NeverCrashes
<1>1. BaseInv /\ ExclusiveInv => NeverCrashes
  BY DEF BaseInv, ExclusiveInv, NothingFails, NeverCrashes
<1> QED
  BY <1>1, Invariant, PTL

LEMMA QuietIsSettled ==
  ASSUME BaseInv, ExclusiveInv, Quiet, eng.model_loaded
  PROVE  Sound
<1>1. \A r \in Requests : pc[r] \in EndPC \cup {"idle"}
  BY DEF Quiet, InProgress
<1>2. \A r \in Requests : pc[r] \notin ChangePC
  BY <1>1 DEF EndPC, ChangePC, LoadPC, UnloadPC, RestartPC, RecreatePC
<1> QED
  BY <1>2 DEF BaseInv, ExclusiveInv, Settled

(* Between calls, an engine that says it is loaded has the three objects,  *)
(* made for each other, and a queue.                                       *)
THEOREM LoadedIsWhole == ASSUME Careful PROVE Spec => []LoadedEngineIsWhole
<1>1. BaseInv /\ ExclusiveInv => LoadedEngineIsWhole
  BY QuietIsSettled DEF LoadedEngineIsWhole, Sound
<1> QED
  BY <1>1, Invariant, PTL

(* Between calls, the model in use is built from the path that was loaded  *)
(* under the name that GetModels lists, also after restarts.               *)
THEOREM ListedModelServes == ASSUME Careful PROVE Spec => []ServesTheListedModel
<1>1. BaseInv /\ ExclusiveInv => ServesTheListedModel
  BY QuietIsSettled DEF ServesTheListedModel, Sound
<1> QED
  BY <1>1, Invariant, PTL

(* Each token of a stream is decoded by a tokenizer stream of the model    *)
(* that has generated it.                                                  *)
THEOREM TokensAreDecoded == ASSUME Careful PROVE Spec => DecodedByItsModel
<1>1. BaseInv /\ ExclusiveInv => [\A c \in Requests :
                 pc[c] = "token" /\ sent'[c] # sent[c] => eng.tokenizer_stream = gen[c]]_vars
  <2> SUFFICES ASSUME BaseInv, ExclusiveInv, NEW c \in Requests, pc[c] = "token"
               PROVE  eng.tokenizer_stream = gen[c]
    OBVIOUS
  <2>1. Sound
    BY TaskIsSound DEF TaskPC, StreamPC, RestartPC, RecreatePC
  <2> QED
    BY <2>1 DEF Sound, BaseInv, ExclusiveInv, OwnModel
<1> QED
  BY <1>1, Invariant, PTL DEF DecodedByItsModel
=============================================================================
