----------------------------- MODULE OnnxEngine -----------------------------
(***************************************************************************)
(* The inference engine of src/onnx_engine.cc: one OnnxEngine object whose *)
(* handlers are called from any thread of the host program, and the        *)
(* threads of its task queue q_, which run the chat completions.           *)
(*                                                                         *)
(* A request is one call of an EngineI method; it is made at most once and *)
(* pc holds where it is, in its handler or, for an accepted chat, in the   *)
(* task its handler left in q_.  A step is one access to the members that  *)
(* all the threads share, together with the private work around it, so     *)
(* that every interleaving of the accesses is a behaviour.                 *)
(*                                                                         *)
(* Objects are named by the request that made them: oga_model_ = r is the  *)
(* OgaModel built on behalf of request r, and a tokenizer or a tokenizer   *)
(* stream is named by the model it serves.  Likewise q_ = r is the         *)
(* ConcurrentTaskQueue created by request r, with a thread of its own.     *)
(***************************************************************************)
EXTENDS Integers, Sequences, FiniteSets

CONSTANTS
  Requests,   \* the calls made to the engine
  Paths,      \* values of the "model_path" field of a LoadModel body
  Histories,  \* values of its "max_history_chat" field
  MaxTokens,  \* a generator is done after this many tokens ("max_length")
  Ops,        \* the operations the clients call
  Faults,     \* the failures that happen, see FaultKinds
  Exclusive,  \* do clients make LoadModel and UnloadModel calls alone?
  InitialFlags, \* what model_loaded_, which nothing initialises, may start as
  Null        \* a null pointer

Admin == {"load", "unload"}
Chats == {"stream", "full"}       \* chat completions with "stream" true, false
OpKinds == Admin \cup Chats \cup {"embedding", "status", "models"}

(***************************************************************************)
(* "load_args", "chat_args": a field of the body has the wrong JSON type,  *)
(* found before any try block; "create", "recreate": an Oga...::Create     *)
(* throws in LoadModel, or in the restart of a slow model; "id":           *)
(* GetModelId throws; "spawn": the queue's thread cannot be started;       *)
(* "infer": the generation throws.                                         *)
(***************************************************************************)
FaultKinds ==
  {"load_args", "chat_args", "create", "id", "spawn", "infer", "recreate"}

ASSUME NullAssumption == Null \notin Requests /\ Null \notin Paths
ASSUME BoundsAssumption == MaxTokens \in Nat /\ Histories \subseteq Int
ASSUME ModeAssumption ==
  /\ Ops \subseteq OpKinds
  /\ Faults \subseteq FaultKinds
  /\ Exclusive \in BOOLEAN
  /\ InitialFlags \subseteq BOOLEAN

VARIABLES
  pc,        \* where each request is
  op,        \* the operation it calls
  sent,      \* the answers its callback has been given, oldest first
  gen,       \* the model its generator (or its Generate call) works on
  built,     \* the path the model named by this request is built from
  eng,       \* the members of the OnnxEngine, but for q_
  q_,        \* the member q_
  tasks,     \* the contents of each ConcurrentTaskQueue
  busy,      \* the chat each queue's thread is running
  stoppedBy, \* the request that is destroying, or has destroyed, each queue
  crashed    \* has a null or dangling pointer killed the process?

callVars == <<pc, op, sent, gen, built>>
queueVars == <<q_, tasks, busy, stoppedBy>>
vars == <<callVars, eng, queueVars, crashed>>

OrNull(S) == S \cup {Null}

(***************************************************************************)
(* What a callback is given, named by what it tells the client: "loaded",  *)
(* "unloaded", "listed" (GetModels with a model), "unlisted" (without),    *)
(* "stop" and "full" (end of a chat) have is_done; "chunk" has neither     *)
(* flag; the rest have has_error.                                          *)
(***************************************************************************)
IsDone == {"loaded", "unloaded", "listed", "unlisted", "stop", "full"}
HasError == {"load_failed", "refused", "cut", "failed", "unsupported"}
Terminal == IsDone \cup HasError
Answers == Terminal \cup {"chunk"}

LoadPC == {"load_create", "load_model", "load_tokenizer", "load_stream",
           "load_reply", "load_flag", "load_queue", "load_spawn", "load_join",
           "load_drop_model", "load_drop_tokenizer", "load_drop_stream"}
UnloadPC == {"unload_model", "unload_tokenizer", "unload_stream", "unload_flag"}
StreamPC == {"generator", "loop", "token", "after", "finish", "restart_stream",
             "restart_tokenizer", "restart_model", "restart_flag",
             "restart_path", "recreate_model", "recreate_tokenizer", "recreate_stream",
             "recreate_flag"}
FullPC == {"generate", "generating", "decode"}
TaskPC == {"encode", "params", "catch_stream", "catch_tokenizer", "catch_model"}
             \cup StreamPC \cup FullPC
EndPC == {"returned", "threw"}
PCs == LoadPC \cup UnloadPC \cup {"chat_enqueue", "queued"} \cup TaskPC
         \cup EndPC \cup {"idle"}

InProgress(r) == pc[r] \notin EndPC \cup {"idle"}
Running(r) == pc[r] \in TaskPC

(***************************************************************************)
(* The engine before its first call.  The constructor leaves model_loaded_ *)
(* to std::atomic's default constructor: FALSE when the build is C++20,    *)
(* any value when it falls back to an earlier standard (CMakeLists.txt).   *)
(* max_history_chat_ is uninitialised too, but LoadModel writes it before  *)
(* anything acts on it.                                                    *)
(***************************************************************************)
Init ==
  /\ pc = [r \in Requests |-> "idle"]
  /\ op = [r \in Requests |-> "none"]
  /\ sent = [r \in Requests |-> <<>>]
  /\ gen = [r \in Requests |-> Null]
  /\ built = [r \in Requests |-> Null]
  /\ \E f \in InitialFlags :
       eng = [oga_model |-> Null, tokenizer |-> Null, tokenizer_stream |-> Null,
              model_loaded |-> f, path |-> Null, model_id |-> Null,
              max_history_chat |-> 0]
  /\ q_ = Null
  /\ tasks = [r \in Requests |-> <<>>]
  /\ busy = [r \in Requests |-> Null]
  /\ stoppedBy = [r \in Requests |-> Null]
  /\ crashed = FALSE
-----------------------------------------------------------------------------
(***************************************************************************)
(* Helpers.                                                                *)
(***************************************************************************)
Goto(r, l) == pc' = [pc EXCEPT ![r] = l]
Step(r, from, to) == pc[r] = from /\ Goto(r, to)
Reply(r, a) == sent' = [sent EXCEPT ![r] = Append(@, a)]
Set(m, v) == eng' = [eng EXCEPT ![m] = v]

(* A step that only moves on, and one that also assigns member m.          *)
Move(r, from, to) ==
  Step(r, from, to) /\ UNCHANGED <<op, sent, gen, built, eng, queueVars, crashed>>
Assign(r, from, m, v, to) ==
  /\ Step(r, from, to)
  /\ Set(m, v)
  /\ UNCHANGED <<op, sent, gen, built, queueVars, crashed>>

(* A client may make call r of operation o.  When clients are Exclusive,   *)
(* LoadModel and UnloadModel are called while no other call, and no        *)
(* accepted chat, is in progress, and nothing is called while they run.    *)
Begin(r, o) ==
  /\ pc[r] = "idle"
  /\ o \in Ops
  /\ Exclusive => \A s \in Requests :
                    InProgress(s) => o \notin Admin /\ op[s] \notin Admin
  /\ op' = [op EXCEPT ![r] = o]

(* CheckModelLoaded, the test every handler but LoadModel starts with.     *)
CheckModelLoaded(r, next) ==
  \/ eng.model_loaded /\ Goto(r, next) /\ UNCHANGED sent
  \/ ~eng.model_loaded /\ Goto(r, "returned") /\ Reply(r, "refused")

(* The strings that LoadModel writes (path_, the prompts; then model_id_)  *)
(* are read or written by another thread: a data race, which may kill the  *)
(* process.                                                                *)
ArgumentsInUse ==
  \E s \in Requests : pc[s] \in {"load_create", "chat_enqueue", "restart_path"}
ModelIdInUse == \E s \in Requests : pc[s] = "load_reply"

(* The task of chat c returns to its queue's thread; EndTask: it has given *)
(* its last answer.                                                        *)
LeaveThread(c) ==
  /\ Goto(c, "returned")
  /\ busy' = [k \in Requests |-> IF busy[k] = c THEN Null ELSE busy[k]]
EndTask(c, a) == LeaveThread(c) /\ Reply(c, a)

-----------------------------------------------------------------------------
(***************************************************************************)
(* LoadModel.  The arguments are stored at once.                           *)
(***************************************************************************)
LoadModel(r, p, h) ==
  /\ Begin(r, "load")
  /\ Goto(r, "load_create")
  /\ eng' = [eng EXCEPT !.path = p, !.max_history_chat = h]
  /\ crashed' \in {FALSE, ArgumentsInUse}
  /\ UNCHANGED <<sent, gen, built, queueVars>>

(* A later argument has the wrong type: path_ is already stored.           *)
LoadThrows(r, p) ==
  /\ "load_args" \in Faults
  /\ Begin(r, "load")
  /\ Goto(r, "threw")
  /\ Set("path", p)
  /\ crashed' \in {FALSE, ArgumentsInUse}
  /\ UNCHANGED <<sent, gen, built, queueVars>>

(* OgaModel::Create reads path_ when it is called, and oga_model_ gets its *)
(* result much later.  Mutant: the model is built from model_id_.          *)
BuildFrom(r, p) ==
  /\ Step(r, "load_create", "load_model")
  /\ built' = [built EXCEPT ![r] = p]
  /\ UNCHANGED <<op, sent, gen, eng, queueVars, crashed>>
LoadCreateFromId(r) == BuildFrom(r, eng.model_id)
LoadCreate(r) == BuildFrom(r, eng.path)

(* The three objects are created one from the other.  Mutant: a stream     *)
(* that exists is kept.                                                    *)
LoadObjects(r) ==
  \/ Assign(r, "load_model", "oga_model", r, "load_tokenizer")
  \/ /\ eng.oga_model # Null
     /\ Assign(r, "load_tokenizer", "tokenizer", eng.oga_model, "load_stream")

LoadStreamOnce(r) ==
  /\ eng.tokenizer # Null
  /\ Assign(r, "load_stream", "tokenizer_stream",
            IF eng.tokenizer_stream = Null THEN eng.tokenizer
                                           ELSE eng.tokenizer_stream, "load_reply")
LoadStream(r) ==
  /\ eng.tokenizer # Null
  /\ Assign(r, "load_stream", "tokenizer_stream", eng.tokenizer, "load_reply")

(* The callback is called before model_id_ and model_loaded_ are set, and  *)
(* GetModelId may still throw.  Mutant: the first model's name is kept.    *)
LoadReplyKeepsName(r) ==
  /\ Step(r, "load_reply", "load_flag")
  /\ Reply(r, "loaded")
  /\ Set("model_id", IF eng.model_id = Null THEN r ELSE eng.model_id)
  /\ UNCHANGED <<op, gen, built, queueVars, crashed>>
LoadReply(r) ==
  /\ pc[r] = "load_reply"
  /\ Reply(r, "loaded")
  /\ \/ Goto(r, "load_flag") /\ Set("model_id", r)
     \/ "id" \in Faults /\ Goto(r, "load_drop_model") /\ UNCHANGED eng
  /\ UNCHANGED <<op, gen, built, queueVars, crashed>>

LoadFlag(r) == Assign(r, "load_flag", "model_loaded", TRUE, "load_queue")

(* if (q_ == nullptr).  Mutant: every load creates a queue.                *)
LoadQueueAlways(r) == Move(r, "load_queue", "load_spawn")
LoadQueue(r) ==
  \/ q_ # Null /\ Move(r, "load_queue", "returned")
  \/ q_ = Null /\ Move(r, "load_queue", "load_spawn")

(* q_ = std::make_unique<ConcurrentTaskQueue>(1, ...).  If another load    *)
(* has set q_ since the test, the assignment destroys that queue: its      *)
(* destructor stops it and joins its thread.                               *)
LoadSpawn(r) ==
  /\ q_' = r
  /\ \/ q_ = Null /\ Step(r, "load_spawn", "returned") /\ UNCHANGED stoppedBy
     \/ /\ q_ # Null
        /\ Step(r, "load_spawn", "load_join")
        /\ stoppedBy' = [stoppedBy EXCEPT ![q_] = r]
  /\ UNCHANGED <<op, sent, gen, built, eng, tasks, busy, crashed>>

(* The destroyed queue's thread has ended; the tasks left in it are freed. *)
LoadJoin(r) ==
  /\ Step(r, "load_join", "returned")
  /\ \A k \in Requests : stoppedBy[k] = r => busy[k] = Null
  /\ tasks' = [k \in Requests |-> IF stoppedBy[k] = r THEN <<>> ELSE tasks[k]]
  /\ UNCHANGED <<op, sent, gen, built, eng, q_, busy, stoppedBy, crashed>>

(* catch: the three objects are freed, in this order, and the failure is   *)
(* reported; model_loaded_ is left as it is.                               *)
LoadCatch(r) ==
  \/ Assign(r, "load_drop_model", "oga_model", Null, "load_drop_tokenizer")
  \/ Assign(r, "load_drop_tokenizer", "tokenizer", Null, "load_drop_stream")
  \/ /\ Step(r, "load_drop_stream", "returned")
     /\ Set("tokenizer_stream", Null)
     /\ Reply(r, "load_failed")
     /\ UNCHANGED <<op, gen, built, queueVars, crashed>>
-----------------------------------------------------------------------------
(***************************************************************************)
(* UnloadModel: the objects are freed first, model_loaded_ is cleared      *)
(* last.                                                                   *)
(***************************************************************************)
UnloadModel(r) ==
  /\ Begin(r, "unload")
  /\ CheckModelLoaded(r, "unload_model")
  /\ UNCHANGED <<gen, built, eng, queueVars, crashed>>

(* Mutant: the tokenizer is not freed.                                     *)
UnloadKeepsTokenizer(r) ==
  \/ Assign(r, "unload_model", "oga_model", Null, "unload_tokenizer")
  \/ Move(r, "unload_tokenizer", "unload_stream")
  \/ Assign(r, "unload_stream", "tokenizer_stream", Null, "unload_flag")
UnloadObjects(r) ==
  \/ Assign(r, "unload_model", "oga_model", Null, "unload_tokenizer")
  \/ Assign(r, "unload_tokenizer", "tokenizer", Null, "unload_stream")
  \/ Assign(r, "unload_stream", "tokenizer_stream", Null, "unload_flag")

(* Mutant: model_loaded_ is not cleared.                                   *)
UnloadKeepsFlag(r) ==
  /\ Step(r, "unload_flag", "returned")
  /\ Reply(r, "unloaded")
  /\ UNCHANGED <<op, gen, built, eng, queueVars, crashed>>
UnloadFlag(r) ==
  /\ Step(r, "unload_flag", "returned")
  /\ Set("model_loaded", FALSE)
  /\ Reply(r, "unloaded")
  /\ UNCHANGED <<op, gen, built, queueVars, crashed>>
-----------------------------------------------------------------------------
(***************************************************************************)
(* The calls that only read, and the chat completion's handler.            *)
(***************************************************************************)
GetModels(r) ==
  /\ Begin(r, "models")
  /\ Goto(r, "returned")
  /\ Reply(r, IF eng.model_loaded THEN "listed" ELSE "unlisted")
  /\ crashed' \in {FALSE, eng.model_loaded /\ ModelIdInUse}
  /\ UNCHANGED <<gen, built, eng, queueVars>>

GetModelStatus(r) ==
  /\ Begin(r, "status")
  /\ Goto(r, "returned")
  /\ Reply(r, "unsupported")
  /\ UNCHANGED <<gen, built, eng, queueVars, crashed>>

(* The callback of HandleEmbedding is never called.                        *)
HandleEmbedding(r) ==
  /\ Begin(r, "embedding")
  /\ Goto(r, "returned")
  /\ UNCHANGED <<sent, gen, built, eng, queueVars, crashed>>

HandleChatCompletion(r, o) ==
  /\ o \in Chats
  /\ Begin(r, o)
  /\ CheckModelLoaded(r, "chat_enqueue")
  /\ UNCHANGED <<gen, built, eng, queueVars, crashed>>

(* The prompt is formatted (a badly typed body throws out of the handler)  *)
(* and the task is put in q_.  Mutant: it is put at the head of q_.        *)
Enqueue(r, chats) ==
  /\ q_ # Null
  /\ Step(r, "chat_enqueue", "queued")
  /\ tasks' = [tasks EXCEPT ![q_] = chats]
  /\ UNCHANGED <<op, sent, gen, built, eng, q_, busy, stoppedBy, crashed>>
ChatEnqueueFirst(r) == Enqueue(r, <<r>> \o tasks[q_])
ChatEnqueue(r) ==
  \/ Enqueue(r, Append(tasks[q_], r))
  \/ "chat_args" \in Faults /\ Move(r, "chat_enqueue", "threw")
-----------------------------------------------------------------------------
(***************************************************************************)
(* The task of a chat c, run by the thread of its queue.                   *)
(***************************************************************************)

(* The thread of queue k (it exists once k has been q_) takes its next     *)
(* task, unless the queue has been stopped.  Mutants: the task stays in    *)
(* the queue; the queue has several threads.                               *)
Take(k, rest) ==
  /\ stoppedBy[k] = Null
  /\ tasks[k] # <<>>
  /\ Step(Head(tasks[k]), "queued", "encode")
  /\ busy' = [busy EXCEPT ![k] = Head(tasks[k])]
  /\ tasks' = [tasks EXCEPT ![k] = rest]
  /\ UNCHANGED <<op, sent, gen, built, eng, q_, stoppedBy, crashed>>
RunNextKeepsTask(k) == busy[k] = Null /\ Take(k, tasks[k])
RunNextInParallel(k) == Take(k, Tail(tasks[k]))
RunNext(k) == busy[k] = Null /\ Take(k, Tail(tasks[k]))

Encode(c) == eng.tokenizer # Null /\ Move(c, "encode", "params")

CreateParams(c) ==
  /\ eng.oga_model # Null
  /\ Move(c, "params", IF op[c] = "stream" THEN "generator" ELSE "generate")

(* A generator keeps the model it was created with (the restart below      *)
(* frees the model before the generator); Generate is a call on the model. *)
UseModel(c) ==
  /\ \/ Step(c, "generator", "loop")
     \/ Step(c, "generate", "generating")
  /\ eng.oga_model # Null
  /\ gen' = [gen EXCEPT ![c] = eng.oga_model]
  /\ UNCHANGED <<op, sent, built, eng, queueVars, crashed>>

Generated(c) == Move(c, "generating", "decode")

DecodeAll(c) ==
  /\ pc[c] = "decode"
  /\ eng.tokenizer # Null
  /\ EndTask(c, "full")
  /\ UNCHANGED <<op, gen, built, eng, q_, tasks, stoppedBy, crashed>>

(* while (!generator->IsDone() && model_loaded_)                           *)
LoopTest(c) ==
  \/ Len(sent[c]) < MaxTokens /\ eng.model_loaded /\ Move(c, "loop", "token")
  \/ Move(c, "loop", "after")

(* One token is generated and decoded, and its chunk is sent.              *)
Token(c) ==
  /\ Step(c, "token", "loop")
  /\ eng.tokenizer_stream # Null
  /\ Reply(c, "chunk")
  /\ UNCHANGED <<op, gen, built, eng, queueVars, crashed>>

(* After the loop the model has been unloaded and the stream is cut.       *)
(* Mutant: without the return.                                             *)
AfterUnloadGoesOn(c) ==
  /\ Step(c, "after", "finish")
  /\ ~eng.model_loaded
  /\ Reply(c, "cut")
  /\ UNCHANGED <<op, gen, built, eng, queueVars, crashed>>
AfterUnload(c) ==
  /\ pc[c] = "after"
  /\ ~eng.model_loaded
  /\ EndTask(c, "cut")
  /\ UNCHANGED <<op, gen, built, eng, q_, tasks, stoppedBy, crashed>>

(* Otherwise the rate is measured: the model is restarted if it is slow.   *)
MeasureRate(c) ==
  eng.model_loaded /\ \E l \in {"finish", "restart_stream"} : Move(c, "after", l)

Finish(c) ==
  /\ pc[c] = "finish"
  /\ EndTask(c, "stop")
  /\ UNCHANGED <<op, gen, built, eng, q_, tasks, stoppedBy, crashed>>

(* The restart: history is halved, the objects are freed one by one and    *)
(* model_loaded_ is cleared, then they are built again from path_.         *)
RestartDrops(c) ==
  \/ /\ Step(c, "restart_stream", "restart_tokenizer")
     /\ eng' = [eng EXCEPT
                  !.max_history_chat = IF @ \div 2 > 1 THEN @ \div 2 ELSE 1,
                  !.tokenizer_stream = Null]
     /\ UNCHANGED <<op, sent, gen, built, queueVars, crashed>>
  \/ Assign(c, "restart_tokenizer", "tokenizer", Null, "restart_model")
  \/ Assign(c, "restart_model", "oga_model", Null, "restart_flag")

RestartFlag(c) == Assign(c, "restart_flag", "model_loaded", FALSE, "restart_path")

RestartPath(c) ==
  /\ Step(c, "restart_path", "recreate_model")
  /\ built' = [built EXCEPT ![c] = eng.path]
  /\ UNCHANGED <<op, sent, gen, eng, queueVars, crashed>>

(* Mutant: the tokenizer stream is not built again.                        *)
RecreateNoStream(c) ==
  \/ Assign(c, "recreate_model", "oga_model", c, "recreate_tokenizer")
  \/ /\ eng.oga_model # Null
     /\ Assign(c, "recreate_tokenizer", "tokenizer", eng.oga_model, "recreate_flag")
Recreate(c) ==
  \/ Assign(c, "recreate_model", "oga_model", c, "recreate_tokenizer")
  \/ /\ eng.oga_model # Null
     /\ Assign(c, "recreate_tokenizer", "tokenizer", eng.oga_model, "recreate_stream")
  \/ /\ eng.tokenizer # Null
     /\ Assign(c, "recreate_stream", "tokenizer_stream", eng.tokenizer, "recreate_flag")

RecreateFlag(c) ==
  /\ Step(c, "recreate_flag", "finish")
  /\ Set("model_loaded", TRUE)
  /\ q_' = IF q_ = Null THEN c ELSE q_
  /\ UNCHANGED <<op, sent, gen, built, tasks, busy, stoppedBy, crashed>>

(* catch: the objects are freed and the failure is reported; model_loaded_ *)
(* is left as it is.  Mutant: the failure is not reported.                 *)
CatchDrops(c) ==
  \/ Assign(c, "catch_stream", "tokenizer_stream", Null, "catch_tokenizer")
  \/ Assign(c, "catch_tokenizer", "tokenizer", Null, "catch_model")

CatchSilently(c) ==
  /\ pc[c] = "catch_model"
  /\ Set("oga_model", Null)
  /\ LeaveThread(c)
  /\ UNCHANGED <<op, sent, gen, built, q_, tasks, stoppedBy, crashed>>
CatchReply(c) ==
  /\ pc[c] = "catch_model"
  /\ Set("oga_model", Null)
  /\ EndTask(c, "failed")
  /\ UNCHANGED <<op, gen, built, q_, tasks, stoppedBy, crashed>>
-----------------------------------------------------------------------------
(***************************************************************************)
(* Exceptions and null pointers.                                           *)
(***************************************************************************)

(* Where each pointer is followed, and where it is assigned.               *)
Readers ==
  [oga_model |-> {"load_tokenizer", "params", "generator", "generate",
                  "recreate_tokenizer"},
   tokenizer |-> {"load_stream", "encode", "decode", "recreate_stream"},
   tokenizer_stream |-> {"token"}]
Writers ==
  [oga_model |-> {"load_model", "load_drop_model", "unload_model",
                  "restart_model", "recreate_model", "catch_model"},
   tokenizer |-> {"load_tokenizer", "load_drop_tokenizer", "unload_tokenizer",
                  "restart_tokenizer", "recreate_tokenizer", "catch_tokenizer"},
   tokenizer_stream |-> {"load_stream", "load_drop_stream", "unload_stream",
                         "restart_stream", "recreate_stream", "catch_stream"}]

NullPointer(r) ==
  \/ \E m \in DOMAIN Readers : pc[r] \in Readers[m] /\ eng[m] = Null
  \/ pc[r] = "chat_enqueue" /\ q_ = Null

(* Thread r is about to assign a pointer that another thread is using.     *)
Others(r, L) == \E s \in Requests \ {r} : pc[s] \in L
DataRace(r) ==
  \/ \E m \in DOMAIN Writers :
       pc[r] \in Writers[m] /\ Others(r, Readers[m] \cup Writers[m])
  \/ /\ pc[r] = "load_spawn"
     /\ Others(r, {"chat_enqueue", "load_queue", "load_spawn", "recreate_flag"})

(* The process dies on a null pointer, and may die of a data race or when  *)
(* the model that a Generate call is running on is destroyed.              *)
Crash(r) ==
  /\ InProgress(r)
  /\ \/ NullPointer(r)
     \/ DataRace(r)
     \/ pc[r] = "generating" /\ eng.oga_model # gen[r]
  /\ crashed' = TRUE
  /\ UNCHANGED <<callVars, eng, queueVars>>

(* A call in LoadModel's try block throws.                                 *)
LoadFails(r) ==
  /\ ~NullPointer(r)
  /\ \/ "create" \in Faults /\ pc[r] \in {"load_model", "load_tokenizer",
                                          "load_stream"}
     \/ "spawn" \in Faults /\ pc[r] = "load_spawn"
  /\ Move(r, pc[r], "load_drop_model")

(* A call in the task's try block throws.                                  *)
TaskFails(c) ==
  /\ ~NullPointer(c)
  /\ \/ "infer" \in Faults /\ pc[c] \in {"encode", "params", "generator",
                                "generate", "generating", "decode", "token"}
     \/ "recreate" \in Faults /\ pc[c] \in {"recreate_model",
                                "recreate_tokenizer", "recreate_stream"}
  /\ Move(c, pc[c], "catch_stream")

-----------------------------------------------------------------------------
Call(r) ==
  \/ \E p \in Paths, h \in Histories : LoadModel(r, p, h)
  \/ \E p \in Paths : LoadThrows(r, p)
  \/ UnloadModel(r)
  \/ GetModels(r)
  \/ GetModelStatus(r)
  \/ HandleEmbedding(r)
  \/ \E o \in Chats : HandleChatCompletion(r, o)

HandlerStep(r) ==
  \/ LoadCreate(r) \/ LoadObjects(r) \/ LoadStream(r) \/ LoadReply(r) \/ LoadFlag(r)
  \/ LoadQueue(r) \/ LoadSpawn(r) \/ LoadJoin(r) \/ LoadFails(r) \/ LoadCatch(r)
  \/ UnloadObjects(r) \/ UnloadFlag(r)
  \/ ChatEnqueue(r)

TaskStep(c) ==
  \/ Encode(c) \/ CreateParams(c) \/ UseModel(c) \/ Generated(c) \/ DecodeAll(c)
  \/ LoopTest(c) \/ Token(c) \/ AfterUnload(c) \/ MeasureRate(c) \/ Finish(c)
  \/ RestartDrops(c) \/ RestartFlag(c) \/ RestartPath(c) \/ Recreate(c) \/ RecreateFlag(c)
  \/ TaskFails(c) \/ CatchDrops(c) \/ CatchReply(c)

ThreadStep(r) == ~crashed /\ (HandlerStep(r) \/ TaskStep(r) \/ Crash(r))
QueueStep(k) == ~crashed /\ RunNext(k)

Next == \E r \in Requests : (~crashed /\ Call(r)) \/ ThreadStep(r) \/ QueueStep(r)

Spec == Init /\ [][Next]_vars

(* The threads of the engine keep running: a thread that can take a step   *)
(* takes it.  Clients may stop calling at any time.                        *)
Fairness == \A r \in Requests : WF_vars(ThreadStep(r)) /\ WF_vars(QueueStep(r))
FairSpec == Spec /\ Fairness

-----------------------------------------------------------------------------
Engines ==
  [oga_model : OrNull(Requests), tokenizer : OrNull(Requests),
   tokenizer_stream : OrNull(Requests), model_loaded : BOOLEAN,
   path : OrNull(Paths), model_id : OrNull(Requests), max_history_chat : Int]

(* Every variable has its type.                                            *)
TypeOK ==
  /\ pc \in [Requests -> PCs]
  /\ op \in [Requests -> OpKinds \cup {"none"}]
  /\ sent \in [Requests -> Seq(Answers)]
  /\ gen \in [Requests -> OrNull(Requests)]
  /\ built \in [Requests -> OrNull(Paths)]
  /\ eng \in Engines
  /\ q_ \in OrNull(Requests)
  /\ tasks \in [Requests -> Seq(Requests)]
  /\ busy \in [Requests -> OrNull(Requests)]
  /\ stoppedBy \in [Requests -> OrNull(Requests)]
  /\ crashed \in BOOLEAN
-----------------------------------------------------------------------------
(***************************************************************************)
(* Properties that hold whatever the clients do and whatever fails.        *)
(***************************************************************************)
Answered(c) == \E i \in DOMAIN sent[c] : sent[c][i] \in Terminal
QueueReplaced == \E k \in Requests : stoppedBy[k] # Null

(* The answers of a chat are chunks, which only a streamed chat gets, and  *)
(* then at most one last answer that nothing follows: the paths of the     *)
(* task through "return", the end of the try block and the catch never     *)
(* call the callback twice with is_done or has_error.                      *)
ChatAnswersWellFormed ==
  \A c \in Requests : op[c] \in Chats =>
    \A i \in DOMAIN sent[c] :
      IF i < Len(sent[c]) THEN op[c] = "stream" /\ sent[c][i] = "chunk"
                          ELSE sent[c][i] = "chunk" => op[c] = "stream"

(* An accepted chat waits in one queue at one position, or is being run by *)
(* one queue's thread, never both: no task is run twice or by two threads. *)
EachChatHeldOnce ==
  \A k, l \in Requests :
    /\ busy[k] # Null => Running(busy[k]) /\ (busy[l] = busy[k] => k = l)
    /\ \A i \in DOMAIN tasks[k] :
         /\ pc[tasks[k][i]] = "queued"
         /\ \A j \in DOMAIN tasks[l] :
              tasks[k][i] = tasks[l][j] => k = l /\ i = j

(* One inference at a time: as long as q_ is created once, no two tasks    *)
(* use the model, the tokenizer stream and max_history_chat_ together.     *)
InferenceIsSerial ==
  ~QueueReplaced => \A c, d \in Requests : Running(c) /\ Running(d) => c = d

(* A chat left in q_ gets its last answer, unless the process has died or  *)
(* two concurrent loads both created a queue and one queue was destroyed.  *)
AcceptedChatIsAnswered ==
  \A c \in Requests :
    pc[c] = "queued" ~> Answered(c) \/ crashed \/ QueueReplaced

-----------------------------------------------------------------------------
(***************************************************************************)
(* Properties of an engine whose clients are Exclusive: what a client that *)
(* waits for every answer before it loads or unloads can rely on.          *)
(***************************************************************************)
Quiet == ~crashed /\ \A r \in Requests : ~InProgress(r)

(* No thread ever follows a null pointer or destroys a model in use, and   *)
(* no two threads touch a pointer or a string together, one writing it.    *)
NeverCrashes == ~crashed

(* Between calls, model_loaded_ says that there is a model with its own    *)
(* tokenizer and tokenizer stream, and a queue to run chats.               *)
LoadedEngineIsWhole ==
  Quiet /\ eng.model_loaded =>
    /\ eng.oga_model # Null
    /\ eng.tokenizer = eng.oga_model
    /\ eng.tokenizer_stream = eng.oga_model
    /\ q_ # Null

(* Between calls, an engine that says it has no model holds none of the    *)
(* three objects, whichever of the failure paths it went through.          *)
UnloadedEngineHoldsNothing ==
  Quiet /\ ~eng.model_loaded =>
    {eng.oga_model, eng.tokenizer, eng.tokenizer_stream} = {Null}

(* Between calls, the model that GetModels lists under model_id_ is built  *)
(* from the path that was loaded under that name, also after a restart.    *)
ServesTheListedModel ==
  Quiet /\ eng.model_loaded =>
    built[eng.oga_model] = built[eng.model_id]

(* Every token of a stream is decoded by a tokenizer stream of the model   *)
(* that generated it.                                                      *)
DecodedByItsModel ==
  [][\A c \in Requests :
       pc[c] = "token" /\ sent'[c] # sent[c] => eng.tokenizer_stream = gen[c]]_vars

(* A queue, once created, is never replaced: no waiting chat is dropped.   *)
QueueIsKept == ~QueueReplaced

(* GetModels ("API to get running models") lists a model, when nothing     *)
(* else is in progress, only if there is one.                              *)
ListedModelIsRunning ==
  [][\A r \in Requests :
       /\ op'[r] = "models" /\ sent'[r] # sent[r] /\ Quiet
       /\ sent'[r][Len(sent'[r])] = "listed"
       => eng.oga_model # Null]_vars

(* The engine serves chats as ChatService promises: one at a time, in the  *)
(* order in which they were accepted.                                      *)
line ==
  IF q_ = Null THEN <<>>
  ELSE (IF busy[q_] = Null THEN <<>> ELSE <<busy[q_]>>) \o tasks[q_]
replies == [r \in Requests |-> IF op[r] \in Chats THEN sent[r] ELSE <<>>]

CS == INSTANCE ChatService

ServesInOrder == CS!Spec
=============================================================================
