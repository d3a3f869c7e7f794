# A TLA+ model of cortex.onnx

cortex.onnx is an inference engine, a library with a C++ interface (`EngineI`),
and an example HTTP server that loads the library. The engine wraps
onnxruntime-genai: it holds one model at a time and runs chat completions in a
task queue of its own. This directory models the engine's control, what its
handlers and its queue's thread do to the members they share; the way of a
chat's answers from the engine to the client; and the server around it, from a
connection's bytes to the threads that serve it and the end of the process; step
by step, in every interleaving, and with the failures the code handles.

Paths below are relative to the repository.

## The system

| part | source | state | operations |
|---|---|---|---|
| engine | `src/onnx_engine.{h,cc}`, `base/cortex-common/enginei.h` | `oga_model_`, `tokenizer_`, `tokenizer_stream_`, `model_loaded_` (atomic), `model_id_`, `path_`, prompts, `max_history_chat_`, `start_time_`, `q_` | `LoadModel`, `UnloadModel`, `HandleChatCompletion`, `HandleEmbedding`, `GetModelStatus`, `GetModels`, and the task of a chat |
| chat prompt | `src/onnx_engine.cc:184-215`, `src/chat_completion_request.h` | none | keeps the last messages of the history, joins them |
| SyncQueue | `examples/server/server.cc:34-53` | mutex, condition variable, queue of answers | `push`, `wait_and_pop` |
| responses | `examples/server/server.cc:94-127` | the response being sent | chunked content provider, full response |
| thread pool | `examples/server/httplib.h:666-743` (vendored) | mutex, condition variable, jobs, 5 threads | `enqueue`, `shutdown`, the workers |
| connection | `httplib.h:2994-3046, 5496-5531, 5937-6091, 6466-6767` | the socket's stream, keep-alive count, the request | read a request, route it, write the response |
| routes | `server.cc:129-237` | none | one handler per route |
| start and stop | `server.cc:14-28, 56-92, 227-273`, `httplib.h:5928-5935, 6302-6410` | `running`, `is_terminating`, `engine_`, the listening socket | signals, `/destroy`, `listen`, `stop`, `join` |
| task queue | trantor (submodule) | tasks, thread | `runTaskInQueue`, destructor |
| inference | onnxruntime-genai (submodule) | models, generators | `Create`, `Encode`, `Decode`, `Generate` |

How they interact. Each HTTP request runs its handler on one of the pool's five
threads; the handler parses the body and calls the engine with a callback.
`LoadModel`, `UnloadModel`, `GetModels` and `GetModelStatus` call it before they
return. `HandleChatCompletion` checks `model_loaded_`, formats the prompt and
leaves a task in `q_`; the task runs on the queue's one thread and calls the
callback for each token of a streamed chat and once at the end. The server's
handler for a chat reads the answers from a `SyncQueue`, which the callback
fills. Nothing but the atomic `model_loaded_` and the two queues synchronises
the pool's threads with each other and with the task's thread.

### What is hard

* The members of the engine are shared by the pool's threads and the queue's
  thread without a lock, and `model_loaded_` is set and cleared in orders that do
  not protect them: set before `q_` exists (154, 158), cleared after the objects
  are freed (383-386), left set when an inference or a load fails (160, 355).
* A slow model is rebuilt in the middle of a task (277-299), with requests
  refused meanwhile and accepted ones waiting behind it.
* A task ends in four ways (269, 314, 353, 367), each of which must answer once.
* `q_` is created on first use, by a test and an assignment that two loads can
  interleave; replacing a queue destroys the chats in it.
* In the server a handler waits without a timeout for an answer, a failed write
  does not end a stream, and shutdown joins every thread.
* The pool releases its mutex before it notifies, and its workers outlive the
  listening socket: `svr_sock_` is tested before a wait of up to five seconds.
* On a kept-alive connection what one request leaves unread is the beginning of
  the next, and each request has a reader with a buffer of its own.

* Each read of a request has its timeout, but its lines have none together
  (`httplib.h:2639`, `3824`): a request that comes slowly holds its worker, and with
  it `shutdown()`, for as long as it likes.

`PROJECT.json` lists each hazard at its line with the properties that cover it, or
with the reason why none does.

### What makes each part correct

* engine: an accepted chat is run once, alone, in order, and answered by chunks
  and exactly one last answer; the three objects, `model_id_` and `model_loaded_`
  agree between calls; no thread follows a null pointer.
* chat prompt: the history is a suffix of the dialogue without a gap, in a prompt
  whose parts stand in their order, whatever a restart does meanwhile.
* SyncQueue: answers come out once, in order, and a waiting reader is woken.
* responses: the client gets a prefix of the answers in order; the handler ends
  after the last answer.
* thread pool: jobs run once, in order, all of them before the workers end; no
  worker sleeps beside a job or through the shutdown.
* connection: the k-th response answers the k-th request with its whole body.
* start and stop: once asked to stop, the process ends as soon as its clients and
  the engine let go of the workers; only connections that wait at that moment are
  closed unheard; and the engine is not used after it has been deleted.

## Modules

**`OnnxEngine`** is the engine. A request is one call of `EngineI`; `pc` says where
it is, in its handler or, for an accepted chat, in the task its handler left in
`q_`. A step is one access to the shared members together with the private work
around it. Objects are named by the request that made them, so that one can say
which model a tokenizer stream belongs to. The record `eng` holds the members,
`tasks`, `busy` and `stoppedBy` the task queues ever created, `sent` what each
callback has been given. Exceptions are the actions `LoadThrows`, `LoadFails`,
`TaskFails` and disjuncts of `LoadReply` and `ChatEnqueue`, switched on by the constant
`Faults`. A null pointer or a data race on a pointer or a string is undefined
behaviour: the action `Crash` may end the process (`crashed`), and a null pointer
always does. The constant `Exclusive` makes the clients load and unload only while
nothing else is in progress; without it they call anything at any time.

**`ChatService`** is what the engine promises about chats: a line of accepted
chats, of which only the first is answered, by chunks and one last answer.
`OnnxEngine` implements it by a refinement mapping: `line` is the chat being run
and then the contents of `q_`, `replies` the answers to the chats.

**`SyncQueue`** is the server's queue between the engine's callback and a handler:
`mtx`, `q`, and for each thread its place (`pc`) in `push` or `wait_and_pop`, one step
for each access. A thread at `"waiting"` is held by the condition variable; it may
also wake up for nothing. The server has one reader and at any time one writer
for each queue; the module allows any number of both.

**`AnswerQueue`** is what a `SyncQueue` promises: a queue whose operations are
atomic. `SyncQueue` implements it by the mapping `items <- q`, `taken <- popped`,
`asking <-` the threads in `wait_and_pop` that have not popped.

**`ChatResponse`** is one chat in the server: the handler's thread, the engine's
thread, and the `SyncQueue` between them, whose actions it takes from `SyncQueue`
by INSTANCE. `hpc` is the handler's place: in the call of the engine, in
`process_non_stream_res`, or in httplib's loop and the provider of
`process_stream_res`. `body` is what has been written to the client; a write
may fail before or after some of its bytes (`"torn"`), and `stopped` may become true
at any time. The engine's side is what the properties of `OnnxEngine` establish:
chunks, if the chat is streamed, then one last answer.

**`ThreadPool`** is httplib's pool: `mutex_`, `cond_`, `jobs_`, `shutdown_`, and the place of
each thread, the listening one (which calls `enqueue` and `shutdown`) and the
workers. As in `SyncQueue` each access is a step and a wait may end for nothing.

**`JobPool`** is what it promises: a line of jobs that are taken oldest first, each
by one worker, and workers that leave when the pool is closed and the line is
empty. `ThreadPool` implements it by `line <- jobs`, `doing <- fn`,
`closed <- shutdown`, `gone <-` the workers past the loop's `break`.

**`CortexServer`** composes `main`, its signal handler, the listening thread and the
workers of a `JobPool` whose jobs are connections. `mpc`, `lpc` and `wpc` are the
places of `main`, of `listen_internal` and of each worker in `process_and_close_socket`;
`conn` says whether a connection has been accepted, has been `"heard"`, that is, a worker
has waited for a request on it, and whether it was closed after that or was
`"dropped"`: a worker that takes a connection after `stop()` has taken the socket
closes it unheard (`httplib.h:3021`). A worker waits for a request (`"wait"`, where
`keep_alive` has a deadline) and then reads it (`"read"`, which has none); a request
is here no more than its route, `"unknown"` being also the malformed ones. A handler's call of the engine is a step: it needs the
engine to be there, `/models` and the like are answered at once, a chat some time
later, an embedding never. `late` counts the requests that a connection gets
after the server's socket was taken, and is only there for a property.

**`HttpConnection`** is what one worker does with one connection: `process_request`
in the keep-alive loop, reading through a `SocketStream` that reads ahead and is
thrown away after each request. A request on the wire is a line, headers and the
parts of a body; a packet ends, a client goes away and a timeout expires
anywhere. The kinds of request differ in method, framing, length, the flaws that
`process_request` refuses, and `Connection: close`. Nobody looks whether the headers of
a response were written (`httplib.h:6068`): its answer is then `"lost"`, and the
loop goes on unless there is a body that cannot be written either (`BodyLost`).

**`ChatPrompt`** is the loop of `HandleChatCompletion` over the messages with the
locals `history_max` and `index`, and the restart by another chat's task that halves
`max_history_chat_` at any time. The largest int is `MaxInt`, and an operation that
overflows is undefined. A message is its role, a prompt the sequence of its pieces.

**`MC*`** give the constants their values for TLC; `ChatResponse` and `ChatPrompt` need
none. **`*_proofs`** hold the theorems, **`SequenceLemmas`** what those about the chats need
to know of `FlattenSeq`, `Reverse` and the ends of a sequence.

Definitions called mutants stand before the definition they alter: each is a
plausible mistake in the code, and the property it is listed with in
`PROJECT.json` fails when it takes the definition's place.

### Abstractions

The prompt's text, the tokens and the wording of answers are left out: an answer
is named by what it tells the reader (chunk, last answer, error). Generation
may stop after any number of tokens up to `MaxTokens`, and the measured rate may be
anything, so both outcomes of the test at 277, with its 0/0 and x/0, are steps.
`OgaModel::Create` reads `path_` when called and its result is assigned later.
A generator keeps the model it was created from. The task queue is modelled
from trantor's interface: one thread, first in first out, and a destructor that
lets the running task finish, drops the rest and joins. `start_time_` is not
modelled: nothing but the list's text depends on it. In `ChatResponse` the headers are
left out, but for the status, and an answer stands for its text; `Data` says which
answers have any. In `CortexServer` an `accept` and the `enqueue` that follows are one
step: the listening thread does nothing between them that others see. Its pool is
`JobPool` in place of the `ThreadPool` that implements it, and its engine answers
a chat at some time or never. A descriptor is open or not and has no number. In `HttpConnection` a byte stream
is cut at units of a request, and the client waits for an answer before it
sends the next request.

## Runs

| run | what is asked |
|---|---|
| `engine_open` | three requests, loads, unloads and chats in any interleaving, with failing creations, inferences and restarts, under `FairSpec`: type invariant, `ChatAnswersWellFormed`, `EachChatHeldOnce`, `InferenceIsSerial`, `AcceptedChatIsAnswered` |
| `engine_exclusive` | five requests of every operation by exclusive clients, two model paths, up to two tokens, requests refused for a badly typed body: `NeverCrashes`, `LoadedEngineIsWhole`, `ServesTheListedModel`, `QueueIsKept`, `DecodedByItsModel` |
| `engine_exclusive_faults` | five requests by exclusive clients with every failure and any initial `model_loaded_`: `UnloadedEngineHoldsNothing`, and `ServesInOrder`, the refinement of `ChatService` |
| `engine_listed_after_error` | finds `ListedModelIsRunning` violated when an inference fails: see Findings |
| `chat_prompt` | every sequence of up to four messages, every 4-bit `max_history_chat_`, restarts at any time: type invariant, `PromptIsFormatted`, `LatestKept` |
| `sync_queue` | two writers, two readers, three pushes, under `FairSpec`: type invariant, `FrontIsPopped`, `NoLostWakeup`, and `IsAnswerQueue` and `ServesEveryCaller`, the refinement of `AnswerQueue` without and with its fairness |
| `chat_response` | one chat, streamed or not, of up to three chunks, refused, accepted or thrown, with failing writes and a shutdown at any time, under `FairSpec`: type invariant, `StreamIsFaithful`, `SentMeansWhole`, `HandlerEnds` |
| `thread_pool` | three workers, three jobs, a shutdown at any time, under `FairSpec`: type invariant, `NoLostWakeup`, `NoLateSleeper`, and `IsJobPool` and `ServesEveryJob`, the refinement of `JobPool` without and with its fairness |
| `cortex_server` | two workers, three connections, every route, failing `accept`s, `/destroy` and a signal at any time: type invariant, `EngineOutlivesHandlers`, `StopFindsSocket`, `OneRequestAfterStop`, `OnlyStopDrops` |
| `cortex_server_live` | one worker, two connections, the routes that the engine answers, two signals, under `FairSpec`, unless a client or the engine holds a worker for ever: `StopEnds`, `AcceptedIsHeard` |
| `cortex_server_destroy` | finds `DestroyEnds` violated with a request of `/v1/embeddings`: see Findings |
| `http_connection` | three requests of sixteen kinds on one connection, under `FairSpec`: type invariant, `AnswersTheRequest`, `RequestIsAnswered` |

Bounds. Three requests are enough for two loads that race for `q_` and a chat in
the queue that is destroyed, or for a load, an unload and a chat; five for a load, a
reload or an unload and reload, and chats before and after. Two paths let a
reload change the model. One or two tokens reach the loop's test before, between
and after chunks. `max_history_chat_` starts at 2, so that a restart halves it. The
requests are symmetric in the runs without liveness. Two readers and two pushes
are the least with which a missing notification leaves a reader waiting beside
an answer; the third push leaves one over. Each request has a `SyncQueue` of its
own and shares nothing else on its way to the client, so one request is enough
for `ChatResponse`; three chunks let a write fail before, between and after others.
A `MaxInt` of 7 holds every `2 * max_history_chat_` that fits, and many that do not, next to
four messages, so that the window is larger, smaller, empty and undefined;
messages of the five roles stand in every order. Three workers and three jobs let one
worker sleep, one run and one be woken for a job that is gone. In `cortex_server`
a connection waits while both workers are busy, and `MaxCount` is 2, so that one
answer is followed by another and by the end of keep-alive; with one worker in
`cortex_server_live` every connection must wait for the other. In `http_connection` the
first request can leave something on the wire, the second be disturbed by it,
and the third follow; the kinds are those that `process_request` tells apart.

Deadlock is not checked in these runs: clients may stop calling, a process that
has ended or crashed takes no step, and a closed connection or a finished prompt
is the end.

Fairness. `FairSpec` says that a thread that can take a step takes one: these are
threads of the operating system. `SyncQueue` needs no fairness of the mutex: pushes are
finitely many, as a chat's answers are, and a reader that finds an answer keeps
it. `ThreadPool` asks for strong fairness of each thread, which gets the mutex even if
others, woken for nothing again and again, keep taking it; `ChatResponse` asks for it of
the task's thread inside `push`, for the same reason.

Nothing is assumed of clients, of the handlers in `HttpConnection`, or of the engine's
answers elsewhere. Where a property needs something of them, that is its antecedent:

* `HandlerEnds`: that the task, if it runs, comes to its end. What the engine gives is
  `AcceptedChatIsAnswered`, which is less where two loads replace the queue.
* `StopEnds`, `AcceptedIsHeard` and `DestroyEnds`: `NobodyHolds`, that no worker is for ever in
  the middle of a request that its client does not end, or of a chat that the
  engine does not answer. The code has no deadline for either, and without it all
  three fail: `shutdown()` joins such a worker.
* `RequestIsAnswered`: that no handler is stuck.

`CortexServer` assumes of `accept` only that it fails once its socket has been shut down,
and of `keep_alive` that it gives up in the end. `HttpConnection` assumes that a read
ends, by its timeout if nothing else; that all reads of a request end together
follows there from the bound on what the client sends, and is what `NobodyHolds`
says in `CortexServer`.

## Findings

* `engine_listed_after_error`: `GetModels` is the "API to get running models"
  (`src/onnx_engine.h:31`). When an inference throws, the task frees the model and
  leaves `model_loaded_` set, so `GetModels` lists a model that is gone (and the
  next chat is accepted and follows a null pointer). A reload that fails does the same.
* `cortex_server_destroy`: `HandleEmbedding` only logs that it is not supported and
  never calls its callback (`src/onnx_engine.cc:372-376`), though `IsSupported` says
  otherwise. The server's handler then waits for ever, and since `/destroy` makes
  `main` wait for all handlers, the process does not end. The end-to-end test's
  `CleanUp` (`.github/scripts/e2e-test-server.py:95-97`) sends `DELETE /destroy` and waits
  for the process to end.

The exclusive runs show which of the code's promises depend on its clients:
with `Exclusive = FALSE` the properties of `engine_exclusive` fail, on the hazards listed
at lines 154, 157, 236 and 383. More limits are visible in the models, and
contradict no document: a shutdown before the listening thread has started waits for
ever (`StopEnds` supposes that it has); a body of a `GET`, or of a `DELETE` without a
`Content-Length`, is taken for the next request (`AnswersTheRequest` supposes that
none came before); of the body of a `POST` without a `Content-Length`, what has come
when nothing comes for a while is handled as the whole of it, and the rest taken
for the next request (the same supposition); and the window of `ChatPrompt` is one message shorter than the two
per turn that `history_max` counts.

## Theorems

Proved by TLAPS for every value of the constants that satisfies the named
assumptions of the modules (types; `Null` is not a request, thread, connection or
answer).

### The engine, whatever its clients do and whatever fails (`OnnxEngine_proofs`)

* `TypeCorrect`: `Spec => []TypeOK`. Most steps are `Move` or `Assign`; lemmas about
  these two and about the helpers carry the proof, one step per action.
* `ChatsAnsweredOnce`: `Spec => []ChatAnswersWellFormed`. The property is not
  inductive, since it does not say which chats may still be answered. `CallInv`
  does: the place of a request agrees with its operation, and a chat that is
  not over has had nothing but chunks. Each action touches one request
  (`CallFrame`) and either moves it (`CallMoves`), gives it a last answer
  (`CallCloses`) or a chunk.
* `ChatsHeldOnce` and `SerialInference`: `EachChatHeldOnce` and `InferenceIsSerial`,
  from `HoldInv`, which adds that a running chat is held by a queue's thread and
  that only `q_` holds chats until it has been replaced. `HoldEnqueue` and
  `HoldRunNext` are about the ends of the queue, `HoldLeave` about a task that ends,
  `HeldFrame` about all the steps that leave the queues alone.

### The engine with exclusive clients, whatever fails (`OnnxEngine_proofs`)

`BaseInv` adds to the above that a load or unload in progress is alone
(`AdminAlone`), that no queue is being replaced and `LoadSpawn` still finds the null
`q_` that `LoadQueue` saw (`QueueKept`), and that a chat which is not yet running has no
answer (`Unanswered`). With it at most one task runs (`OneTask`) and nothing runs beside
a load or unload (`Aside`).

* `QueueNeverReplaced`: `Spec => []QueueIsKept`, one of the parts of `BaseInv`.
* `ImplementsChatService`: `Spec => ServesInOrder`. `ChatEnqueue` is `Accept`, a refused call
  is `Refuse`, `Token` is `Chunk`, the steps that end a task are `Close`, and all the others
  stutter, among them `RunNext`, which moves a chat from the queue to its thread
  and so leaves `line` as it is.
* `NothingIsLeft`: `Spec => []UnloadedEngineHoldsNothing`, from `ReleaseInv`: when no
  request works on the objects, they are all null or `model_loaded_` is set, and
  each path that may end with the flag cleared has freed what it should have by
  then (`Freed`). A step either stays out of the objects (`StaysOut`) or is taken by the
  one request that works on them (`WorksOn`).

### The engine with exclusive clients when nothing fails (`OnnxEngine_proofs`)

The assumption `Careful` is the run `engine_exclusive`: exclusive clients, no failure but
a badly typed chat, `model_loaded_` starts as `FALSE`. `ExclusiveInv` says what each step of a
load or a restart has done so far (`Changing`), that the objects, the name and the
path belong together whenever there is a chat or the flag is set and no load,
unload or restart is in progress (`Settled`, `Sound`), and that a generator's model is
the one in use (`OwnModel`). `NoCrash` shows that a process in such a state has
nothing to crash on; the theorems are read off: `EngineNeverCrashes`,
`LoadedIsWhole`, `ListedModelServes`, `TokensAreDecoded`. The finding above is why the
assumption on failures is needed.

### SyncQueue (`SyncQueue_proofs`)

For any number of threads, answers and pushes:

* `TypeCorrect` and `NothingPoppedTwice` (`Spec => []FrontIsPopped`), from `QueueInv`,
  which adds that a thread in a critical section owns the mutex (`Owner`) and that
  one about to push has an answer (`HasAnswer`).
* `ImplementsAnswerQueue`: `Spec => IsAnswerQueue`. `Push`, the locks, `Test`, `Front` and
  the wakeups are stutters, `WaitAndPop` is `Ask`, `PushItem` is `Put`, `PopItem` is `Get`;
  `QueueInv` makes the answer that `PopItem` hands over the head of the queue.
* `WakeupNeverLost`: `Spec => []NoLostWakeup`. The property is inductive with `QueueInv`;
  each step moves at most one thread in or out of the sets it counts, and
  `notify_one` exchanges the notifier for the thread it wakes.

### ThreadPool (`ThreadPool_proofs`)

For any finite set of workers:

* `TypeCorrect`, `NobodySleepsOn` (`NoLateSleeper`), `ImplementsJobPool` (`IsJobPool`): from an
  invariant that says who owns the mutex, that a worker about to take a job
  finds one and one about to leave finds none, and that after the notification of
  `shutdown` no worker is about to wait.
* `WakeupNeverLost` (`NoLostWakeup`): a count, as for `SyncQueue`; the notifier counts
  from the moment it has pushed the job, so that the gap between the end of the
  critical section and `notify_one` loses nothing.

### CortexServer (`CortexServer_proofs`)

For any number of workers, connections and signals, `ServerInv` relates the threads
to each other: a worker has a connection as long as it serves one
(`WorkersInPool`), has had a late request only if the socket was taken before
(`LateOnce`), the pool is closed at the end of `listen_internal`, whose thread ends when
all workers are gone (`PoolCloses`), a connection that is open is in the pool
(`AcceptedInPool`, `PoolHasAccepted`), one that its worker has waited on is marked
(`MarkedHeard`), and `main` deletes the engine when the listening thread has ended
or never started (`MainOrder`, `NothingBefore`). From it: `TypeCorrect`,
`NoCallAfterDeletion` (`EngineOutlivesHandlers`), `StopAssertion` (`StopFindsSocket`),
`StopIsPrompt` (`OneRequestAfterStop`), `DroppedByStopOnly` (`OnlyStopDrops`). The last says
what the code does for a connection in the pool and no more: a worker waits for its
request, unless `stop()` has taken the socket by then; it does not say that a request
is answered, which is a matter of `AcceptedIsHeard` and `HttpConnection`.

`PoolNeverRefuses` is about the composition. `CortexServer` takes `JobPool`'s actions
with their guards, none of which the code tests; the theorem says that each of
them holds wherever the code calls the pool, so that the guards leave out no
behaviour of the server.

### A connection (`HttpConnection_proofs`)

For any number of requests, parts of a body and answers on one connection:
`TypeCorrect`, and `ResponsesMatch` (`AnswersTheRequest`). `Left` is all that the server
has still to read, in the buffer, on the wire and on its way. `Paired` says that
no answer is ahead of its request, as far as those before it left nothing;
`InStep`, that under the same condition `Left` is empty between requests (`Idle`), and
during one the rest of its units (`Busy`), counted by the place of `process_request` and
by `got`. The packets then do not matter: a step of the wire moves units within
`Left`, and a step of the server takes its head. With `WholeRead` the handler has had
the whole body and `Left` is empty when it answers.

The attempt to prove it found a case that the property did not except and that
the kinds of the run did not contain: a `POST` whose framing tells no end. What has
come when nothing comes for a while is then handled as the whole body, and what
comes later is the next request. `MayBeLeft` now excepts it, and the run has a
kind for it. A request line that the end of the stream cuts short is answered, for
the right request (`RequestCut`).

### The chat prompt (`ChatPrompt_proofs`)

For any number of messages, any `max_history_chat_` and any largest int:

* `TypeCorrect`: the locals stay in their types. The attempt showed that an int of
  one bit, which an earlier assumption allowed, has no 1 for `std::max(1, ...)` to
  return; the constant is now the largest int, at least 1.
* `PromptCorrect` (`PromptIsFormatted`): the loop invariant `LoopInv` says that
  `formatted_output` is what the first `index` messages call for (`Formatted`), with the
  window that `history_max` was computed for. A turn adds one part to one of its two
  ends (`FormattedGrows`); a restart does not change what it depends on.
* `HistoryHasNoGap` (`LatestKept`): `WindowInv` says of each message of the dialogue
  that its piece is in the prompt if and only if it has been passed and is in the
  window, which reaches up to the latest.

### A chat's answers (`ChatResponse_proofs`)

For any number of answers. `ChatInv` joins `QueueInv`, instantiated for the queue of
the chat, with: where the two threads may be in the queue (`InStep`); that a last
answer is the last of all that were given and nobody will push another
(`AnswersInv`: `LastIsLast`, `PushesLast`); and what has been written at each place of the
handler, in terms of the answers popped (`BodyInv`): all of their text, or all but
that of the one in hand, or if a write failed a prefix of it.

* `TypeCorrect`, `StreamCorrect` (`StreamIsFaithful`), `SentIsWhole` (`SentMeansWhole`).
* `UsesSyncQueue`: `Spec => SQ!Spec`, one step of the chat is one of the queue or none;
  the number of pushes stays within the queue's bound because a last answer is one.
* `ChatWakeupNotLost` and `ChatQueueIsAtomic`: with that, the steps of `SyncQueue_proofs`
  show `NoLostWakeup` and `IsAnswerQueue` of the queue between these two threads.

`SequenceLemmas` has what these proofs need of sequences. `FlattenSeq` is a recursive
function, which takes induction to reason about, and a lemma cannot have an operator as its
parameter; `SetInduction` states induction of a set of natural numbers instead, from
`WFMin` of the library. `FlattenAppend` and `FlattenType` follow from it.

### Only model-checked

Liveness, which is out of the prover's reach: `AcceptedChatIsAnswered`,
`ServesEveryCaller`, `HandlerEnds`, `ServesEveryJob`, `StopEnds`, `AcceptedIsHeard`,
`RequestIsAnswered`. Every other property of a passing run is the statement of a theorem.

## Plan

Done: the engine (`OnnxEngine`, `ChatService`, `ChatPrompt`), the answers' way (`SyncQueue`,
`AnswerQueue`, `ChatResponse`), the server (`ThreadPool`, `JobPool`, `HttpConnection`,
`CortexServer`), and the theorems above: all invariants and refinements that the
runs check are proved.

Left:

1. That `OnnxEngine` gives each chat what `ChatResponse` assumes of the task (chunks if it
   is streamed, then one last answer of its kind), as a refinement instead of the
   two properties side by side.
2. Action properties: what no step of a client, a handler or a restart may undo, such
   as an answer given or a byte written.
3. `HttpConnection` with `Expect: 100-continue` and a limit on payloads.

## Not modelled

* The text of answers, the JSON objects of `src/onnx_engine.cc:21-119` and the random
  ids: no property depends on them, and no state does.
* `dylib.h`, a wrapper of `dlopen`; that it throws is an outcome of `Construct`.
* Of `httplib.h`, which is nine tenths of the lines: the client, SSL, multipart
  bodies, compression, ranges, files, regular expressions of routes, loggers and error handlers.
  The example server uses none of them. `Expect: 100-continue`, the limit on payloads and
  clients that send the next request before they have the answer are left out
  of `HttpConnection`; header fields are taken as they were parsed.
* The JSON library, whose reader the handlers share without a lock: what a race in it
  does cannot be told from this repository.
* The end-to-end test, the build files and the vendored ONNX Runtime headers, which are
  not part of the program's behaviour.
