---------------------------- MODULE ChatResponse ----------------------------
(***************************************************************************)
(* One POST of /v1/chat/completions in examples/server/server.cc, from the *)
(* call of the engine to the end of the response: the pool's thread that   *)
(* handles it, the engine's thread that answers it, the SyncQueue between  *)
(* them, and the loop of httplib that sends a stream to the client.        *)
(*                                                                         *)
(* The engine is the one that OnnxEngine shows it to be: it refuses the    *)
(* chat at once, on the handler's thread, or accepts it, and gives it      *)
(* chunks, if it is streamed, and then one last answer, on its own thread, *)
(* though this may never come (see OnnxEngine!AcceptedChatIsAnswered).     *)
(* Each request has a SyncQueue of its own, so that one request is enough. *)
(***************************************************************************)
EXTENDS Integers, Sequences, SequencesExt

CONSTANTS
  Handler, Task,  \* the two threads
  MaxChunks,      \* bound: the engine generates this many tokens at most
  Null

ASSUME ThreadAssumption == Handler # Task /\ Null \notin {Handler, Task}
ASSUME ChunksAssumption == MaxChunks \in Nat

Threads == {Handler, Task}
LastAnswers(s) == IF s THEN {"stop", "cut", "failed"} ELSE {"full", "failed"}
Terminal == {"stop", "cut", "failed", "full", "refused"}
Answers == {"chunk"} \cup Terminal
ASSUME NullAssumption == Null \notin Answers

VARIABLES
  mtx, q, pc, val, popped,  \* the request's SyncQueue
  stream,   \* the "stream" field of the body
  hpc,      \* where the handler is, outside of the SyncQueue
  tpc,      \* has the engine accepted the chat, and given its last answer?
  status,   \* the status of the response
  body,     \* what has been written of its body
  data_available, ok,  \* the locals of write_content_chunked
  result,   \* what the sending of the body returned
  stopped   \* is the server's socket closed, so that is_shutting_down()?

queueVars == <<mtx, q, pc, val, popped>>
sendVars == <<status, body, data_available, ok, result>>
vars == <<queueVars, stream, hpc, tpc, sendVars, stopped>>

SQ == INSTANCE SyncQueue WITH
        Writers <- Threads, Readers <- {Handler}, MaxPushes <- MaxChunks + 1

(* The "data" of an answer, as the client gets it in a stream: an answer   *)
(* that says why there is no text has none, or an empty one.  Mutant: it   *)
(* is sent like the others.                                                *)
DataOfAll(a) == <<a>>
Data(a) == IF a \in {"chunk", "stop"} THEN <<a>> ELSE <<>>
StatusOf(a) ==
  CASE a = "refused" -> 409 [] a = "failed" -> 500 [] OTHER -> 200

Init ==
  /\ SQ!Init
  /\ stream \in BOOLEAN
  /\ hpc = "idle"
  /\ tpc = "none"
  /\ status = -1
  /\ body = <<>>
  /\ data_available = TRUE
  /\ ok = TRUE
  /\ result = "none"
  /\ stopped = FALSE

Goto(from, to) == hpc = from /\ hpc' = to

(* Bytes go to the socket: all of them, or an error comes after none or    *)
(* some of them.                                                           *)
Written(s) == body' = body \o s
NotWritten == body' \in {body, Append(body, "torn")}
-----------------------------------------------------------------------------
(***************************************************************************)
(* The handler calls the engine, which throws (httplib answers 500),       *)
(* refuses or accepts.                                                     *)
(***************************************************************************)
HandleThrows ==
  /\ Goto("idle", "ended")
  /\ status' = 500
  /\ result' = "success"
  /\ UNCHANGED <<queueVars, stream, tpc, body, data_available, ok, stopped>>

HandleRefused ==
  /\ Goto("idle", "refusing")
  /\ SQ!Push(Handler, "refused")
  /\ UNCHANGED <<stream, tpc, sendVars, stopped>>

HandleAccepted ==
  /\ Goto("idle", "respond")
  /\ tpc' = "running"
  /\ UNCHANGED <<queueVars, stream, sendVars, stopped>>

Refused ==
  /\ Goto("refusing", "respond")
  /\ pc[Handler] = "out"
  /\ UNCHANGED <<queueVars, stream, tpc, sendVars, stopped>>

(* The task of an accepted chat calls the callback.                        *)
TaskAnswers(a) ==
  /\ tpc = "running"
  /\ \/ stream /\ a = "chunk" /\ Len(popped) + Len(q) < MaxChunks /\ UNCHANGED tpc
     \/ a \in LastAnswers(stream) /\ tpc' = "done"
  /\ SQ!Push(Task, a)
  /\ UNCHANGED <<stream, hpc, sendVars, stopped>>
-----------------------------------------------------------------------------
(* process_non_stream_res: the first answer is the response.               *)
AwaitFull ==
  /\ ~stream
  /\ Goto("respond", "full")
  /\ SQ!WaitAndPop(Handler)
  /\ UNCHANGED <<stream, tpc, sendVars, stopped>>

SendFull ==
  /\ Goto("full", "ended")
  /\ pc[Handler] = "out"
  /\ status' = StatusOf(Last(popped))
  /\ \/ Written(<<Last(popped)>>) /\ result' = "success"
     \/ NotWritten /\ result' = "write"
  /\ UNCHANGED <<queueVars, stream, tpc, data_available, ok, stopped>>
-----------------------------------------------------------------------------
(* process_stream_res only names the provider; the response, whose status  *)
(* is not set, is sent when the handler has returned.                      *)
StartStream ==
  /\ stream
  /\ Goto("respond", "loop")
  /\ status' = 200
  /\ UNCHANGED <<queueVars, stream, tpc, body, data_available, ok, result, stopped>>

(* write_content_chunked: the loop, before and after a call of the         *)
(* provider.  Mutant: a failed write is not looked for after the call.     *)
LoopEnds ==
  /\ Goto("loop", "ended")
  /\ ~data_available \/ stopped
  /\ result' = "success"
  /\ UNCHANGED <<queueVars, stream, tpc, status, body, data_available, ok, stopped>>

NotWritable ==
  /\ Goto("loop", "ended")
  /\ data_available /\ ~stopped
  /\ result' = "write"
  /\ UNCHANGED <<queueVars, stream, tpc, status, body, data_available, ok, stopped>>

CallProvider ==
  /\ Goto("loop", "provide")
  /\ data_available /\ ~stopped
  /\ UNCHANGED <<queueVars, stream, tpc, sendVars, stopped>>

ProviderReturnedAnyhow ==
  /\ Goto("returned", "loop")
  /\ UNCHANGED <<queueVars, stream, tpc, sendVars, stopped>>
ProviderReturned ==
  /\ \/ ok /\ Goto("returned", "loop") /\ UNCHANGED result
     \/ ~ok /\ Goto("returned", "ended") /\ result' = "write"
  /\ UNCHANGED <<queueVars, stream, tpc, status, body, data_available, ok, stopped>>
-----------------------------------------------------------------------------
(* The provider takes answers until the last one.                          *)
ProviderWaits ==
  /\ Goto("provide", "write")
  /\ SQ!WaitAndPop(Handler)
  /\ UNCHANGED <<stream, tpc, sendVars, stopped>>

(* sink.write, whose failure the provider ignores; once it has failed it   *)
(* does nothing.  Mutants: it does not remember a failure; the provider    *)
(* stops at is_done only.                                                  *)
SinkWrite(a, stops) ==
  /\ hpc = "write" /\ pc[Handler] = "out"
  /\ hpc' = IF a \in stops THEN "done" ELSE "provide"
  /\ \/ /\ ok
        /\ data_available' = (Data(a) # <<>>)
        /\ \/ Written(Data(a)) /\ UNCHANGED ok
           \/ Data(a) # <<>> /\ NotWritten /\ ok' = FALSE
     \/ ~ok /\ UNCHANGED <<body, data_available, ok>>
  /\ UNCHANGED <<queueVars, stream, tpc, status, result, stopped>>

ProviderWritesAgain ==
  /\ hpc = "write" /\ pc[Handler] = "out"
  /\ hpc' = IF Last(popped) \in Terminal THEN "done" ELSE "provide"
  /\ data_available' = (Data(Last(popped)) # <<>>)
  /\ Written(Data(Last(popped))) \/ NotWritten
  /\ UNCHANGED <<queueVars, stream, tpc, status, ok, result, stopped>>
ProviderStopsAtDone == SinkWrite(Last(popped), {"stop", "full"})
ProviderWrites == SinkWrite(Last(popped), Terminal)

(* sink.done writes the end of the body, in up to three pieces, and looks  *)
(* for a failure after each; nothing else happens on this thread between   *)
(* them, and the client gets all of them or a body that is torn.           *)
SinkDone ==
  /\ Goto("done", "returned")
  /\ \/ /\ ok
        /\ data_available' = FALSE
        /\ \/ Written(<<"end">>) /\ UNCHANGED ok
           \/ NotWritten /\ ok' = FALSE
     \/ ~ok /\ UNCHANGED <<body, data_available, ok>>
  /\ UNCHANGED <<queueVars, stream, tpc, status, result, stopped>>
-----------------------------------------------------------------------------
(* svr->stop(), called by main.                                            *)
Stop ==
  /\ ~stopped
  /\ stopped' = TRUE
  /\ UNCHANGED <<queueVars, stream, hpc, tpc, sendVars>>

Wakeup ==
  /\ SQ!SpuriousWakeup(Handler)
  /\ UNCHANGED <<stream, hpc, tpc, sendVars, stopped>>

InQueue(t) ==
  /\ SQ!PushStep(t) \/ SQ!PopStep(t)
  /\ UNCHANGED <<stream, hpc, tpc, sendVars, stopped>>

Handle == HandleThrows \/ HandleRefused \/ HandleAccepted

HandlerStep ==
  \/ InQueue(Handler) \/ Refused \/ AwaitFull \/ SendFull \/ StartStream
  \/ LoopEnds \/ NotWritable \/ CallProvider \/ ProviderReturned
  \/ ProviderWaits \/ ProviderWrites \/ SinkDone

TaskStep == InQueue(Task) \/ \E a \in Answers : TaskAnswers(a)

Next == Handle \/ HandlerStep \/ TaskStep \/ Stop \/ Wakeup

Spec == Init /\ [][Next]_vars

(* The handler's thread keeps running, and so does the task's once it has  *)
(* called push: it gets the mutex although the handler, woken again and    *)
(* again for nothing, may keep taking it.  Nothing says that the engine    *)
(* ever calls push.                                                        *)
FairSpec == Spec /\ WF_vars(HandlerStep) /\ SF_vars(InQueue(Task))
-----------------------------------------------------------------------------
HandlerPC == {"idle", "refusing", "respond", "full", "loop", "provide", "write",
              "done", "returned", "ended"}

(* Every variable has its type.                                            *)
TypeOK ==
  /\ SQ!TypeOK
  /\ stream \in BOOLEAN
  /\ hpc \in HandlerPC
  /\ tpc \in {"none", "running", "done"}
  /\ status \in {-1, 200, 409, 500}
  /\ body \in Seq({"chunk", "stop", "full", "failed", "refused", "torn", "end"})
  /\ data_available \in BOOLEAN
  /\ ok \in BOOLEAN
  /\ result \in {"none", "success", "write"}
  /\ stopped \in BOOLEAN

AllData == FlattenSeq([i \in DOMAIN popped |-> Data(popped[i])])
AllAnswered == popped # <<>> /\ Last(popped) \in Terminal /\ q = <<>>

(* What the client of a stream reads is the text of the answers, in order  *)
(* and without a gap; nothing follows a write that broke off; and the end  *)
(* of the body comes only after the whole text.                            *)
StreamIsFaithful ==
  stream =>
    \/ IsPrefix(body, AllData)
    \/ body # <<>> /\ Last(body) = "torn" /\ IsPrefix(Front(body), AllData)
    \/ body = AllData \o <<"end">> /\ AllAnswered

(* A body that httplib takes to have been sent is the whole answer; or it  *)
(* is empty, because the engine threw an exception or the server was       *)
(* stopped before the first call of the provider.                          *)
SentMeansWhole ==
  result = "success" =>
    \/ AllAnswered /\ body = IF stream THEN AllData \o <<"end">> ELSE popped
    \/ body = <<>> /\ (stopped \/ status = 500)

(* The handler's thread goes back to the pool, unless the engine keeps an  *)
(* accepted chat for ever: no kind of last answer, failed write or shutdown*)
(* leaves it waiting in the SyncQueue.                                     *)
HandlerEnds == []<>(tpc # "running") => (hpc # "idle" ~> hpc = "ended")
=============================================================================
