---------------------------- MODULE CortexServer ----------------------------
(***************************************************************************)
(* The example server (examples/server/server.cc with httplib.h), from the *)
(* loading of the engine to the end of the process: main and its signal    *)
(* handler, the thread that listens, and the pool's workers, each of which *)
(* serves the requests of one connection at a time.                        *)
(*                                                                         *)
(* The pool is the JobPool that ThreadPool implements; a job is to serve   *)
(* a connection.  What the engine does in a call is the matter of          *)
(* OnnxEngine; here a call needs the engine to exist, and a chat is        *)
(* answered later or not at all, an embedding never.  Of a request only the*)
(* route matters here: HttpConnection is about how it is read.             *)
(***************************************************************************)
EXTENDS Integers, Sequences

CONSTANTS
  Workers,        \* the threads of the pool
  Conns,          \* the connections that clients may open
  Routes,         \* the routes that they use
  MaxCount,       \* keep_alive_max_count_
  MaxInterrupts,  \* bound: this many SIGINT or SIGTERM come at most
  Null

AllRoutes == {"models", "chat", "embeddings", "destroy", "unknown"}
ASSUME ServerAssumption ==
  /\ Workers # {} /\ Routes \subseteq AllRoutes
  /\ MaxCount \in Nat \ {0} /\ MaxInterrupts \in Nat
  /\ Null \notin Workers \cup Conns

VARIABLES
  mpc,         \* where main is
  engine,      \* engine_: not initialised, live, or deleted
  running, is_terminating,      \* main's flags
  interrupts,  \* number of signals so far
  lpc,         \* where the thread is that runs listen_internal
  is_running, svr_sock,         \* members of httplib::Server
  open,        \* is the listening descriptor open?
  conn,        \* the connections: heard once a worker has waited for a request,
               \* dropped when closed without that
  line, doing, closed, gone,    \* the pool
  wpc,         \* where each worker is in process_and_close_socket
  route,       \* the route of its request
  count,       \* its local count
  late         \* number of its requests that came after the server was stopped

mainVars == <<engine, running, is_terminating, interrupts>>
listenVars == <<lpc, is_running, svr_sock, open>>
poolVars == <<line, doing, closed, gone>>
workVars == <<wpc, route, count, late>>
vars == <<mpc, mainVars, listenVars, conn, poolVars, workVars>>

Pool == INSTANCE JobPool WITH Jobs <- Conns

Ended == {"end", "killed", "crashed"}
Alive == mpc \notin Ended

Init ==
  /\ mpc = "construct"
  /\ engine = "none"
  /\ running = TRUE
  /\ is_terminating = FALSE
  /\ interrupts = 0
  /\ lpc = "none"
  /\ is_running = FALSE
  /\ svr_sock = "invalid"
  /\ open = FALSE
  /\ conn = [c \in Conns |-> "away"]
  /\ Pool!Init
  /\ wpc = [w \in Workers |-> "free"]
  /\ route = [w \in Workers |-> Null]
  /\ count = [w \in Workers |-> 0]
  /\ late = [w \in Workers |-> 0]

Main(from, to) == mpc = from /\ mpc' = to
-----------------------------------------------------------------------------
(***************************************************************************)
(* main                                                                    *)
(***************************************************************************)
(* Server's constructor; when the library does not load, engine_ keeps     *)
(* whatever it was.                                                        *)
Construct ==
  /\ Main("construct", "bind")
  /\ engine' \in {"none", "live"}
  /\ UNCHANGED <<running, is_terminating, interrupts, listenVars, conn, poolVars, workVars>>

Bind ==
  /\ Main("bind", "launch")
  /\ svr_sock' = "valid"
  /\ open' = TRUE
  /\ UNCHANGED <<mainVars, lpc, is_running, conn, poolVars, workVars>>

BindFails ==
  /\ Main("bind", "destruct")
  /\ UNCHANGED <<mainVars, listenVars, conn, poolVars, workVars>>

Launch ==
  /\ Main("launch", "install")
  /\ lpc' = "start"
  /\ UNCHANGED <<mainVars, is_running, svr_sock, open, conn, poolVars, workVars>>

Install ==
  /\ Main("install", "loop")
  /\ UNCHANGED <<mainVars, listenVars, conn, poolVars, workVars>>

LoopEnds ==
  /\ ~running
  /\ Main("loop", "stop")
  /\ UNCHANGED <<mainVars, listenVars, conn, poolVars, workVars>>

(* svr->stop() does nothing unless is_running_; the socket is exchanged    *)
(* and then shut down and closed.  Mutant: the accept() that waits on it is*)
(* not ended.                                                              *)
Stop ==
  /\ Main("stop", IF is_running THEN "exchange" ELSE "join")
  /\ UNCHANGED <<mainVars, listenVars, conn, poolVars, workVars>>

Exchange ==
  /\ Main("exchange", "close")
  /\ svr_sock' = "invalid"
  /\ UNCHANGED <<mainVars, lpc, is_running, open, conn, poolVars, workVars>>

CloseNothing ==
  /\ Main("close", "join")
  /\ UNCHANGED <<mainVars, listenVars, conn, poolVars, workVars>>
CloseSocket ==
  /\ Main("close", "join")
  /\ open' = FALSE
  /\ UNCHANGED <<mainVars, lpc, is_running, svr_sock, conn, poolVars, workVars>>

Join ==
  /\ lpc = "ended"
  /\ Main("join", "destruct")
  /\ UNCHANGED <<mainVars, listenVars, conn, poolVars, workVars>>

(* ~Server: engine_ is deleted unless it is null; a pointer that was never *)
(* assigned may be anything.                                               *)
Destruct ==
  /\ \/ engine = "live" /\ engine' = "deleted" /\ Main("destruct", "return")
     \/ engine = "none" /\ UNCHANGED engine
        /\ (Main("destruct", "return") \/ Main("destruct", "crashed"))
  /\ UNCHANGED <<running, is_terminating, interrupts, listenVars, conn, poolVars, workVars>>

Return ==
  /\ Main("return", "end")
  /\ UNCHANGED <<mainVars, listenVars, conn, poolVars, workVars>>

(* A signal: before the handler is installed it ends the process, and so   *)
(* does the second one that the handler gets.                              *)
Interrupt ==
  /\ Alive /\ interrupts < MaxInterrupts
  /\ interrupts' = interrupts + 1
  /\ IF is_terminating \/ mpc \in {"construct", "bind", "launch", "install"}
       THEN mpc' = "killed" /\ UNCHANGED <<running, is_terminating>>
       ELSE /\ is_terminating' = TRUE
            /\ running' = FALSE
            /\ UNCHANGED mpc
  /\ UNCHANGED <<engine, listenVars, conn, poolVars, workVars>>
-----------------------------------------------------------------------------
(***************************************************************************)
(* listen_internal, on a thread of its own                                 *)
(***************************************************************************)
Listener(from, to) == Alive /\ lpc = from /\ lpc' = to

ListenStarts ==
  /\ Listener("start", "test")
  /\ is_running' = TRUE
  /\ UNCHANGED <<mpc, mainVars, svr_sock, open, conn, poolVars, workVars>>

ListenTest ==
  /\ Listener("test", IF svr_sock = "valid" THEN "accept" ELSE "shutdown")
  /\ UNCHANGED <<mpc, mainVars, is_running, svr_sock, open, conn, poolVars, workVars>>

(* A client has connected.  On this thread nothing happens between accept  *)
(* and enqueue that others could see.                                      *)
Accept(c) ==
  /\ Listener("accept", "test")
  /\ open /\ conn[c] = "away"
  /\ conn' = [conn EXCEPT ![c] = "accepted"]
  /\ Pool!Enqueue(c)
  /\ UNCHANGED <<mpc, mainVars, is_running, svr_sock, open, workVars>>

(* accept() fails: EMFILE, EINTR and EAGAIN are tried again; for any other *)
(* reason the loop ends.                                                   *)
AcceptAgain ==
  /\ Listener("accept", "test")
  /\ UNCHANGED <<mpc, mainVars, is_running, svr_sock, open, conn, poolVars, workVars>>

AcceptFails ==
  /\ Listener("accept", IF svr_sock = "valid" THEN "closing" ELSE "shutdown")
  /\ UNCHANGED <<mpc, mainVars, is_running, svr_sock, open, conn, poolVars, workVars>>

(* Unless stop() has taken the socket the listening thread closes it; the  *)
(* two look at svr_sock_ separately, and it stays valid: while the pool is *)
(* joined a stop() shuts down and closes the same descriptor again.        *)
ListenCloses ==
  /\ Listener("closing", "shutdown")
  /\ open' = (open /\ svr_sock = "invalid")
  /\ UNCHANGED <<mpc, mainVars, is_running, svr_sock, conn, poolVars, workVars>>

PoolShutdown ==
  /\ Listener("shutdown", "join")
  /\ Pool!Close
  /\ UNCHANGED <<mpc, mainVars, is_running, svr_sock, open, conn, workVars>>

(* The end of shutdown(), which joins the workers, and of listen_internal. *)
(* Mutant: the workers are not joined.                                     *)
ListenDetaches ==
  /\ Listener("join", "ended")
  /\ is_running' = FALSE
  /\ UNCHANGED <<mpc, mainVars, svr_sock, open, conn, poolVars, workVars>>
ListenEnds ==
  /\ Listener("join", "ended")
  /\ gone = Workers
  /\ is_running' = FALSE
  /\ UNCHANGED <<mpc, mainVars, svr_sock, open, conn, poolVars, workVars>>
-----------------------------------------------------------------------------
(***************************************************************************)
(* A worker: process_server_socket_core and, within it, process_request    *)
(***************************************************************************)
Worker(w, from, to) == Alive /\ wpc[w] = from /\ wpc' = [wpc EXCEPT ![w] = to]

Begin(w) ==
  /\ Worker(w, "free", "test")
  /\ Pool!Take(w)
  /\ count' = [count EXCEPT ![w] = MaxCount]
  /\ UNCHANGED <<mpc, mainVars, listenVars, conn, route, late>>

(* The loop's test, after which the worker waits for a request.  Mutants:  *)
(* it does not look at the server's socket; it does not count.             *)
TestThat(w, goesOn) ==
  /\ Worker(w, "test", IF goesOn THEN "wait" ELSE "close")
  /\ conn' = [conn EXCEPT ![doing[w]] = IF goesOn THEN "heard" ELSE @]
  /\ UNCHANGED <<mpc, mainVars, listenVars, poolVars, route, count, late>>
TestCount(w) == TestThat(w, count[w] > 0)
TestSocket(w) == TestThat(w, svr_sock # "invalid")
Test(w) == TestThat(w, svr_sock # "invalid" /\ count[w] > 0)

(* keep_alive gives up when nothing has come by its deadline.              *)
GiveUp(w) ==
  /\ Worker(w, "wait", "close")
  /\ UNCHANGED <<mpc, mainVars, listenVars, conn, poolVars, route, count, late>>

(* Something has come (or the end of the stream): process_request reads.   *)
(* Each read has its timeout but the lines of a request have none together,*)
(* so a client can keep a worker here.                                     *)
BytesCome(w) ==
  /\ Worker(w, "wait", "read")
  /\ UNCHANGED <<mpc, mainVars, listenVars, conn, poolVars, route, count, late>>

ReadFails(w) ==
  /\ Worker(w, "read", "close")
  /\ UNCHANGED <<mpc, mainVars, listenVars, conn, poolVars, route, count, late>>

(* A request has been read; "unknown" is any that is answered without a    *)
(* handler, a malformed one too.                                           *)
Request(w, r) ==
  /\ Worker(w, "read", "handle")
  /\ route' = [route EXCEPT ![w] = r]
  /\ late' = [late EXCEPT ![w] = @ + IF svr_sock = "invalid" THEN 1 ELSE 0]
  /\ UNCHANGED <<mpc, mainVars, listenVars, conn, poolVars, count>>

(* The handlers.  Without an engine the call follows a bad pointer.        *)
(* /destroy only tells main to stop.  Mutant: it stops the server itself.  *)
CallEngine(w) ==
  /\ route[w] \in {"models", "chat", "embeddings"}
  /\ engine = "live"
  /\ Worker(w, "handle", IF route[w] = "models" THEN "respond" ELSE "answer")
  /\ UNCHANGED <<mpc, mainVars, listenVars, conn, poolVars, route, count, late>>

CallCrashes(w) ==
  /\ Alive /\ wpc[w] = "handle"
  /\ route[w] \in {"models", "chat", "embeddings"}
  /\ engine # "live"
  /\ mpc' = "crashed"
  /\ UNCHANGED <<mainVars, listenVars, conn, poolVars, workVars>>

DestroyStops(w) ==
  /\ route[w] = "destroy"
  /\ Worker(w, "handle", "respond")
  /\ running' = FALSE
  /\ svr_sock' = "invalid"
  /\ open' = FALSE
  /\ UNCHANGED <<mpc, engine, is_terminating, interrupts, lpc, is_running, conn, poolVars,
                 route, count, late>>
Destroy(w) ==
  /\ route[w] = "destroy"
  /\ Worker(w, "handle", "respond")
  /\ running' = FALSE
  /\ UNCHANGED <<mpc, engine, is_terminating, interrupts, listenVars, conn, poolVars,
                 route, count, late>>

NotFound(w) ==
  /\ route[w] = "unknown"
  /\ Worker(w, "handle", "respond")
  /\ UNCHANGED <<mpc, mainVars, listenVars, conn, poolVars, route, count, late>>

(* A chat's last answer; HandleEmbedding never calls its callback.         *)
Answered(w) ==
  /\ route[w] = "chat"
  /\ Worker(w, "answer", "respond")
  /\ UNCHANGED <<mpc, mainVars, listenVars, conn, poolVars, route, count, late>>

(* The response is written: the connection stays open, or it is closed     *)
(* since the client asked for it or the write failed.                      *)
Respond(w, to) ==
  /\ Worker(w, "respond", to)
  /\ count' = [count EXCEPT ![w] = IF to = "test" THEN @ - 1 ELSE @]
  /\ route' = [route EXCEPT ![w] = Null]
  /\ UNCHANGED <<mpc, mainVars, listenVars, conn, poolVars, late>>

Close(w) ==
  /\ Worker(w, "close", "free")
  /\ conn' = [conn EXCEPT ![doing[w]] = IF @ = "accepted" THEN "dropped" ELSE "closed"]
  /\ Pool!Finish(w)
  /\ count' = [count EXCEPT ![w] = 0]
  /\ late' = [late EXCEPT ![w] = 0]
  /\ UNCHANGED <<mpc, mainVars, listenVars, route>>

(* Mutant: a worker leaves although there are connections in the pool.     *)
LeaveAtOnce(w) ==
  /\ Worker(w, "free", "gone")
  /\ closed
  /\ gone' = gone \cup {w}
  /\ UNCHANGED <<mpc, mainVars, listenVars, conn, line, doing, closed, route, count, late>>
Leave(w) ==
  /\ Worker(w, "free", "gone")
  /\ Pool!Leave(w)
  /\ UNCHANGED <<mpc, mainVars, listenVars, conn, route, count, late>>
-----------------------------------------------------------------------------
MainStep ==
  \/ Construct \/ Bind \/ BindFails \/ Launch \/ Install \/ LoopEnds
  \/ Stop \/ Exchange \/ CloseSocket \/ Join \/ Destruct \/ Return
ListenStep == ListenStarts \/ ListenTest \/ ListenCloses \/ PoolShutdown \/ ListenEnds
AcceptStep == (\E c \in Conns : Accept(c)) \/ AcceptAgain \/ AcceptFails
WorkStep(w) ==
  \/ Begin(w) \/ Test(w) \/ GiveUp(w) \/ CallEngine(w) \/ CallCrashes(w) \/ Destroy(w)
  \/ NotFound(w) \/ (\E to \in {"test", "close"} : Respond(w, to)) \/ Close(w) \/ Leave(w)

(* What a worker gets from its client and from the engine.                 *)
Arrival(w) ==
  BytesCome(w) \/ ReadFails(w) \/ (\E r \in Routes : Request(w, r)) \/ Answered(w)

Next ==
  \/ MainStep \/ Interrupt
  \/ ListenStep \/ AcceptStep
  \/ \E w \in Workers : WorkStep(w) \/ Arrival(w)

Spec == Init /\ [][Next]_vars

(* The threads keep running, accept() returns when its socket has been     *)
(* shut down, and keep_alive has a deadline.  Nothing is assumed of the    *)
(* clients, the engine and the signals.                                    *)
FairSpec ==
  /\ Spec
  /\ WF_vars(MainStep) /\ WF_vars(ListenStep) /\ WF_vars(~open /\ AcceptFails)
  /\ \A w \in Workers : WF_vars(WorkStep(w))
-----------------------------------------------------------------------------
(* Every variable has its type.                                            *)
TypeOK ==
  /\ mpc \in {"construct", "bind", "launch", "install", "loop", "stop", "exchange",
              "close", "join", "destruct", "return"} \cup Ended
  /\ engine \in {"none", "live", "deleted"}
  /\ running \in BOOLEAN /\ is_terminating \in BOOLEAN /\ interrupts \in Nat
  /\ lpc \in {"none", "start", "test", "accept", "closing", "shutdown", "join", "ended"}
  /\ is_running \in BOOLEAN /\ svr_sock \in {"valid", "invalid"} /\ open \in BOOLEAN
  /\ conn \in [Conns -> {"away", "accepted", "heard", "closed", "dropped"}]
  /\ line \in Seq(Conns) /\ doing \in [Workers -> Conns \cup {Null}]
  /\ closed \in BOOLEAN /\ gone \subseteq Workers
  /\ wpc \in [Workers -> {"free", "test", "wait", "read", "handle", "answer", "respond",
                          "close", "gone"}]
  /\ route \in [Workers -> AllRoutes \cup {Null}]
  /\ count \in [Workers -> Nat] /\ late \in [Workers -> Nat]

(* No handler calls an engine that has been deleted, however the shutdown  *)
(* and the requests interleave: the process crashes only because no engine *)
(* was loaded.                                                             *)
EngineOutlivesHandlers == mpc = "crashed" => engine = "none"

(* The assertion in Server::stop(): a running server has its socket.       *)
StopFindsSocket == mpc = "exchange" => svr_sock = "valid"

(* Stopping the server is not drawn out by busy clients: a connection gets *)
(* at most one more answer, since the loop's test and the wait for a       *)
(* request are not one step.                                               *)
OneRequestAfterStop == \A w \in Workers : late[w] <= 1

(* Only stop() makes the server close a connection that no worker has      *)
(* waited on: one that was in the pool when accept() failed is still heard.*)
(* And a process that ends by itself has left no connection open.          *)
OnlyStopDrops ==
  /\ (\E c \in Conns : conn[c] = "dropped") => svr_sock = "invalid"
  /\ mpc = "end" => \A c \in Conns : conn[c] \notin {"accepted", "heard"}

(* Others hold no worker for ever: its client with a request that does not *)
(* end, or the engine with a chat that it does not answer.                 *)
Held(w) ==
  \/ wpc[w] = "read"
  \/ wpc[w] = "answer" /\ route[w] = "chat"
NobodyHolds == \A w \in Workers : []<>~Held(w)

(* When main stops a server that has begun to listen, the process ends,    *)
(* unless somebody holds a worker, for which shutdown() waits.             *)
StopEnds == NobodyHolds => (mpc = "stop" /\ lpc # "start" ~> mpc \in Ended)

(* However few the workers, one waits for the request of every connection  *)
(* accepted, unless somebody holds them or the server is stopped first.    *)
AcceptedIsHeard ==
  NobodyHolds =>
    \A c \in Conns :
      conn[c] = "accepted" ~> conn[c] = "heard" \/ svr_sock = "invalid" \/ ~Alive

(* A client that sends DELETE /destroy may wait for the process to end, as *)
(* CleanUp of the end-to-end test does, when nobody holds a worker.        *)
DestroyEnds == NobodyHolds => (~running ~> mpc \in Ended)
=============================================================================
