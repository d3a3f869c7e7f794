------------------------ MODULE CortexServer_proofs -------------------------
(***************************************************************************)
(* Theorems about CortexServer, for any number of workers, of connections  *)
(* and of signals.                                                         *)
(***************************************************************************)
EXTENDS CortexServer, TLAPS

(* A worker has a connection as long as it is in process_and_close_socket, *)
(* and has left when it has left the pool.                                 *)
WorkersInPool ==
  \A w \in Workers :
    /\ doing[w] = Null <=> wpc[w] \in {"free", "gone"}
    /\ w \in gone <=> wpc[w] = "gone"
    /\ wpc[w] \in {"wait", "read", "handle", "answer", "respond"} => count[w] > 0

(* A worker that has not read a request since its test is not late yet.    *)
LateOnce ==
  \A w \in Workers :
    /\ late[w] <= 1
    /\ wpc[w] \in {"free", "wait", "read", "gone"} \/ svr_sock = "valid" => late[w] = 0

(* The pool is shut down at the end of listen_internal, after which no     *)
(* connection comes; no worker leaves before the line is empty.            *)
PoolCloses ==
  /\ closed <=> lpc \in {"join", "ended"}
  /\ gone # {} => closed /\ line = <<>>
  /\ lpc = "ended" => gone = Workers

(* Whatever was accepted is in the line or has a worker until it is closed.*)
InLine(c) == \E i \in 1..Len(line) : line[i] = c
AcceptedInPool ==
  \A c \in Conns :
    conn[c] \in {"accepted", "heard"} => InLine(c) \/ \E w \in Workers : doing[w] = c

(* What is in the pool has been accepted.                                  *)
PoolHasAccepted ==
  /\ \A i \in 1..Len(line) : conn[line[i]] # "away"
  /\ \A w \in Workers : doing[w] # Null => conn[doing[w]] # "away"

(* Where a worker serves a connection, it is not waiting to be heard: a    *)
(* worker gets there, or to the end of its count, only by way of a test    *)
(* that marks it, and closes one unmarked only once the socket is taken.   *)
MarkedHeard ==
  /\ \A w \in Workers :
       /\ wpc[w] \in {"wait", "read", "handle", "answer", "respond"} => conn[doing[w]] # "accepted"
       /\ wpc[w] = "test" => conn[doing[w]] # "accepted" \/ count[w] > 0
       /\ wpc[w] = "close" => conn[doing[w]] # "accepted" \/ svr_sock = "invalid"
  /\ \A c \in Conns : conn[c] = "dropped" => svr_sock = "invalid"

(* Before the listening thread starts there is no connection.              *)
NothingBefore ==
  lpc = "none" =>
    /\ line = <<>>
    /\ \A w \in Workers : wpc[w] = "free"
    /\ \A c \in Conns : conn[c] = "away"

(* How main's place, the listening thread and the engine go together.      *)
MainOrder ==
  /\ mpc \in {"construct", "bind", "launch"} => lpc = "none"
  /\ mpc \in {"launch", "install", "loop", "stop", "exchange"} => svr_sock = "valid"
  /\ mpc \in {"destruct", "return", "end"} => lpc \in {"none", "ended"}
  /\ engine = "deleted" => mpc \in {"return"} \cup Ended /\ lpc \in {"none", "ended"}

(* The inductive invariant.                                                *)
ServerInv ==
  /\ TypeOK /\ WorkersInPool /\ LateOnce /\ PoolCloses
  /\ AcceptedInPool /\ PoolHasAccepted /\ MarkedHeard
  /\ NothingBefore /\ MainOrder /\ EngineOutlivesHandlers

-----------------------------------------------------------------------------
LEMMA InitServerInv == Init => ServerInv
<1> SUFFICES ASSUME Init PROVE ServerInv
  OBVIOUS
<1> USE DEF Init, Pool!Init
<1>1. TypeOK
  <2>1. /\ running \in BOOLEAN /\ is_terminating \in BOOLEAN /\ is_running \in BOOLEAN
        /\ open \in BOOLEAN /\ closed \in BOOLEAN
    OBVIOUS
  <2>2. /\ mpc = "construct" /\ engine = "none" /\ interrupts \in Nat /\ lpc = "none"
        /\ svr_sock = "invalid"
    OBVIOUS
  <2>3. /\ line \in Seq(Conns) /\ doing \in [Workers -> Conns \cup {Null}]
        /\ gone \subseteq Workers /\ route \in [Workers -> AllRoutes \cup {Null}]
        /\ count \in [Workers -> Nat] /\ late \in [Workers -> Nat]
    OBVIOUS
  <2>4. /\ conn \in [Conns -> {"away", "accepted", "heard", "closed", "dropped"}]
        /\ wpc \in [Workers -> {"free", "test", "wait", "read", "handle", "answer", "respond",
                                "close", "gone"}]
    OBVIOUS
  <2> QED BY <2>1, <2>2, <2>3, <2>4 DEF TypeOK
<1>2. WorkersInPool /\ LateOnce /\ NothingBefore /\ AcceptedInPool
  BY DEF WorkersInPool, LateOnce, NothingBefore, AcceptedInPool
<1>3. PoolCloses /\ MainOrder /\ EngineOutlivesHandlers
  BY DEF PoolCloses, MainOrder, EngineOutlivesHandlers
<1>4. PoolHasAccepted /\ MarkedHeard
  BY DEF PoolHasAccepted, MarkedHeard
<1> QED BY <1>1, <1>2, <1>3, <1>4 DEF ServerInv

(* What the pool holds and how far its connections are, in steps that      *)
(* change nothing of it.                                                   *)
LEMMA PoolStays ==
  ASSUME AcceptedInPool, PoolHasAccepted, UNCHANGED <<conn, line, doing>>
  PROVE  (AcceptedInPool /\ PoolHasAccepted)'
<1>1. \A c \in Conns : InLine(c)' <=> InLine(c)
  BY DEF InLine
<1>2. AcceptedInPool'
  BY <1>1 DEF AcceptedInPool
<1>3. PoolHasAccepted'
  BY DEF PoolHasAccepted
<1> QED BY <1>2, <1>3

LEMMA MarksStay ==
  ASSUME MarkedHeard, UNCHANGED <<conn, doing, wpc, count>>, svr_sock' \in {svr_sock, "invalid"}
  PROVE  MarkedHeard'
BY DEF MarkedHeard

(* A step of main leaves the connections, the pool and the workers alone,  *)
(* and but for its own place and the engine most of the rest.              *)
LEMMA MainStays ==
  ASSUME ServerInv, UNCHANGED <<lpc, conn, poolVars, workVars>>,
         svr_sock' \in {svr_sock, "invalid"}, TypeOK', MainOrder', EngineOutlivesHandlers'
  PROVE  ServerInv'
<1> USE DEF poolVars, workVars
<1>1. WorkersInPool'
  BY DEF ServerInv, WorkersInPool
<1>2. LateOnce'
  BY DEF ServerInv, LateOnce
<1>3. (PoolCloses /\ NothingBefore)'
  BY DEF ServerInv, PoolCloses, NothingBefore
<1>4. (AcceptedInPool /\ PoolHasAccepted /\ MarkedHeard)'
  BY PoolStays, MarksStay DEF ServerInv
<1> QED BY <1>1, <1>2, <1>3, <1>4 DEF ServerInv

(* Two steps that change more: the server's socket is made, and the thread *)
(* that listens is started.                                                *)
LEMMA BindKeeps ==
  ASSUME ServerInv, Bind
  PROVE  ServerInv'
<1> USE DEF Bind, Main, mainVars, poolVars, workVars
<1>1. TypeOK' /\ MainOrder' /\ EngineOutlivesHandlers'
  BY DEF ServerInv, TypeOK, MainOrder, EngineOutlivesHandlers, Ended
<1>2. LateOnce'
  BY DEF ServerInv, MainOrder, NothingBefore, LateOnce
<1>3. (WorkersInPool /\ PoolCloses /\ NothingBefore)'
  BY DEF ServerInv, WorkersInPool, PoolCloses, NothingBefore
<1>4. (AcceptedInPool /\ PoolHasAccepted)'
  BY PoolStays DEF ServerInv
<1>5. MarkedHeard'
  BY DEF ServerInv, MainOrder, NothingBefore, MarkedHeard
<1> QED BY <1>1, <1>2, <1>3, <1>4, <1>5 DEF ServerInv

LEMMA LaunchKeeps ==
  ASSUME ServerInv, Launch
  PROVE  ServerInv'
<1> USE DEF Launch, Main, mainVars, poolVars, workVars
<1>1. TypeOK' /\ MainOrder' /\ EngineOutlivesHandlers'
  BY DEF ServerInv, TypeOK, MainOrder, EngineOutlivesHandlers, Ended
<1>2. (WorkersInPool /\ LateOnce)'
  BY DEF ServerInv, WorkersInPool, LateOnce
<1>3. PoolCloses'
  BY DEF ServerInv, MainOrder, PoolCloses
<1>4. (AcceptedInPool /\ PoolHasAccepted /\ MarkedHeard)'
  BY PoolStays, MarksStay DEF ServerInv
<1>5. NothingBefore'
  BY DEF NothingBefore
<1> QED BY <1>1, <1>2, <1>3, <1>4, <1>5 DEF ServerInv

(* The steps of main.                                                      *)
LEMMA MainKeeps ==
  ASSUME ServerInv, MainStep
  PROVE  ServerInv'
<1>1. CASE Construct
  <2>1. UNCHANGED <<lpc, conn, poolVars, workVars>> /\ svr_sock' \in {svr_sock, "invalid"}
    BY <1>1 DEF Construct, listenVars
  <2>2. TypeOK' /\ MainOrder' /\ EngineOutlivesHandlers'
    BY <1>1 DEF Construct, Main, mainVars, listenVars, poolVars, workVars, Ended,
       ServerInv, TypeOK, MainOrder, EngineOutlivesHandlers
  <2> QED BY <2>1, <2>2, MainStays
<1>2. CASE BindFails
  <2>1. UNCHANGED <<lpc, conn, poolVars, workVars>> /\ svr_sock' \in {svr_sock, "invalid"}
    BY <1>2 DEF BindFails, listenVars
  <2>2. TypeOK' /\ MainOrder' /\ EngineOutlivesHandlers'
    BY <1>2 DEF BindFails, Main, mainVars, listenVars, poolVars, workVars, Ended,
       ServerInv, TypeOK, MainOrder, EngineOutlivesHandlers
  <2> QED BY <2>1, <2>2, MainStays
<1>3. CASE Install
  <2>1. UNCHANGED <<lpc, conn, poolVars, workVars>> /\ svr_sock' \in {svr_sock, "invalid"}
    BY <1>3 DEF Install, listenVars
  <2>2. TypeOK' /\ MainOrder' /\ EngineOutlivesHandlers'
    BY <1>3 DEF Install, Main, mainVars, listenVars, poolVars, workVars, Ended,
       ServerInv, TypeOK, MainOrder, EngineOutlivesHandlers
  <2> QED BY <2>1, <2>2, MainStays
<1>4. CASE LoopEnds
  <2>1. UNCHANGED <<lpc, conn, poolVars, workVars>> /\ svr_sock' \in {svr_sock, "invalid"}
    BY <1>4 DEF LoopEnds, listenVars
  <2>2. TypeOK' /\ MainOrder' /\ EngineOutlivesHandlers'
    BY <1>4 DEF LoopEnds, Main, mainVars, listenVars, poolVars, workVars, Ended,
       ServerInv, TypeOK, MainOrder, EngineOutlivesHandlers
  <2> QED BY <2>1, <2>2, MainStays
<1>5. CASE Stop
  <2>1. UNCHANGED <<lpc, conn, poolVars, workVars>> /\ svr_sock' \in {svr_sock, "invalid"}
    BY <1>5 DEF Stop, listenVars
  <2>2. TypeOK' /\ MainOrder' /\ EngineOutlivesHandlers'
    BY <1>5 DEF Stop, Main, mainVars, listenVars, poolVars, workVars, Ended,
       ServerInv, TypeOK, MainOrder, EngineOutlivesHandlers
  <2> QED BY <2>1, <2>2, MainStays
<1>6. CASE Exchange
  <2>1. UNCHANGED <<lpc, conn, poolVars, workVars>> /\ svr_sock' \in {svr_sock, "invalid"}
    BY <1>6 DEF Exchange, listenVars
  <2>2. TypeOK' /\ MainOrder' /\ EngineOutlivesHandlers'
    BY <1>6 DEF Exchange, Main, mainVars, listenVars, poolVars, workVars, Ended,
       ServerInv, TypeOK, MainOrder, EngineOutlivesHandlers
  <2> QED BY <2>1, <2>2, MainStays
<1>7. CASE CloseSocket
  <2>1. UNCHANGED <<lpc, conn, poolVars, workVars>> /\ svr_sock' \in {svr_sock, "invalid"}
    BY <1>7 DEF CloseSocket, listenVars
  <2>2. TypeOK' /\ MainOrder' /\ EngineOutlivesHandlers'
    BY <1>7 DEF CloseSocket, Main, mainVars, listenVars, poolVars, workVars, Ended,
       ServerInv, TypeOK, MainOrder, EngineOutlivesHandlers
  <2> QED BY <2>1, <2>2, MainStays
<1>8. CASE Join
  <2>1. UNCHANGED <<lpc, conn, poolVars, workVars>> /\ svr_sock' \in {svr_sock, "invalid"}
    BY <1>8 DEF Join, listenVars
  <2>2. TypeOK' /\ MainOrder' /\ EngineOutlivesHandlers'
    BY <1>8 DEF Join, Main, mainVars, listenVars, poolVars, workVars, Ended,
       ServerInv, TypeOK, MainOrder, EngineOutlivesHandlers
  <2> QED BY <2>1, <2>2, MainStays
<1>9. CASE Destruct
  <2>1. UNCHANGED <<lpc, conn, poolVars, workVars>> /\ svr_sock' \in {svr_sock, "invalid"}
    BY <1>9 DEF Destruct, listenVars
  <2>2. TypeOK' /\ MainOrder' /\ EngineOutlivesHandlers'
    BY <1>9 DEF Destruct, Main, mainVars, listenVars, poolVars, workVars, Ended,
       ServerInv, TypeOK, MainOrder, EngineOutlivesHandlers
  <2> QED BY <2>1, <2>2, MainStays
<1>10. CASE Return
  <2>1. UNCHANGED <<lpc, conn, poolVars, workVars>> /\ svr_sock' \in {svr_sock, "invalid"}
    BY <1>10 DEF Return, listenVars
  <2>2. TypeOK' /\ MainOrder' /\ EngineOutlivesHandlers'
    BY <1>10 DEF Return, Main, mainVars, listenVars, poolVars, workVars, Ended,
       ServerInv, TypeOK, MainOrder, EngineOutlivesHandlers
  <2> QED BY <2>1, <2>2, MainStays
<1> QED
  BY <1>1, <1>2, <1>3, <1>4, <1>5, <1>6, <1>7, <1>8, <1>9, <1>10, BindKeeps, LaunchKeeps
     DEF MainStep

LEMMA InterruptKeeps ==
  ASSUME ServerInv, Interrupt
  PROVE  ServerInv'
<1> USE DEF Interrupt, Alive, Ended, listenVars, poolVars, workVars
<1>1. TypeOK'
  <2>1. running' \in BOOLEAN /\ is_terminating' \in BOOLEAN
    BY DEF ServerInv, TypeOK
  <2>2. mpc' \in {mpc, "killed"}
    OBVIOUS
  <2>3. interrupts' \in Nat
    BY DEF ServerInv, TypeOK
  <2> QED BY <2>1, <2>2, <2>3 DEF ServerInv, TypeOK
<1>2. (WorkersInPool /\ LateOnce /\ PoolCloses)'
  BY DEF ServerInv, WorkersInPool, LateOnce, PoolCloses
<1>4. (AcceptedInPool /\ PoolHasAccepted /\ MarkedHeard)'
  BY PoolStays, MarksStay DEF ServerInv
<1>3. (NothingBefore /\ MainOrder /\ EngineOutlivesHandlers)'
  BY DEF ServerInv, NothingBefore, MainOrder, EngineOutlivesHandlers
<1> QED BY <1>1, <1>2, <1>3, <1>4 DEF ServerInv

(* A step of the listening thread that neither accepts nor closes the pool.*)
LEMMA ListenStays ==
  ASSUME ServerInv, NEW from \in {"start", "test", "accept", "closing", "join"},
         NEW to \in {"test", "accept", "closing", "shutdown", "ended"}, Listener(from, to),
         from = "join" <=> to = "ended", to = "ended" => gone = Workers,
         is_running' \in BOOLEAN, open' \in BOOLEAN,
         UNCHANGED <<mpc, mainVars, svr_sock, conn, poolVars, workVars>>
  PROVE  ServerInv'
<1> USE DEF Listener, mainVars, poolVars, workVars
<1>1. TypeOK'
  BY DEF ServerInv, TypeOK
<1>2. (WorkersInPool /\ LateOnce)'
  BY DEF ServerInv, WorkersInPool, LateOnce
<1>3. PoolCloses'
  BY DEF ServerInv, PoolCloses
<1>4. (AcceptedInPool /\ PoolHasAccepted /\ MarkedHeard)'
  BY PoolStays, MarksStay DEF ServerInv
<1>5. NothingBefore'
  BY DEF NothingBefore
<1>6. MainOrder' /\ EngineOutlivesHandlers'
  BY DEF ServerInv, MainOrder, EngineOutlivesHandlers, Alive, Ended
<1> QED BY <1>1, <1>2, <1>3, <1>4, <1>5, <1>6 DEF ServerInv

LEMMA AcceptKeeps ==
  ASSUME ServerInv, NEW c \in Conns, Accept(c)
  PROVE  ServerInv'
<1> USE DEF Accept, Pool!Enqueue, Listener, mainVars, workVars
<1>1. TypeOK'
  BY DEF ServerInv, TypeOK
<1>2. (WorkersInPool /\ LateOnce)'
  BY DEF ServerInv, WorkersInPool, LateOnce
<1>3. PoolCloses'
  BY DEF ServerInv, PoolCloses
<1>4. AcceptedInPool'
  <2>1. line' = Append(line, c) /\ line \in Seq(Conns)
    BY DEF ServerInv, TypeOK
  <2>2. \A d \in Conns : InLine(d) => InLine(d)'
    BY <2>1 DEF InLine
  <2>3. InLine(c)'
    BY <2>1 DEF InLine
  <2>4. ASSUME NEW d \in Conns, conn'[d] \in {"accepted", "heard"}, d # c
         PROVE  InLine(d)' \/ \E w \in Workers : doing'[w] = d
    <3>1. conn'[d] = conn[d]
      BY <2>4 DEF ServerInv, TypeOK
    <3> QED BY <2>2, <2>4, <3>1 DEF ServerInv, AcceptedInPool
  <2> QED BY <2>3, <2>4 DEF AcceptedInPool
<1>7. PoolHasAccepted'
  <2>1. conn' = [conn EXCEPT ![c] = "accepted"] /\ UNCHANGED doing
        /\ conn \in [Conns -> {"away", "accepted", "heard", "closed", "dropped"}]
    BY DEF ServerInv, TypeOK, poolVars
  <2>2. \A d \in Conns : conn[d] # "away" => conn'[d] # "away"
    BY <2>1
  <2>3. \A w \in Workers : doing'[w] # Null => conn'[doing'[w]] # "away"
    BY <2>1, <2>2 DEF ServerInv, TypeOK, PoolHasAccepted
  <2>4. ASSUME NEW i \in 1..Len(line')
        PROVE  conn'[line'[i]] # "away"
    <3>1. line' = Append(line, c) /\ line \in Seq(Conns)
      BY DEF ServerInv, TypeOK
    <3>2. CASE i = Len(line) + 1
      BY <2>1, <3>1, <3>2
    <3>3. CASE i \in 1..Len(line)
      BY <2>2, <3>1, <3>3 DEF ServerInv, PoolHasAccepted
    <3> QED BY <3>1, <3>2, <3>3
  <2> QED BY <2>3, <2>4 DEF PoolHasAccepted
<1>8. MarkedHeard'
  <2>1. conn' = [conn EXCEPT ![c] = "accepted"] /\ conn[c] = "away"
        /\ conn \in [Conns -> {"away", "accepted", "heard", "closed", "dropped"}]
        /\ UNCHANGED <<doing, wpc, count, svr_sock>>
    BY DEF ServerInv, TypeOK
  <2>2. \A w \in Workers : doing[w] # Null => conn'[doing[w]] = conn[doing[w]]
    BY <2>1 DEF ServerInv, TypeOK, PoolHasAccepted
  <2>3. \A d \in Conns : conn'[d] = "dropped" => conn[d] = "dropped"
    BY <2>1
  <2> QED BY <2>1, <2>2, <2>3 DEF ServerInv, MarkedHeard, WorkersInPool
<1>5. NothingBefore'
  BY DEF NothingBefore
<1>6. MainOrder' /\ EngineOutlivesHandlers'
  BY DEF ServerInv, MainOrder, EngineOutlivesHandlers, Alive, Ended
<1> QED BY <1>1, <1>2, <1>3, <1>4, <1>5, <1>6, <1>7, <1>8 DEF ServerInv

LEMMA PoolShutdownKeeps ==
  ASSUME ServerInv, PoolShutdown
  PROVE  ServerInv'
<1> USE DEF PoolShutdown, Pool!Close, Listener, mainVars, workVars
<1>1. TypeOK'
  BY DEF ServerInv, TypeOK
<1>2. (WorkersInPool /\ LateOnce)'
  BY DEF ServerInv, WorkersInPool, LateOnce
<1>3. PoolCloses'
  BY DEF ServerInv, PoolCloses
<1>4. (AcceptedInPool /\ PoolHasAccepted /\ MarkedHeard)'
  BY PoolStays, MarksStay DEF ServerInv
<1>5. NothingBefore'
  BY DEF NothingBefore
<1>6. MainOrder' /\ EngineOutlivesHandlers'
  BY DEF ServerInv, MainOrder, EngineOutlivesHandlers, Alive, Ended
<1> QED BY <1>1, <1>2, <1>3, <1>4, <1>5, <1>6 DEF ServerInv

(* The steps of the thread that listens.                                   *)
LEMMA ListenKeeps ==
  ASSUME ServerInv, ListenStep \/ AcceptStep
  PROVE  ServerInv'
<1>0. is_running \in BOOLEAN /\ open \in BOOLEAN
  BY DEF ServerInv, TypeOK
<1>1. CASE ListenStarts
  BY <1>0, <1>1, ListenStays DEF ListenStarts
<1>2. CASE ListenTest
  <2>1. CASE svr_sock = "valid"
    BY <1>0, <1>2, <2>1, ListenStays DEF ListenTest
  <2>2. CASE svr_sock # "valid"
    BY <1>0, <1>2, <2>2, ListenStays DEF ListenTest
  <2> QED BY <2>1, <2>2
<1>3. CASE AcceptAgain
  BY <1>0, <1>3, ListenStays DEF AcceptAgain
<1>4. CASE AcceptFails
  <2>1. CASE svr_sock = "valid"
    BY <1>0, <1>4, <2>1, ListenStays DEF AcceptFails
  <2>2. CASE svr_sock # "valid"
    BY <1>0, <1>4, <2>2, ListenStays DEF AcceptFails
  <2> QED BY <2>1, <2>2
<1>6. CASE ListenCloses
  <2>1. open' \in BOOLEAN
    BY <1>0, <1>6, Zenon DEF ListenCloses
  <2> QED BY <1>0, <1>6, <2>1, ListenStays DEF ListenCloses
<1>5. CASE ListenEnds
  BY <1>0, <1>5, ListenStays DEF ListenEnds
<1> QED
  BY <1>1, <1>2, <1>3, <1>4, <1>5, <1>6, AcceptKeeps, PoolShutdownKeeps
     DEF ListenStep, AcceptStep

(* A step of a worker that leaves the pool alone.                          *)
Busy == {"test", "wait", "read", "handle", "answer", "respond", "close"}
Serving == {"wait", "read", "handle", "answer", "respond"}

(* One that marks its connection, or leaves the marks alone.               *)
Marked(w) == [conn EXCEPT ![doing[w]] = "heard"]

LEMMA MarkKeeps ==
  ASSUME ServerInv, NEW w \in Workers, doing[w] # Null, conn' \in {conn, Marked(w)},
         UNCHANGED <<line, doing>>
  PROVE  /\ conn' \in [Conns -> {"away", "accepted", "heard", "closed", "dropped"}]
         /\ (AcceptedInPool /\ PoolHasAccepted)'
         /\ \A c \in Conns : /\ conn[c] # "accepted" => conn'[c] # "accepted"
                             /\ conn'[c] = "dropped" => conn[c] = "dropped"
<1>1. doing[w] \in Conns /\ conn[doing[w]] # "away"
      /\ conn \in [Conns -> {"away", "accepted", "heard", "closed", "dropped"}]
  BY DEF ServerInv, TypeOK, PoolHasAccepted
<1>2. CASE conn' = conn
  BY <1>1, <1>2, PoolStays DEF ServerInv
<1>3. CASE conn' = Marked(w)
  <2>1. /\ conn' \in [Conns -> {"away", "accepted", "heard", "closed", "dropped"}]
        /\ \A c \in Conns : /\ conn'[c] = IF c = doing[w] THEN "heard" ELSE conn[c]
                            /\ conn[c] # "away" => conn'[c] # "away"
    BY <1>1, <1>3 DEF Marked
  <2>2. \A c \in Conns : InLine(c)' <=> InLine(c)
    BY DEF InLine
  <2>3. AcceptedInPool'
    BY <1>1, <2>1, <2>2 DEF ServerInv, AcceptedInPool
  <2>4. line \in Seq(Conns) /\ doing \in [Workers -> Conns \cup {Null}]
    BY DEF ServerInv, TypeOK
  <2>5. PoolHasAccepted'
    BY <2>1, <2>4 DEF ServerInv, PoolHasAccepted
  <2> QED BY <2>1, <2>3, <2>5
<1> QED BY <1>2, <1>3

LEMMA WorkerStays ==
  ASSUME ServerInv, NEW w \in Workers,
         NEW from \in Busy, NEW to \in Busy, Worker(w, from, to),
         UNCHANGED <<mpc, engine, is_terminating, interrupts, listenVars, poolVars>>,
         conn' \in {conn, Marked(w)}, to \in Serving \cup {"test"} => conn'[doing[w]] # "accepted",
         to = "close" => conn[doing[w]] # "accepted" \/ svr_sock = "invalid",
         running' \in BOOLEAN,
         route' \in [Workers -> AllRoutes \cup {Null}],
         NEW n \in Nat, count' = [count EXCEPT ![w] = n], to \in Serving => n > 0,
         NEW m \in 0..1, late' = [late EXCEPT ![w] = m],
         to \in {"wait", "read"} \/ svr_sock = "valid" => m = 0
  PROVE  ServerInv'
<1> USE DEF Worker, listenVars, poolVars, Busy
<1>0. doing[w] # Null
  BY DEF ServerInv, WorkersInPool
<1>1. /\ conn' \in [Conns -> {"away", "accepted", "heard", "closed", "dropped"}]
      /\ (AcceptedInPool /\ PoolHasAccepted)'
      /\ \A c \in Conns : /\ conn[c] # "accepted" => conn'[c] # "accepted"
                          /\ conn'[c] = "dropped" => conn[c] = "dropped"
  BY <1>0, MarkKeeps
<1>2. TypeOK'
  BY <1>1 DEF ServerInv, TypeOK
<1>3. WorkersInPool'
  BY DEF ServerInv, TypeOK, WorkersInPool, Serving
<1>4. LateOnce'
  BY DEF ServerInv, TypeOK, LateOnce
<1>5. PoolCloses'
  BY DEF ServerInv, PoolCloses
<1>6. NothingBefore'
  BY DEF ServerInv, NothingBefore
<1>7. MainOrder' /\ EngineOutlivesHandlers'
  BY DEF ServerInv, MainOrder, EngineOutlivesHandlers
<1>8. MarkedHeard'
  <2>1. /\ doing \in [Workers -> Conns \cup {Null}] /\ count \in [Workers -> Nat]
        /\ wpc \in [Workers -> {"free", "test", "wait", "read", "handle", "answer", "respond",
                                "close", "gone"}]
    BY DEF ServerInv, TypeOK
  <2>2. ASSUME NEW v \in Workers, v # w
        PROVE  /\ wpc'[v] = wpc[v] /\ count'[v] = count[v]
               /\ wpc[v] \notin {"free", "gone"} => doing[v] \in Conns
    BY <2>1, <2>2 DEF ServerInv, WorkersInPool
  <2>3. wpc'[w] = to /\ count'[w] = n /\ doing[w] \in Conns
    BY <1>0, <2>1
  <2>4. ASSUME NEW v \in Workers
        PROVE  /\ wpc'[v] \in Serving => conn'[doing[v]] # "accepted"
               /\ wpc'[v] = "test" => conn'[doing[v]] # "accepted" \/ count'[v] > 0
               /\ wpc'[v] = "close" => conn'[doing[v]] # "accepted" \/ svr_sock = "invalid"
    <3>1. CASE v = w
      BY <1>1, <2>3, <3>1
    <3>2. CASE v # w
      BY <1>1, <2>2, <3>2 DEF ServerInv, MarkedHeard, Serving
    <3> QED BY <3>1, <3>2
  <2>5. \A c \in Conns : conn'[c] = "dropped" => svr_sock = "invalid"
    BY <1>1 DEF ServerInv, MarkedHeard
  <2> QED BY <2>4, <2>5 DEF MarkedHeard, Serving
<1> QED BY <1>1, <1>2, <1>3, <1>4, <1>5, <1>6, <1>7, <1>8 DEF ServerInv

(* The same, for the steps of a worker that serves, which change neither   *)
(* of its two counters.                                                    *)
LEMMA WorkerMoves ==
  ASSUME ServerInv, NEW w \in Workers,
         NEW from \in Serving, NEW to \in Busy \ {"test", "wait"}, Worker(w, from, to),
         to = "read" => from = "wait",
         UNCHANGED <<mpc, engine, is_terminating, interrupts, listenVars, conn, poolVars,
                     route, count, late>>,
         running' \in BOOLEAN
  PROVE  ServerInv'
<1>1. /\ count' = [count EXCEPT ![w] = count[w]] /\ count[w] \in Nat
      /\ late' = [late EXCEPT ![w] = late[w]] /\ late[w] \in Nat
      /\ route' \in [Workers -> AllRoutes \cup {Null}]
  BY DEF ServerInv, TypeOK
<1>2. count[w] > 0 /\ conn[doing[w]] # "accepted"
  BY DEF ServerInv, WorkersInPool, MarkedHeard, Worker, Serving
<1>3. late[w] \in 0..1 /\ (to \in {"wait", "read"} \/ svr_sock = "valid" => late[w] = 0)
  BY <1>1 DEF ServerInv, LateOnce, Worker
<1>4. from \in Busy /\ to \in Busy
  BY DEF Serving, Busy
<1> QED BY <1>1, <1>2, <1>3, <1>4, WorkerStays DEF poolVars

LEMMA TestKeeps ==
  ASSUME ServerInv, NEW w \in Workers, Test(w)
  PROVE  ServerInv'
<1> USE DEF Busy, Serving
<1>1. /\ running' \in BOOLEAN /\ count[w] \in Nat /\ late[w] \in 0..1
      /\ svr_sock \in {"valid", "invalid"}
      /\ route' \in [Workers -> AllRoutes \cup {Null}]
      /\ count' = [count EXCEPT ![w] = count[w]] /\ late' = [late EXCEPT ![w] = late[w]]
      /\ (svr_sock = "valid" => late[w] = 0)
  BY DEF Test, TestThat, mainVars, ServerInv, TypeOK, LateOnce
<1>2. /\ doing[w] \in Conns
      /\ conn \in [Conns -> {"away", "accepted", "heard", "closed", "dropped"}]
      /\ conn[doing[w]] # "accepted" \/ count[w] > 0
  BY DEF Test, TestThat, Worker, ServerInv, TypeOK, WorkersInPool, MarkedHeard
<1>3. UNCHANGED <<mpc, engine, is_terminating, interrupts, listenVars, poolVars>>
  BY DEF Test, TestThat, mainVars
<1>4. CASE svr_sock # "invalid" /\ count[w] > 0
  <2>1. Worker(w, "test", "wait") /\ conn' = Marked(w)
    BY <1>4 DEF Test, TestThat, Marked
  <2>2. conn'[doing[w]] # "accepted"
    BY <1>2, <2>1 DEF Marked
  <2> QED BY <1>1, <1>3, <1>4, <2>1, <2>2, WorkerStays
<1>5. CASE ~(svr_sock # "invalid" /\ count[w] > 0)
  <2>1. Worker(w, "test", "close") /\ conn' = conn
    BY <1>2, <1>5 DEF Test, TestThat
  <2> QED BY <1>1, <1>2, <1>3, <1>5, <2>1, WorkerStays
<1> QED BY <1>4, <1>5

LEMMA WorkerStaysKeeps ==
  ASSUME ServerInv, NEW w \in Workers,
         \/ GiveUp(w) \/ CallEngine(w) \/ Destroy(w) \/ NotFound(w)
         \/ (\E to \in {"test", "close"} : Respond(w, to)) \/ Arrival(w)
  PROVE  ServerInv'
<1> USE DEF Busy, Serving
<1>0. running \in BOOLEAN /\ count[w] \in Nat /\ late[w] \in Nat
      /\ svr_sock \in {"valid", "invalid"}
  BY DEF ServerInv, TypeOK
<1>1. CASE BytesCome(w) \/ ReadFails(w)
  <2>1. CASE BytesCome(w)
    BY <1>0, <2>1, WorkerMoves DEF BytesCome, mainVars
  <2>2. CASE ReadFails(w)
    BY <1>0, <2>2, WorkerMoves DEF ReadFails, mainVars
  <2> QED BY <1>1, <2>1, <2>2
<1>2. CASE GiveUp(w)
  BY <1>0, <1>2, WorkerMoves DEF GiveUp, mainVars
<1>3. CASE CallEngine(w)
  <2>1. CASE route[w] = "models"
    BY <1>0, <1>3, <2>1, WorkerMoves DEF CallEngine, mainVars
  <2>2. CASE route[w] # "models"
    BY <1>0, <1>3, <2>2, WorkerMoves DEF CallEngine, mainVars
  <2> QED BY <2>1, <2>2
<1>4. CASE Destroy(w)
  BY <1>4, WorkerMoves DEF Destroy
<1>5. CASE NotFound(w)
  BY <1>0, <1>5, WorkerMoves DEF NotFound, mainVars
<1>6. CASE Answered(w)
  BY <1>0, <1>6, WorkerMoves DEF Answered, mainVars
<1>7. ASSUME NEW to \in {"test", "close"}, Respond(w, to)
      PROVE  ServerInv'
  <2>1. count[w] > 0 /\ conn[doing[w]] # "accepted"
    BY <1>7 DEF Respond, Worker, ServerInv, WorkersInPool, MarkedHeard
  <2> DEFINE n == IF to = "test" THEN count[w] - 1 ELSE count[w]
  <2>2. n \in Nat /\ count' = [count EXCEPT ![w] = n]
    BY <1>0, <1>7, <2>1 DEF Respond
  <2>3. route' \in [Workers -> AllRoutes \cup {Null}]
    BY <1>7 DEF Respond, ServerInv, TypeOK
  <2>4. late' = [late EXCEPT ![w] = late[w]]
    BY <1>7 DEF Respond, ServerInv, TypeOK
  <2>5. late[w] \in 0..1 /\ (svr_sock = "valid" => late[w] = 0)
    BY <1>0 DEF ServerInv, LateOnce
  <2>6. /\ Worker(w, "respond", to)
        /\ UNCHANGED <<mpc, engine, running, is_terminating, interrupts, listenVars, conn, poolVars>>
    BY <1>7 DEF Respond, mainVars
  <2> HIDE DEF n
  <2> QED BY <1>0, <2>1, <2>2, <2>3, <2>4, <2>5, <2>6, WorkerStays
<1>8. ASSUME NEW r \in Routes, Request(w, r)
      PROVE  ServerInv'
  <2>1. count[w] > 0 /\ late[w] = 0 /\ conn[doing[w]] # "accepted"
    BY <1>8 DEF Request, Worker, ServerInv, WorkersInPool, LateOnce, MarkedHeard
  <2>2. route' \in [Workers -> AllRoutes \cup {Null}]
    BY <1>8, ServerAssumption DEF Request, ServerInv, TypeOK
  <2>3. count' = [count EXCEPT ![w] = count[w]]
    BY <1>8 DEF Request, ServerInv, TypeOK
  <2> DEFINE m == IF svr_sock = "invalid" THEN 1 ELSE 0
  <2>4. late' = [late EXCEPT ![w] = m] /\ m \in 0..1 /\ (svr_sock = "valid" => m = 0)
    BY <1>8, <2>1 DEF Request
  <2>5. /\ Worker(w, "read", "handle")
        /\ UNCHANGED <<mpc, engine, running, is_terminating, interrupts, listenVars, conn, poolVars>>
    BY <1>8 DEF Request, mainVars
  <2> HIDE DEF m
  <2> QED BY <1>0, <2>1, <2>2, <2>3, <2>4, <2>5, WorkerStays
<1> QED BY <1>1, <1>2, <1>3, <1>4, <1>5, <1>6, <1>7, <1>8 DEF Arrival

(* A worker that takes or closes a connection, or leaves.                  *)
LEMMA BeginKeeps ==
  ASSUME ServerInv, NEW w \in Workers, Begin(w)
  PROVE  ServerInv'
<1> USE DEF Begin, Pool!Take, Worker, mainVars, listenVars
<1>1. /\ line # <<>> /\ line \in Seq(Conns) /\ line' = Tail(line)
      /\ doing' = [doing EXCEPT ![w] = Head(line)] /\ doing[w] = Null
      /\ doing \in [Workers -> Conns \cup {Null}]
  BY DEF ServerInv, TypeOK
<1>2. Head(line) \in Conns /\ Head(line) # Null /\ Tail(line) \in Seq(Conns)
  BY <1>1, ServerAssumption
<1>3. TypeOK'
  BY <1>1, <1>2, ServerAssumption DEF ServerInv, TypeOK
<1>4. WorkersInPool'
  BY <1>1, <1>2, ServerAssumption DEF ServerInv, TypeOK, WorkersInPool
<1>5. LateOnce'
  BY DEF ServerInv, TypeOK, LateOnce
<1>6. PoolCloses'
  BY <1>1 DEF ServerInv, PoolCloses
<1>7. AcceptedInPool'
  <2>1. ASSUME NEW c \in Conns, InLine(c)
        PROVE  InLine(c)' \/ doing'[w] = c
    <3>1. PICK i \in 1..Len(line) : line[i] = c
      BY <2>1 DEF InLine
    <3>2. CASE i = 1
      BY <1>1, <3>1, <3>2
    <3>3. CASE i # 1
      <4>1. i - 1 \in 1..Len(line') /\ line'[i - 1] = c
        BY <1>1, <3>1, <3>3
      <4> QED BY <4>1 DEF InLine
    <3> QED BY <3>2, <3>3
  <2>2. ASSUME NEW c \in Conns, NEW v \in Workers, doing[v] = c
        PROVE  doing'[v] = c
    BY <1>1, <2>2, ServerAssumption
  <2> QED BY <2>1, <2>2 DEF ServerInv, AcceptedInPool
<1>10. PoolHasAccepted'
  <2>1. \A i \in 1..Len(line') : i + 1 \in 1..Len(line) /\ line'[i] = line[i + 1]
    BY <1>1
  <2>2. conn[Head(line)] # "away"
    BY <1>1 DEF ServerInv, PoolHasAccepted
  <2> QED BY <1>1, <2>1, <2>2 DEF ServerInv, PoolHasAccepted
<1>11. MarkedHeard'
  <2>1. /\ wpc' = [wpc EXCEPT ![w] = "test"] /\ count' = [count EXCEPT ![w] = MaxCount]
        /\ UNCHANGED <<conn, svr_sock>> /\ MaxCount > 0
    BY ServerAssumption
  <2>2. count \in [Workers -> Nat]
        /\ wpc \in [Workers -> {"free", "test", "wait", "read", "handle", "answer", "respond",
                                "close", "gone"}]
    BY DEF ServerInv, TypeOK
  <2>3. \A v \in Workers : v # w => UNCHANGED <<wpc[v], count[v], doing[v]>>
    BY <1>1, <2>1, <2>2
  <2> QED BY <2>1, <2>2, <2>3 DEF ServerInv, MarkedHeard
<1>8. NothingBefore'
  BY <1>1 DEF ServerInv, NothingBefore
<1>9. MainOrder' /\ EngineOutlivesHandlers'
  BY DEF ServerInv, MainOrder, EngineOutlivesHandlers
<1> QED BY <1>3, <1>4, <1>5, <1>6, <1>7, <1>8, <1>9, <1>10, <1>11 DEF ServerInv

LEMMA CloseKeeps ==
  ASSUME ServerInv, NEW w \in Workers, Close(w)
  PROVE  ServerInv'
<1> USE DEF Close, Pool!Finish, Worker, mainVars, listenVars
<1>0. /\ doing[w] \in Conns /\ conn[doing[w]] # "away"
      /\ conn \in [Conns -> {"away", "accepted", "heard", "closed", "dropped"}]
      /\ doing \in [Workers -> Conns \cup {Null}]
  BY DEF ServerInv, TypeOK, WorkersInPool, PoolHasAccepted
<1> DEFINE end == IF conn[doing[w]] = "accepted" THEN "dropped" ELSE "closed"
<1>10. /\ conn' = [conn EXCEPT ![doing[w]] = end] /\ end \in {"dropped", "closed"}
       /\ end = "dropped" => svr_sock = "invalid"
  BY DEF ServerInv, MarkedHeard
<1> HIDE DEF end
<1>11. \A c \in Conns : conn'[c] = IF c = doing[w] THEN end ELSE conn[c]
  BY <1>0, <1>10
<1>1. TypeOK'
  BY <1>10 DEF ServerInv, TypeOK
<1>2. WorkersInPool'
  BY ServerAssumption DEF ServerInv, TypeOK, WorkersInPool
<1>3. LateOnce'
  BY DEF ServerInv, TypeOK, LateOnce
<1>4. PoolCloses'
  BY DEF ServerInv, PoolCloses
<1>5. AcceptedInPool'
  <2> SUFFICES ASSUME NEW c \in Conns, conn'[c] \in {"accepted", "heard"}
               PROVE  InLine(c)' \/ \E v \in Workers : doing'[v] = c
    BY DEF AcceptedInPool
  <2>1. conn[c] \in {"accepted", "heard"} /\ doing[w] # c
    BY <1>10, <1>11
  <2>2. InLine(c)' <=> InLine(c)
    BY DEF InLine
  <2>3. \A v \in Workers : doing[v] = c => doing'[v] = c
    BY <2>1 DEF ServerInv, TypeOK
  <2> QED BY <2>1, <2>2, <2>3 DEF ServerInv, AcceptedInPool
<1>8. PoolHasAccepted'
  <2>1. line \in Seq(Conns) /\ UNCHANGED line /\ doing' = [doing EXCEPT ![w] = Null]
    BY DEF ServerInv, TypeOK
  <2>2. \A c \in Conns : conn[c] # "away" => conn'[c] # "away"
    BY <1>10, <1>11
  <2>3. \A v \in Workers : doing'[v] # Null => doing[v] # Null /\ doing'[v] = doing[v]
    BY <1>0, <2>1
  <2> QED BY <1>0, <2>1, <2>2, <2>3 DEF ServerInv, PoolHasAccepted
<1>9. MarkedHeard'
  <2>1. \A c \in Conns : /\ conn[c] # "accepted" => conn'[c] # "accepted"
                         /\ conn'[c] = "dropped" => conn[c] = "dropped" \/ svr_sock = "invalid"
    BY <1>10, <1>11
  <2>2. /\ wpc' = [wpc EXCEPT ![w] = "free"] /\ count' = [count EXCEPT ![w] = 0]
        /\ doing' = [doing EXCEPT ![w] = Null] /\ UNCHANGED svr_sock
    OBVIOUS
  <2>3. count \in [Workers -> Nat]
        /\ wpc \in [Workers -> {"free", "test", "wait", "read", "handle", "answer", "respond",
                                "close", "gone"}]
    BY DEF ServerInv, TypeOK
  <2>4. wpc'[w] = "free" /\ \A v \in Workers : v # w => UNCHANGED <<wpc[v], count[v], doing[v]>>
    BY <1>0, <2>2, <2>3
  <2>5. \A v \in Workers : wpc[v] \notin {"free", "gone"} => doing[v] \in Conns
    BY <1>0 DEF ServerInv, WorkersInPool
  <2> QED BY <2>1, <2>2, <2>4, <2>5 DEF ServerInv, MarkedHeard
<1>6. NothingBefore'
  BY DEF ServerInv, NothingBefore
<1>7. MainOrder' /\ EngineOutlivesHandlers'
  BY DEF ServerInv, MainOrder, EngineOutlivesHandlers
<1> QED BY <1>1, <1>2, <1>3, <1>4, <1>5, <1>6, <1>7, <1>8, <1>9 DEF ServerInv

LEMMA LeaveKeeps ==
  ASSUME ServerInv, NEW w \in Workers, Leave(w)
  PROVE  ServerInv'
<1> USE DEF Leave, Pool!Leave, Worker, mainVars, listenVars
<1>1. TypeOK'
  BY DEF ServerInv, TypeOK
<1>2. WorkersInPool'
  BY DEF ServerInv, TypeOK, WorkersInPool
<1>3. LateOnce'
  BY DEF ServerInv, TypeOK, LateOnce
<1>4. PoolCloses'
  BY DEF ServerInv, TypeOK, PoolCloses
<1>5. (AcceptedInPool /\ PoolHasAccepted)'
  BY PoolStays DEF ServerInv
<1>8. MarkedHeard'
  BY DEF ServerInv, TypeOK, MarkedHeard
<1>6. NothingBefore'
  BY DEF ServerInv, NothingBefore, PoolCloses
<1>7. MainOrder' /\ EngineOutlivesHandlers'
  BY DEF ServerInv, MainOrder, EngineOutlivesHandlers
<1> QED BY <1>1, <1>2, <1>3, <1>4, <1>5, <1>6, <1>7, <1>8 DEF ServerInv

(* A handler runs only while its engine has not been deleted: the pool is  *)
(* joined before main goes on to delete it.                                *)
LEMMA CallCrashesKeeps ==
  ASSUME ServerInv, NEW w \in Workers, CallCrashes(w)
  PROVE  ServerInv'
<1> USE DEF CallCrashes, mainVars, listenVars, poolVars, workVars
<1>1. doing[w] # Null /\ wpc[w] = "handle"
  BY DEF ServerInv, WorkersInPool
<1>2. w \notin gone
  BY <1>1 DEF ServerInv, WorkersInPool
<1>3. lpc \notin {"none", "ended"}
  BY <1>1, <1>2 DEF ServerInv, NothingBefore, PoolCloses
<1>4. engine = "none" /\ mpc' = "crashed"
  BY <1>3 DEF ServerInv, MainOrder, TypeOK
<1>5. TypeOK'
  BY <1>4 DEF ServerInv, TypeOK, Ended
<1>6. (WorkersInPool /\ LateOnce /\ PoolCloses)'
  BY DEF ServerInv, WorkersInPool, LateOnce, PoolCloses
<1>8. (AcceptedInPool /\ PoolHasAccepted /\ MarkedHeard)'
  BY PoolStays, MarksStay DEF ServerInv
<1>7. (NothingBefore /\ MainOrder /\ EngineOutlivesHandlers)'
  BY <1>4 DEF ServerInv, NothingBefore, MainOrder, EngineOutlivesHandlers
<1> QED BY <1>5, <1>6, <1>7, <1>8 DEF ServerInv

LEMMA NextKeeps == ServerInv /\ [Next]_vars => ServerInv'
<1>1. ServerInv /\ UNCHANGED vars => ServerInv'
  <2> SUFFICES ASSUME ServerInv, UNCHANGED vars PROVE ServerInv'
    OBVIOUS
  <2> USE DEF vars, mainVars, listenVars, poolVars, workVars
  <2>1. (TypeOK /\ WorkersInPool /\ LateOnce /\ PoolCloses)'
    BY DEF ServerInv, TypeOK, WorkersInPool, LateOnce, PoolCloses
  <2>2. (AcceptedInPool /\ PoolHasAccepted /\ MarkedHeard)'
    BY PoolStays, MarksStay DEF ServerInv
  <2>3. (NothingBefore /\ MainOrder /\ EngineOutlivesHandlers)'
    BY DEF ServerInv, NothingBefore, MainOrder, EngineOutlivesHandlers
  <2> QED BY <2>1, <2>2, <2>3 DEF ServerInv
<1> QED
  BY <1>1, MainKeeps, InterruptKeeps, ListenKeeps, WorkerStaysKeeps, TestKeeps, BeginKeeps,
     CloseKeeps, LeaveKeeps, CallCrashesKeeps DEF Next, WorkStep
-----------------------------------------------------------------------------
(* The types are as declared.                                              *)
THEOREM TypeCorrect == Spec => []TypeOK
<1>1. ServerInv => TypeOK
  BY DEF ServerInv
<1> QED BY <1>1, InitServerInv, NextKeeps, PTL DEF Spec

(* ~Server deletes the engine when no handler can call it any more.        *)
THEOREM NoCallAfterDeletion == Spec => []EngineOutlivesHandlers
<1>1. ServerInv => EngineOutlivesHandlers
  BY DEF ServerInv
<1> QED BY <1>1, InitServerInv, NextKeeps, PTL DEF Spec

(* The assertion in Server::stop() never fails.                            *)
THEOREM StopAssertion == Spec => []StopFindsSocket
<1>1. ServerInv => StopFindsSocket
  BY DEF ServerInv, MainOrder, StopFindsSocket
<1> QED BY <1>1, InitServerInv, NextKeeps, PTL DEF Spec

(* After svr->stop() a connection gets at most one more answer.            *)
THEOREM StopIsPrompt == Spec => []OneRequestAfterStop
<1>1. ServerInv => OneRequestAfterStop
  BY DEF ServerInv, LateOnce, OneRequestAfterStop
<1> QED BY <1>1, InitServerInv, NextKeeps, PTL DEF Spec

(* Every accepted connection gets a worker that waits for its request, or  *)
(* is dropped because stop() has taken the socket; none is left open.      *)
THEOREM DroppedByStopOnly == Spec => []OnlyStopDrops
<1>1. ServerInv => OnlyStopDrops
  <2> SUFFICES ASSUME ServerInv, mpc = "end", NEW c \in Conns, conn[c] \in {"accepted", "heard"}
               PROVE  FALSE
    BY DEF OnlyStopDrops, ServerInv, MarkedHeard
  <2>1. lpc = "ended"
    BY DEF ServerInv, MainOrder, NothingBefore
  <2>2. gone = Workers /\ line = <<>>
    BY <2>1, ServerAssumption DEF ServerInv, PoolCloses
  <2>3. \A w \in Workers : doing[w] = Null
    BY <2>2 DEF ServerInv, WorkersInPool
  <2>4. ~InLine(c)
    BY <2>2 DEF InLine
  <2> QED BY <2>3, <2>4, ServerAssumption DEF ServerInv, AcceptedInPool
<1> QED BY <1>1, InitServerInv, NextKeeps, PTL DEF Spec
-----------------------------------------------------------------------------
(* The pool's actions are conjuncts of the server's, with their guards,    *)
(* which the code does not test: the server never meets a guard that is    *)
(* false.  Nothing is enqueued after shutdown(), a worker that asks for a  *)
(* job has none, and one that closes a connection has it.                  *)
PoolIsReady ==
  /\ lpc = "accept" => ~closed
  /\ \A w \in Workers :
       /\ wpc[w] = "free" => doing[w] = Null /\ w \notin gone
       /\ wpc[w] = "close" => doing[w] \in Conns

THEOREM PoolNeverRefuses == Spec => []PoolIsReady
<1>1. ServerInv => PoolIsReady
  BY DEF ServerInv, PoolIsReady, PoolCloses, WorkersInPool, TypeOK
<1> QED BY <1>1, InitServerInv, NextKeeps, PTL DEF Spec
=============================================================================
