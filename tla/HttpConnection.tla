--------------------------- MODULE HttpConnection ---------------------------
(***************************************************************************)
(* One connection of the example server, as httplib serves it: the loop of *)
(* process_server_socket_core, and Server::process_request, which reads a  *)
(* request through a SocketStream of its own, has it handled and writes    *)
(* the response.  A SocketStream reads ahead; what it has read and nobody  *)
(* has asked for is lost with it.                                          *)
(*                                                                         *)
(* A request on the wire is a sequence of units <<k, part>>: the request   *)
(* line, the headers, and the parts of the body of the k-th request.  The  *)
(* client sends a request only when the one before has been answered, and  *)
(* none after an answer that says that a request could not be read, or     *)
(* that never reached it.                                                  *)
(***************************************************************************)
EXTENDS Integers, Sequences

CONSTANTS
  Kinds,       \* the requests that the client may send
  MaxRequests, \* bound: this many of them at most
  MaxCount     \* keep_alive_max_count_

(* framing: has the request a Content-Length, is it chunked, or neither?   *)
(* body: number of parts of the body.  flaw: a malformed line, a URI or a  *)
(* header line that is too long, a bad Range, an encoding the server is not*)
(* built with, a urlencoded form whose body is too long, or none.          *)
(* close: it has "Connection: close", or is an HTTP/1.0 request.           *)
ASSUME KindsAssumption ==
  Kinds \subseteq [method : {"GET", "POST", "DELETE"},
                   framing : {"none", "length", "chunked"}, body : Nat,
                   flaw : {"none", "line", "uri", "header", "range", "encoding", "form"},
                   close : BOOLEAN]
ASSUME CountAssumption == MaxRequests \in Nat /\ MaxCount \in Nat \ {0}

VARIABLES
  kinds,     \* the requests the client has begun to send
  out,       \* the units of the last one that it has not sent
  eof,       \* has it closed its end?
  wire,      \* what is sent and not read from the socket
  pc,        \* where process_request is
  buf,       \* read_buff_ of the SocketStream, from read_buff_off_ on
  req,       \* the request: 0 at first, Junk when the line begins with garbage
  got,       \* number of parts of its body read so far
  answer,    \* why there is a response
  count,     \* local of process_server_socket_core
  responses  \* the answers; one is lost when its headers cannot be written

client == <<kinds, out, eof>>
vars == <<client, wire, pc, buf, req, got, answer, count, responses>>

Junk == -1
Reading == {"line", "headers", "content"}

Init ==
  /\ kinds = <<>> /\ out = <<>> /\ eof = FALSE
  /\ wire = <<>>
  /\ pc = "keep_alive"
  /\ buf = <<>>
  /\ req = 0 /\ got = 0 /\ answer = "none"
  /\ count = MaxCount
  /\ responses = <<>>
-----------------------------------------------------------------------------
(***************************************************************************)
(* The client                                                              *)
(***************************************************************************)
Units(k, kind) ==
  <<<<k, "line">>, <<k, "headers">>>>
    \o [i \in 1..kind.body |-> <<k, "body">>]
    \o IF kind.framing = "chunked" THEN <<<<k, "last">>>> ELSE <<>>

SendRequest(kind) ==
  /\ pc # "closed" /\ ~eof
  /\ out = <<>> /\ Len(kinds) <= Len(responses) /\ Len(kinds) < MaxRequests
  /\ \A i \in DOMAIN responses : responses[i].answer = "handled"
  /\ kinds' = Append(kinds, kind)
  /\ out' = Units(Len(kinds) + 1, kind)
  /\ UNCHANGED <<eof, wire, pc, buf, req, got, answer, count, responses>>

SendUnit ==
  /\ out # <<>> /\ ~eof
  /\ wire' = Append(wire, Head(out))
  /\ out' = Tail(out)
  /\ UNCHANGED <<kinds, eof, pc, buf, req, got, answer, count, responses>>

Disconnect ==
  /\ ~eof
  /\ eof' = TRUE
  /\ UNCHANGED <<kinds, out, wire, pc, buf, req, got, answer, count, responses>>
-----------------------------------------------------------------------------
(***************************************************************************)
(* The loop around the requests                                            *)
(***************************************************************************)
(* Mutant: the requests are not counted.                                   *)
BeginUncounted ==
  /\ pc = "keep_alive" /\ (wire # <<>> \/ eof)
  /\ pc' = "line"
  /\ UNCHANGED <<client, wire, buf, req, got, answer, count, responses>>
Begin ==
  /\ pc = "keep_alive" /\ count > 0 /\ (wire # <<>> \/ eof)
  /\ pc' = "line"
  /\ UNCHANGED <<client, wire, buf, req, got, answer, count, responses>>

(* The loop has ended or nothing has come for too long.                    *)
GiveUp ==
  /\ pc = "keep_alive" /\ (count = 0 \/ wire = <<>>)
  /\ pc' = "closed"
  /\ UNCHANGED <<client, wire, buf, req, got, answer, count, responses>>
-----------------------------------------------------------------------------
(***************************************************************************)
(* SocketStream::read: an empty buffer is filled with whatever is there;   *)
(* there may be nothing for too long, or the client has closed its end.    *)
(***************************************************************************)
Fill ==
  /\ pc \in Reading /\ buf = <<>>
  /\ \E n \in 1..Len(wire) :
       /\ buf' = SubSeq(wire, 1, n)
       /\ wire' = SubSeq(wire, n + 1, Len(wire))
  /\ UNCHANGED <<client, pc, req, got, answer, count, responses>>

Read(part, to, more) ==
  /\ pc \in Reading /\ buf # <<>> /\ Head(buf)[2] = part
  /\ buf' = Tail(buf)
  /\ pc' = to
  /\ got' = got + more
  /\ UNCHANGED <<client, wire, count, responses>>

ReadFails(from, to) ==
  /\ pc = from /\ buf = <<>> /\ wire = <<>>
  /\ pc' = to
  /\ UNCHANGED <<client, wire, buf, got, count, responses>>
-----------------------------------------------------------------------------
(***************************************************************************)
(* process_request                                                         *)
(***************************************************************************)
(* The request line is parsed.  Garbage, which may end in the middle of a  *)
(* line, spoils the rest of the line.                                      *)
ReadLine ==
  /\ pc = "line"
  /\ LET k == Head(buf)[1]
         spoilt == req = Junk \/ kinds[k].flaw = "line"
     IN  /\ Read("line", IF spoilt THEN "respond" ELSE "headers", 0)
         /\ req' = k
         /\ answer' = IF spoilt THEN "malformed" ELSE answer

ReadGarbage ==
  /\ pc = "line"
  /\ \E part \in {"headers", "body", "last"} :
       \/ Read(part, "respond", 0) /\ answer' = "malformed"
       \/ Read(part, "line", 0) /\ UNCHANGED answer
  /\ req' = Junk

(* Nothing more comes in time, or nothing at all before the end.           *)
NoLine ==
  /\ ~(eof /\ req = Junk)
  /\ ReadFails("line", "closed")
  /\ UNCHANGED <<req, answer>>

(* The end of the stream ends a line of which a part has come.             *)
LineCut ==
  /\ pc = "line" /\ eof /\ buf = <<>> /\ wire = <<>>
  /\ \/ req = Junk /\ UNCHANGED <<out, req>>
     \/ out # <<>> /\ Head(out)[2] = "line" /\ out' = <<>> /\ req' = Head(out)[1]
  /\ pc' = "respond"
  /\ answer' = "malformed"
  /\ UNCHANGED <<kinds, eof, wire, buf, got, count, responses>>

(* expect_content, and the test of DELETE in read_content_core.  Mutant:   *)
(* the body of a DELETE is not read.                                       *)
request == kinds[req]
HasContentNotDelete == request.method = "POST"
HasContent ==
  \/ request.method = "POST"
  \/ request.method = "DELETE" /\ request.framing = "length"

(* The headers are read.  A flaw is found before the body is read.         *)
Flawed ==
  \/ request.flaw \in {"uri", "range"}
  \/ request.flaw = "encoding" /\ HasContent

ReadHeaders ==
  /\ pc = "headers" /\ request.flaw # "header"
  /\ Read("headers", IF Flawed THEN "respond"
                     ELSE IF HasContent THEN "content" ELSE "handle", 0)
  /\ answer' = IF ~Flawed THEN answer
               ELSE IF request.flaw = "uri" THEN "malformed" ELSE "refused"
  /\ UNCHANGED req

(* A line that is too long ends the reading in the middle of the headers,  *)
(* of which a part may still be on the wire.                               *)
HeaderTooLong ==
  /\ pc = "headers" /\ request.flaw = "header"
  /\ \/ Read("headers", "respond", 0)
     \/ /\ Len(buf) = 1 /\ Head(buf)[2] = "headers"
        /\ wire' = buf \o wire
        /\ buf' = <<>>
        /\ pc' = "respond"
        /\ UNCHANGED <<client, got, count, responses>>
  /\ answer' = "malformed"
  /\ UNCHANGED req

NoHeaders ==
  /\ ReadFails("headers", "respond")
  /\ answer' = "malformed"
  /\ UNCHANGED req

(* read_content: a body of a given length, a chunked one, or whatever      *)
(* comes until there is nothing more to read.                              *)
ReadBody ==
  /\ pc = "content"
  /\ Read("body", "content", 1)
  /\ UNCHANGED <<req, answer>>

ReadLastChunk ==
  /\ pc = "content"
  /\ Read("last", "handle", 0)
  /\ UNCHANGED <<req, answer>>

ReadWhole ==
  /\ pc = "content" /\ request.framing = "length" /\ got = request.body
  /\ pc' = "handle"
  /\ UNCHANGED <<client, wire, buf, req, got, answer, count, responses>>

NoContent ==
  /\ pc = "content" /\ request.framing # "none"
  /\ ~(request.framing = "length" /\ got = request.body)
  /\ ReadFails("content", "respond")
  /\ answer' = "refused"
  /\ UNCHANGED req

(* Mutant: a body without a length ends when the client closes its end.    *)
ReadAllAtEnd ==
  /\ pc = "content" /\ request.framing = "none" /\ eof
  /\ ReadFails("content", "handle")
  /\ UNCHANGED <<req, answer>>
ReadAll ==
  /\ pc = "content" /\ request.framing = "none"
  /\ ReadFails("content", "handle")
  /\ UNCHANGED <<req, answer>>

(* What has been read of a form is looked at for its length.               *)
FormTooLong ==
  /\ pc = "handle" /\ request.flaw = "form" /\ got > 0
  /\ pc' = "respond"
  /\ answer' = "refused"
  /\ UNCHANGED <<client, wire, buf, req, got, count, responses>>

(* The handler returns or throws; an unknown path is "404".                *)
Handle ==
  /\ pc = "handle"
  /\ ~(request.flaw = "form" /\ got > 0 /\ got = request.body)
  /\ pc' = "respond"
  /\ answer' = "handled"
  /\ UNCHANGED <<client, wire, buf, req, got, count, responses>>

(* write_response_core; the SocketStream is gone.  The request has been    *)
(* asked whether to close the connection only if its headers were read.    *)
Answer(a) ==
  /\ pc = "respond"
  /\ responses' = Append(responses, [of |-> req, answer |-> a, got |-> got])
  /\ pc' = IF answer # "malformed" /\ request.close THEN "closed" ELSE "keep_alive"
  /\ count' = count - 1
  /\ buf' = <<>> /\ req' = 0 /\ got' = 0 /\ answer' = "none"
  /\ UNCHANGED <<client, wire>>

(* SocketStream::write looks first whether the client has gone.            *)
Respond == ~(eof /\ wire = <<>>) /\ Answer(answer)

(* Nobody looks whether the headers were written: without a body, or when  *)
(* it can be written, the loop goes on.  Only an answer of a handler has   *)
(* one, and the connection ends when it cannot be written.                 *)
HeadersLost == Answer("lost")

BodyLost ==
  /\ pc = "respond" /\ answer = "handled"
  /\ pc' = "closed"
  /\ UNCHANGED <<client, wire, buf, req, got, answer, count, responses>>
-----------------------------------------------------------------------------
ServerStep ==
  \/ Begin \/ GiveUp \/ Fill
  \/ ReadLine \/ ReadGarbage \/ NoLine \/ LineCut
  \/ ReadHeaders \/ HeaderTooLong \/ NoHeaders
  \/ ReadBody \/ ReadLastChunk \/ ReadWhole \/ NoContent \/ ReadAll
  \/ FormTooLong \/ Respond \/ HeadersLost \/ BodyLost

Next ==
  \/ (\E k \in Kinds : SendRequest(k)) \/ SendUnit \/ Disconnect
  \/ ServerStep \/ Handle

Spec == Init /\ [][Next]_vars

(* The worker keeps running, and a read has its timeout: what a client     *)
(* sends here is finite.  Nothing says that a handler returns.             *)
FairSpec == Spec /\ WF_vars(ServerStep)
-----------------------------------------------------------------------------
(* Every variable has its type.                                            *)
TypeOK ==
  LET unit == (1..MaxRequests) \X {"line", "headers", "body", "last"} IN
  /\ kinds \in Seq(Kinds) /\ Len(kinds) <= MaxRequests
  /\ out \in Seq(unit) /\ wire \in Seq(unit) /\ buf \in Seq(unit)
  /\ eof \in BOOLEAN
  /\ pc \in Reading \cup {"keep_alive", "handle", "respond", "closed"}
  /\ req \in Junk..MaxRequests /\ got \in Nat
  /\ answer \in {"none", "malformed", "refused", "handled"}
  /\ count \in 0..MaxCount
  /\ responses \in Seq([of : Junk..MaxRequests, got : Nat,
                        answer : {"malformed", "refused", "handled", "lost"}])

(* The k-th response answers the k-th request, and the handler has had the *)
(* whole of its body, however the bytes arrive, as long as each request    *)
(* before was handled and left nothing on the wire.  What may be left is   *)
(* the body of a GET, or of a DELETE without a Content-Length, and one     *)
(* whose end is not told: of a POST, what has come when nothing comes for  *)
(* too long is handled as the whole of it.                                 *)
MayBeLeft(kind) ==
  \/ kind.body > 0 /\ (kind.framing = "none" \/ kind.method = "GET")
  \/ kind.framing = "chunked" /\ kind.method # "POST"

AnswersTheRequest ==
  \A k \in DOMAIN responses :
    (\A i \in 1..k - 1 : responses[i].answer = "handled" /\ ~MayBeLeft(kinds[i])) =>
      /\ responses[k].of = k
      /\ responses[k].answer = "handled" /\ ~MayBeLeft(kinds[k]) =>
           responses[k].got = kinds[k].body

(* A request that was sent is answered, and the answer written, or the     *)
(* connection is closed, if no handler is stuck.                           *)
Answered(k) == Len(responses) >= k /\ responses[k].answer # "lost"
RequestIsAnswered ==
  []<>(pc # "handle") =>
    \A k \in 1..MaxRequests :
      Len(kinds) = k /\ out = <<>> ~> Answered(k) \/ pc = "closed"
=============================================================================
