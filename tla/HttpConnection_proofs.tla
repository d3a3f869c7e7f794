----------------------- MODULE HttpConnection_proofs -----------------------
(***************************************************************************)
(* Proofs about HttpConnection: the variables keep their types, and the    *)
(* k-th response answers the k-th request with the whole of its body.      *)
(***************************************************************************)
EXTENDS HttpConnection, SequenceTheorems, TLAPS

Unit == (1..MaxRequests) \X {"line", "headers", "body", "last"}

(***************************************************************************)
(* What is known at each place of process_request.                         *)
(***************************************************************************)
Places ==
  /\ pc \in Reading \cup {"handle", "respond"} => count > 0
  /\ pc = "respond" => answer # "none"
  /\ pc \in Reading \cup {"keep_alive", "handle"} => answer = "none"
  /\ pc \in {"keep_alive", "line", "headers"} => got = 0
  /\ pc = "keep_alive" => buf = <<>> /\ req = 0

TypeInv == TypeOK /\ Places
-----------------------------------------------------------------------------
LEMMA JoinedThree ==
  ASSUME NEW S, NEW s \in Seq(S), NEW t \in Seq(S), NEW u \in Seq(S)
  PROVE  /\ s \o t \o u \in Seq(S)
         /\ Len(s \o t \o u) = Len(s) + Len(t) + Len(u)
         /\ \A i \in 1..Len(s) : (s \o t \o u)[i] = s[i]
         /\ \A i \in 1..Len(t) : (s \o t \o u)[Len(s) + i] = t[i]
         /\ \A i \in 1..Len(u) : (s \o t \o u)[Len(s) + Len(t) + i] = u[i]
  OBVIOUS

LEMMA UnitsShape ==
  ASSUME NEW kind \in Kinds, NEW k \in 1..MaxRequests
  PROVE  /\ Units(k, kind) \in Seq(Unit)
         /\ Len(Units(k, kind)) =
              2 + kind.body + IF kind.framing = "chunked" THEN 1 ELSE 0
         /\ Units(k, kind)[1] = <<k, "line">>
         /\ Units(k, kind)[2] = <<k, "headers">>
         /\ \A i \in 1..kind.body : Units(k, kind)[2 + i] = <<k, "body">>
         /\ kind.framing = "chunked" => Units(k, kind)[3 + kind.body] = <<k, "last">>
<1>1. kind.body \in Nat
  BY KindsAssumption
<1>2. /\ <<k, "line">> \in Unit /\ <<k, "headers">> \in Unit
      /\ <<k, "body">> \in Unit /\ <<k, "last">> \in Unit
  BY DEF Unit
<1>3. PICK start \in Seq(Unit) :
        /\ start = <<<<k, "line">>, <<k, "headers">>>> /\ Len(start) = 2
        /\ start[1] = <<k, "line">> /\ start[2] = <<k, "headers">>
  <2>1. <<<<k, "line">>, <<k, "headers">>>> \in Seq(Unit)
    BY <1>2
  <2> QED
    BY <2>1
<1>4. PICK parts \in Seq(Unit) :
        /\ parts = [i \in 1..kind.body |-> <<k, "body">>] /\ Len(parts) = kind.body
        /\ \A i \in 1..kind.body : parts[i] = <<k, "body">>
  <2> DEFINE parts == [i \in 1..kind.body |-> <<k, "body">>]
  <2>1. parts \in [1..kind.body -> Unit]
    BY <1>2
  <2>2. parts \in Seq(Unit)
    BY <1>1, <2>1, SeqDef
  <2>3. Len(parts) = kind.body
    BY <1>1, <2>1, <2>2
  <2> QED
    BY <2>2, <2>3
<1>5. PICK end \in Seq(Unit) :
        /\ end = IF kind.framing = "chunked" THEN <<<<k, "last">>>> ELSE <<>>
        /\ Len(end) = IF kind.framing = "chunked" THEN 1 ELSE 0
        /\ kind.framing = "chunked" => end[1] = <<k, "last">>
  <2>1. <<<<k, "last">>>> \in Seq(Unit) /\ <<>> \in Seq(Unit)
    BY <1>2
  <2> QED
    BY <2>1
<1>6. Units(k, kind) = start \o parts \o end
  BY <1>3, <1>4, <1>5 DEF Units
<1>7. /\ Units(k, kind) \in Seq(Unit)
      /\ Len(Units(k, kind)) = Len(start) + Len(parts) + Len(end)
      /\ \A i \in 1..Len(start) : Units(k, kind)[i] = start[i]
      /\ \A i \in 1..Len(parts) : Units(k, kind)[Len(start) + i] = parts[i]
      /\ \A i \in 1..Len(end) : Units(k, kind)[Len(start) + Len(parts) + i] = end[i]
  BY <1>6, JoinedThree
<1>8. Len(Units(k, kind)) = 2 + kind.body + IF kind.framing = "chunked" THEN 1 ELSE 0
  BY <1>1, <1>3, <1>4, <1>5, <1>7
<1>9. \A i \in 1..kind.body : Units(k, kind)[2 + i] = <<k, "body">>
  BY <1>1, <1>3, <1>4, <1>7
<1>10. kind.framing = "chunked" => Units(k, kind)[3 + kind.body] = <<k, "last">>
  <2> SUFFICES ASSUME kind.framing = "chunked"
               PROVE  Units(k, kind)[3 + kind.body] = <<k, "last">>
    OBVIOUS
  <2>1. 1 \in 1..Len(end) /\ end[1] = <<k, "last">>
    BY <1>5
  <2>2. Units(k, kind)[Len(start) + Len(parts) + 1] = end[1]
    BY <1>7, <2>1
  <2> QED
    BY <1>1, <1>3, <1>4, <2>1, <2>2
<1>11. Units(k, kind)[1] = <<k, "line">> /\ Units(k, kind)[2] = <<k, "headers">>
  BY <1>3, <1>7
<1> QED
  BY <1>7, <1>8, <1>9, <1>10, <1>11

LEMMA JoinedHead ==
  \A s, t, u \in Seq(Unit) : s # <<>> => Head(s \o t \o u) = Head(s)
<1> SUFFICES ASSUME NEW s \in Seq(Unit), NEW t \in Seq(Unit), NEW u \in Seq(Unit),
                    s # <<>>
             PROVE  Head(s \o t \o u) = Head(s)
  BY Zenon
<1>1. Len(s) \in Nat \ {0} /\ Len(t) \in Nat /\ Len(u) \in Nat
  BY EmptySeq, LenProperties
<1>2. /\ Len(s \o t \o u) = Len(s) + Len(t) + Len(u)
      /\ (s \o t \o u)[1] = s[1]
  BY <1>1, JoinedThree
<1> QED
  BY <1>1, <1>2

LEMMA JoinedTail ==
  \A s, t, u \in Seq(Unit) :
    s # <<>> => Tail(s \o t \o u) = Tail(s) \o t \o u
<1> SUFFICES ASSUME NEW s \in Seq(Unit), NEW t \in Seq(Unit), NEW u \in Seq(Unit),
                    s # <<>>
             PROVE  Tail(s \o t \o u) = Tail(s) \o t \o u
  BY Zenon
<1> DEFINE tu == t \o u
<1>1. tu \in Seq(Unit) /\ s \o t \o u = s \o tu
  BY ConcatAssociative, ConcatProperties
<1>2. Tail(s) \in Seq(Unit) /\ Tail(s) \o t \o u = Tail(s) \o tu
  BY HeadTailProperties, ConcatAssociative
<1> HIDE DEF tu
<1>3. Tail(s \o tu) = Tail(s) \o tu
  <2>1. /\ Tail(s \o tu) \in Seq(Unit)
        /\ Len(Tail(s \o tu)) = Len(s) + Len(tu) - 1
        /\ \A i \in 1..Len(s) + Len(tu) - 1 : Tail(s \o tu)[i] = (s \o tu)[i + 1]
    BY <1>1
  <2>2. /\ Tail(s) \o tu \in Seq(Unit)
        /\ Len(Tail(s) \o tu) = Len(s) + Len(tu) - 1
    BY <1>1
  <2>3. \A i \in 1..Len(s) + Len(tu) - 1 : (Tail(s) \o tu)[i] = (s \o tu)[i + 1]
    BY <1>1, <2>2
  <2> QED
    BY <2>1, <2>2, <2>3, SeqEqual
<1> QED
  BY <1>1, <1>2, <1>3

LEMMA JoinedMove ==
  \A s, t, u \in Seq(Unit) :
    u # <<>> => s \o Append(t, Head(u)) \o Tail(u) = s \o t \o u
<1> SUFFICES ASSUME NEW s \in Seq(Unit), NEW t \in Seq(Unit), NEW u \in Seq(Unit),
                    u # <<>>
             PROVE  s \o Append(t, Head(u)) \o Tail(u) = s \o t \o u
  BY Zenon
<1> DEFINE x == Head(u)
           y == Tail(u)
           a == Append(t, x)
<1>1. /\ Len(s) \in Nat /\ Len(t) \in Nat /\ Len(u) \in Nat \ {0}
      /\ x \in Unit /\ y \in Seq(Unit) /\ Len(y) = Len(u) - 1
      /\ u[1] = x /\ \A i \in 1..Len(y) : y[i] = u[i + 1]
  BY HeadTailProperties, EmptySeq, LenProperties
<1> HIDE DEF x, y
<1>2. /\ a \in Seq(Unit) /\ Len(a) = Len(t) + 1 /\ a[Len(t) + 1] = x
      /\ \A i \in 1..Len(t) : a[i] = t[i]
  BY <1>1, AppendProperties
<1> HIDE DEF a
<1> DEFINE l == s \o a \o y
           r == s \o t \o u
<1>3. /\ l \in Seq(Unit) /\ Len(l) = Len(s) + Len(a) + Len(y)
      /\ \A i \in 1..Len(s) : l[i] = s[i]
      /\ \A i \in 1..Len(a) : l[Len(s) + i] = a[i]
      /\ \A i \in 1..Len(y) : l[Len(s) + Len(a) + i] = y[i]
  <2>1. a \in Seq(Unit) /\ y \in Seq(Unit)
    BY <1>1, <1>2
  <2> QED
    BY <2>1
<1>4. /\ r \in Seq(Unit) /\ Len(r) = Len(s) + Len(t) + Len(u)
      /\ \A i \in 1..Len(s) : r[i] = s[i]
      /\ \A i \in 1..Len(t) : r[Len(s) + i] = t[i]
      /\ \A i \in 1..Len(u) : r[Len(s) + Len(t) + i] = u[i]
  BY JoinedThree
<1> HIDE DEF l, r
<1>5. Len(l) = Len(r)
  BY <1>1, <1>2, <1>3, <1>4
<1>6. ASSUME NEW i \in 1..Len(r)
      PROVE  l[i] = r[i]
  <2>0. Len(r) \in Nat /\ Len(r) = Len(s) + Len(t) + Len(y) + 1
    BY <1>1, <1>4
  <2>1. CASE i <= Len(s)
    BY <2>0, <2>1, <1>1, <1>3, <1>4
  <2>2. CASE i > Len(s) /\ i <= Len(s) + Len(t)
    <3> DEFINE j == i - Len(s)
    <3>1. j \in 1..Len(t) /\ i = Len(s) + j
      BY <2>0, <2>2, <1>1
    <3> HIDE DEF j
    <3>2. l[i] = a[j]
      BY <3>1, <1>1, <1>2, <1>3
    <3> QED
      BY <3>1, <3>2, <1>2, <1>4
  <2>3. CASE i = Len(s) + Len(t) + 1
    <3>1. l[Len(s) + (Len(t) + 1)] = a[Len(t) + 1]
      BY <1>1, <1>2, <1>3
    <3>2. r[Len(s) + Len(t) + 1] = u[1]
      BY <1>1, <1>4
    <3> QED
      BY <2>3, <3>1, <3>2, <1>1, <1>2
  <2>4. CASE i > Len(s) + Len(t) + 1
    <3> DEFINE j == i - Len(s) - Len(t) - 1
    <3>1. j \in 1..Len(y) /\ i = Len(s) + Len(a) + j /\ i = Len(s) + Len(t) + (j + 1)
      BY <2>0, <2>4, <1>1, <1>2
    <3> HIDE DEF j
    <3>2. l[i] = y[j]
      BY <3>1, <1>3
    <3>3. j + 1 \in 1..Len(u)
      BY <3>1, <1>1
    <3>4. r[i] = u[j + 1]
      BY <3>1, <3>3, <1>4
    <3> QED
      BY <1>1, <3>1, <3>2, <3>4
  <2>5. i \in Int /\ Len(s) \in Int /\ Len(t) \in Int
    BY <2>0, <1>1
  <2> QED
    BY <2>1, <2>2, <2>3, <2>4, <2>5
<1>7. l = r
  BY <1>3, <1>4, <1>5, <1>6, SeqEqual
<1> QED
  BY <1>7 DEF l, r, a, x, y
-----------------------------------------------------------------------------
LEMMA UnitsType ==
  ASSUME NEW kind \in Kinds, NEW k \in 1..MaxRequests
  PROVE  Units(k, kind) \in Seq(Unit)
  BY UnitsShape

LEMMA TypeInit == Init => TypeInv
<1> SUFFICES ASSUME Init PROVE TypeInv
  OBVIOUS
<1>1. MaxRequests \in Nat /\ MaxCount \in Nat \ {0}
  BY CountAssumption
<1>2. TypeOK
  <2>1. /\ kinds \in Seq(Kinds) /\ Len(kinds) <= MaxRequests
        /\ req \in Junk..MaxRequests /\ got \in Nat /\ count \in 0..MaxCount
    BY <1>1 DEF Init, Junk
  <2>2. /\ out \in Seq(Unit) /\ wire \in Seq(Unit) /\ buf \in Seq(Unit)
        /\ responses \in Seq([of : Junk..MaxRequests, got : Nat,
                              answer : {"malformed", "refused", "handled", "lost"}])
    BY DEF Init
  <2>3. /\ eof \in BOOLEAN /\ answer \in {"none", "malformed", "refused", "handled"}
        /\ pc \in Reading \cup {"keep_alive", "handle", "respond", "closed"}
    BY DEF Init
  <2> QED
    BY <2>1, <2>2, <2>3 DEF TypeOK, Unit
<1>3. Places
  BY <1>1 DEF Init, Places, Reading
<1> QED
  BY <1>2, <1>3 DEF TypeInv

LEMMA TypeNext == TypeInv /\ [Next]_vars => TypeInv'
<1> SUFFICES ASSUME TypeInv, [Next]_vars PROVE TypeInv'
  OBVIOUS
<1> USE DEF TypeInv, Places, Reading
<1> DEFINE Unread == <<kinds, out, eof, wire, buf, responses>>
<1>1. ASSUME NEW kind \in Kinds, SendRequest(kind) PROVE TypeInv'
  <2>1. Len(kinds) + 1 \in 1..MaxRequests
    BY <1>1, CountAssumption DEF SendRequest, TypeOK
  <2>2. out' \in Seq(Unit)
    BY <1>1, <2>1, UnitsType DEF SendRequest
  <2>3. kinds' \in Seq(Kinds) /\ Len(kinds') <= MaxRequests
    BY <1>1, <2>1 DEF SendRequest, TypeOK
  <2> QED
    BY <1>1, <2>2, <2>3 DEF SendRequest, TypeOK, Unit
<1>2. CASE SendUnit
  BY <1>2 DEF SendUnit, TypeOK, Unit
<1>3. CASE Disconnect
  BY <1>3 DEF Disconnect, TypeOK
<1>4. CASE Begin
  BY <1>4 DEF Begin, TypeOK, client
<1>5. CASE GiveUp
  BY <1>5 DEF GiveUp, TypeOK, client
<1>6. CASE Fill
  <2>1. PICK n \in 1..Len(wire) :
          /\ buf' = SubSeq(wire, 1, n)
          /\ wire' = SubSeq(wire, n + 1, Len(wire))
    BY <1>6 DEF Fill
  <2>2. wire' \in Seq(Unit) /\ buf' \in Seq(Unit)
    BY <2>1 DEF TypeOK, Unit
  <2> QED
    BY <1>6, <2>2 DEF Fill, TypeOK, client, Unit
<1>7. ASSUME NEW part, NEW to, NEW more \in {0, 1}, Read(part, to, more)
      PROVE  /\ UNCHANGED <<kinds, out, eof, wire, count, responses>>
             /\ buf' \in Seq(Unit) /\ got' \in Nat /\ pc' = to /\ pc \in Reading
             /\ Head(buf)[1] \in 1..MaxRequests
             /\ more = 0 => got' = got
  BY <1>7 DEF Read, TypeOK, client, Unit
<1>8. ASSUME NEW from, NEW to, ReadFails(from, to)
      PROVE  /\ UNCHANGED <<kinds, out, eof, wire, buf, got, count, responses>>
             /\ pc = from /\ pc' = to
  BY <1>8 DEF ReadFails, client
<1>9. CASE ReadLine
  BY <1>7, <1>9 DEF ReadLine, TypeOK, Unit, Junk
<1>10. CASE ReadGarbage
  <2>1. \E part, to : Read(part, to, 0) /\ to \in {"respond", "line"}
    BY <1>10 DEF ReadGarbage
  <2>2. /\ UNCHANGED <<kinds, out, eof, wire, count, responses, got>>
        /\ buf' \in Seq(Unit) /\ pc' \in {"respond", "line"}
    BY <1>7, <2>1
  <2>3. /\ pc = "line" /\ req' = Junk
        /\ \/ pc' = "respond" /\ answer' = "malformed"
           \/ pc' = "line" /\ answer' = answer
    BY <1>7, <1>10 DEF ReadGarbage
  <2> QED
    BY <2>2, <2>3, CountAssumption DEF TypeOK, Unit, Junk
<1>11. CASE NoLine
  BY <1>8, <1>11 DEF NoLine, TypeOK
<1>12. CASE ReadHeaders
  BY <1>7, <1>12 DEF ReadHeaders, TypeOK, Unit
<1>13. CASE NoHeaders
  BY <1>8, <1>13 DEF NoHeaders, TypeOK
<1>14. CASE ReadBody
  BY <1>7, <1>14 DEF ReadBody, TypeOK, Unit
<1>15. CASE ReadLastChunk
  BY <1>7, <1>15 DEF ReadLastChunk, TypeOK, Unit
<1>16. CASE ReadWhole
  BY <1>16 DEF ReadWhole, TypeOK, client
<1>17. CASE NoContent
  BY <1>8, <1>17 DEF NoContent, TypeOK
<1>18. CASE ReadAll
  BY <1>8, <1>18 DEF ReadAll, TypeOK
<1>19. CASE Handle
  BY <1>19 DEF Handle, TypeOK, client
<1>20. ASSUME NEW a \in {answer, "lost"}, Answer(a) PROVE TypeInv'
  <2>1. [of |-> req, answer |-> a, got |-> got]
          \in [of : Junk..MaxRequests, got : Nat,
               answer : {"malformed", "refused", "handled", "lost"}]
    BY <1>20 DEF Answer, TypeOK
  <2>2. responses' \in Seq([of : Junk..MaxRequests, got : Nat,
                            answer : {"malformed", "refused", "handled", "lost"}])
    BY <1>20, <2>1 DEF Answer, TypeOK
  <2>3. count' \in 0..MaxCount /\ buf' \in Seq(Unit) /\ req' \in Junk..MaxRequests
    BY <1>20, CountAssumption DEF Answer, TypeOK, Junk
  <2> QED
    BY <1>20, <2>2, <2>3 DEF Answer, TypeOK, client, Unit
<1>21. CASE BodyLost
  BY <1>21 DEF BodyLost, TypeOK, client
<1>22. CASE UNCHANGED vars
  BY <1>22 DEF vars, client, TypeOK
<1>23. CASE LineCut
  <2>1. \/ UNCHANGED <<out, req>>
        \/ out # <<>> /\ out' = <<>> /\ req' = Head(out)[1]
    BY <1>23 DEF LineCut
  <2>2. out' \in Seq(Unit)
    <3>1. out \in Seq(Unit) /\ <<>> \in Seq(Unit)
      BY DEF TypeOK, Unit
    <3>2. out' = out \/ out' = <<>>
      BY <2>1
    <3> QED
      BY <3>1, <3>2
  <2>3. out # <<>> => Head(out)[1] \in Junk..MaxRequests
    <3>1. out \in Seq(Unit) /\ MaxRequests \in Nat
      BY CountAssumption DEF TypeOK, Unit
    <3>2. out # <<>> => Head(out) \in Unit
      BY <3>1, HeadTailProperties
    <3>3. \A u \in Unit : u[1] \in 1..MaxRequests
      BY DEF Unit
    <3> QED
      BY <3>1, <3>2, <3>3 DEF Junk
  <2>4. req' \in Junk..MaxRequests
    BY <2>1, <2>3 DEF TypeOK
  <2> QED
    BY <1>23, <2>2, <2>4 DEF LineCut, TypeOK, Unit
<1>24. CASE HeaderTooLong
  <2>1. CASE Read("headers", "respond", 0)
    BY <1>7, <1>24, <2>1 DEF HeaderTooLong, TypeOK, Unit
  <2>2. CASE /\ wire' = buf \o wire /\ buf' = <<>> /\ pc' = "respond"
             /\ UNCHANGED <<client, got, count, responses>>
    <3>1. wire' \in Seq(Unit) /\ buf' \in Seq(Unit)
      BY <2>2 DEF TypeOK, Unit
    <3> QED
      BY <1>24, <2>2, <3>1 DEF HeaderTooLong, TypeOK, client, Unit
  <2> QED
    BY <1>24, <2>1, <2>2 DEF HeaderTooLong
<1>25. CASE FormTooLong
  BY <1>25 DEF FormTooLong, TypeOK, client
<1>26. CASE Respond \/ HeadersLost
  BY <1>20, <1>26 DEF Respond, HeadersLost
<1> QED
  BY <1>1, <1>2, <1>3, <1>4, <1>5, <1>6, <1>9, <1>10, <1>11, <1>12, <1>13, <1>14,
     <1>15, <1>16, <1>17, <1>18, <1>19, <1>21, <1>22, <1>23, <1>24, <1>25, <1>26
     DEF Next, ServerStep

(***************************************************************************)
(* The variables keep their types, for any kinds of requests and any       *)
(* number of them: the members of Server::process_request's locals.        *)
(***************************************************************************)
THEOREM TypeCorrect == Spec => []TypeOK
<1>1. TypeInv => TypeOK
  BY DEF TypeInv
<1> QED
  BY <1>1, TypeInit, TypeNext, PTL DEF Spec
-----------------------------------------------------------------------------
(***************************************************************************)
(* What is left of a request, wherever it is: read ahead, on the wire, or  *)
(* still to be sent.  Good says of the i-th request that it was handled    *)
(* and left nothing; while all were Good, the server is in step with the   *)
(* client, and knows how much of the current request it has read.          *)
(***************************************************************************)
Left == buf \o wire \o out
UnitsOf(n) == Units(n, kinds[n])
LeftFrom(n, p) == Left = SubSeq(UnitsOf(n), p, Len(UnitsOf(n)))

Good(i) == responses[i].answer = "handled" /\ ~MayBeLeft(kinds[i])
GoodBefore(k) == \A i \in 1..k - 1 : Good(i)

current == Len(responses) + 1
WholeRead == ~MayBeLeft(kinds[current]) => got = kinds[current].body /\ Left = <<>>

Idle ==
  /\ Len(kinds) = Len(responses) /\ Left = <<>>
  /\ pc \in {"keep_alive", "line"} /\ req = 0
Busy ==
  /\ Len(kinds) = current
  /\ \/ pc \in {"keep_alive", "line"} /\ req = 0 /\ LeftFrom(current, 1)
     \/ pc = "headers" /\ req = current /\ LeftFrom(current, 2)
     \/ /\ pc = "content" /\ req = current
        /\ got <= kinds[current].body /\ LeftFrom(current, 3 + got)
     \/ pc = "handle" /\ req = current /\ WholeRead
     \/ pc = "respond" /\ req = current /\ (answer = "handled" => WholeRead)

InStep == GoodBefore(current) => pc = "closed" \/ Idle \/ Busy

(* No answer without a request, and never two requests ahead.              *)
Paired ==
  /\ Len(kinds) <= current
  /\ \A k \in DOMAIN responses : GoodBefore(k) => k <= Len(kinds)

ConnInv == TypeInv /\ Paired /\ InStep /\ AnswersTheRequest

LEMMA LeftType ==
  ASSUME TypeOK
  PROVE  /\ buf \in Seq(Unit) /\ wire \in Seq(Unit) /\ out \in Seq(Unit)
         /\ Left \in Seq(Unit)
<1>1. buf \in Seq(Unit) /\ wire \in Seq(Unit) /\ out \in Seq(Unit)
  BY DEF TypeOK, Unit
<1> QED
  BY <1>1, JoinedThree DEF Left

(* A read takes the first unit that is left; the other steps of the        *)
(* stream only move units along.                                           *)
LEMMA LeftRead ==
  ASSUME TypeOK, NEW part, NEW to, NEW more, Read(part, to, more)
  PROVE  /\ Left # <<>> /\ Left' = Tail(Left)
         /\ Head(Left)[1] = Head(buf)[1] /\ Head(Left)[2] = part
<1>1. /\ buf # <<>> /\ buf' = Tail(buf) /\ Head(buf)[2] = part
      /\ UNCHANGED <<wire, out>>
  BY DEF Read, client
<1>2. Head(Left) = Head(buf) /\ Tail(Left) = Tail(buf) \o wire \o out
  <2>1. buf \in Seq(Unit) /\ wire \in Seq(Unit) /\ out \in Seq(Unit) /\ buf # <<>>
    BY <1>1, LeftType
  <2>2. /\ Head(buf \o wire \o out) = Head(buf)
        /\ Tail(buf \o wire \o out) = Tail(buf) \o wire \o out
    BY <2>1, JoinedHead, JoinedTail, Zenon
  <2> QED
    BY <2>2 DEF Left
<1>3. Left # <<>>
  <2>1. Len(Left) = Len(buf) + Len(wire) + Len(out) /\ Len(buf) \in Nat \ {0}
    BY <1>1, LeftType, JoinedThree, EmptySeq DEF Left
  <2>2. Len(wire) \in Nat /\ Len(out) \in Nat
    BY LeftType
  <2> QED
    BY <2>1, <2>2
<1> QED
  BY <1>1, <1>2, <1>3 DEF Left

LEMMA LeftSent == TypeOK /\ SendUnit => Left' = Left
<1> SUFFICES ASSUME TypeOK, SendUnit PROVE Left' = Left
  OBVIOUS
<1>1. /\ out # <<>> /\ wire' = Append(wire, Head(out)) /\ out' = Tail(out)
      /\ buf' = buf
  BY DEF SendUnit
<1>2. buf \in Seq(Unit) /\ wire \in Seq(Unit) /\ out \in Seq(Unit)
  BY LeftType
<1>3. buf \o Append(wire, Head(out)) \o Tail(out) = buf \o wire \o out
  BY <1>1, <1>2, JoinedMove, Zenon
<1> QED
  BY <1>1, <1>3 DEF Left

LEMMA LeftFilled == TypeOK /\ Fill => Left' = Left
<1> SUFFICES ASSUME TypeOK, Fill PROVE Left' = Left
  OBVIOUS
<1>1. PICK n \in 1..Len(wire) :
        /\ buf' = SubSeq(wire, 1, n) /\ wire' = SubSeq(wire, n + 1, Len(wire))
        /\ buf = <<>> /\ out' = out
  BY DEF Fill, client
<1>2. Len(wire) \in Nat
  BY LeftType
<1>3. buf' \o wire' = wire
  <2>1. 1 \in 1..Len(wire) + 1 /\ n \in 1 - 1..Len(wire) /\ Len(wire) \in n..Len(wire)
    BY <1>1, <1>2
  <2>2. SubSeq(wire, 1, n) \o SubSeq(wire, n + 1, Len(wire)) = SubSeq(wire, 1, Len(wire))
    BY <2>1, LeftType, ConcatAdjacentSubSeq
  <2> QED
    BY <1>1, <2>2, LeftType, SubSeqFull
<1>4. buf \o wire = wire
  BY <1>1, LeftType, ConcatEmptySeq
<1> QED
  BY <1>1, <1>3, <1>4 DEF Left

(* Where nothing is left, nothing is anywhere.                             *)
LEMMA LeftEmpty ==
  ASSUME TypeOK
  PROVE  Left = <<>> <=> buf = <<>> /\ wire = <<>> /\ out = <<>>
<1>1. Len(Left) = Len(buf) + Len(wire) + Len(out)
  BY LeftType, JoinedThree DEF Left
<1>2. /\ Len(buf) \in Nat /\ Len(wire) \in Nat /\ Len(out) \in Nat
      /\ Left = <<>> <=> Len(Left) = 0
      /\ buf = <<>> <=> Len(buf) = 0
      /\ wire = <<>> <=> Len(wire) = 0
      /\ out = <<>> <=> Len(out) = 0
  BY LeftType, EmptySeq
<1> QED
  BY <1>1, <1>2

(* A read of a request that is known from its p-th unit on.                *)
LEMMA LeftNext ==
  ASSUME TypeOK, NEW n \in DOMAIN kinds, NEW p \in 1..Len(UnitsOf(n)) + 1,
         LeftFrom(n, p), Left # <<>>
  PROVE  /\ p <= Len(UnitsOf(n))
         /\ Head(Left) = UnitsOf(n)[p]
         /\ Tail(Left) = SubSeq(UnitsOf(n), p + 1, Len(UnitsOf(n)))
<1>1. kinds[n] \in Kinds /\ n \in 1..MaxRequests
  BY CountAssumption DEF TypeOK
<1>2. UnitsOf(n) \in Seq(Unit)
  BY <1>1, UnitsShape DEF UnitsOf
<1>3. p <= Len(UnitsOf(n))
  <2>1. SUFFICES ASSUME p = Len(UnitsOf(n)) + 1 PROVE FALSE
    BY <1>2, LenProperties
  <2>2. SubSeq(UnitsOf(n), p, Len(UnitsOf(n))) = <<>>
    BY <1>2, <2>1, LenProperties, SubSeqEmpty
  <2> QED
    BY <2>2 DEF LeftFrom
<1>4. p \in 1..Len(UnitsOf(n)) /\ Len(UnitsOf(n)) \in p..Len(UnitsOf(n))
  BY <1>2, <1>3, LenProperties
<1> QED
  BY <1>2, <1>3, <1>4, HeadTailOfSubSeq DEF LeftFrom

(* The units of the current request, once the client has begun to send it. *)
LEMMA CurrentUnits ==
  ASSUME TypeOK, Len(kinds) = current
  PROVE  /\ current \in DOMAIN kinds /\ kinds[current] \in Kinds
         /\ kinds[current].body \in Nat
         /\ UnitsOf(current) \in Seq(Unit)
         /\ Len(UnitsOf(current)) = 2 + kinds[current].body
              + IF kinds[current].framing = "chunked" THEN 1 ELSE 0
         /\ UnitsOf(current)[1] = <<current, "line">>
         /\ UnitsOf(current)[2] = <<current, "headers">>
         /\ \A i \in 1..kinds[current].body :
              UnitsOf(current)[2 + i] = <<current, "body">>
         /\ kinds[current].framing = "chunked" =>
              UnitsOf(current)[3 + kinds[current].body] = <<current, "last">>
<1>1. Len(responses) \in Nat /\ Len(kinds) <= MaxRequests
  BY DEF TypeOK
<1>2. current \in DOMAIN kinds /\ current \in 1..MaxRequests /\ kinds[current] \in Kinds
  BY <1>1, CountAssumption DEF current, TypeOK
<1>3. kinds[current].body \in Nat
  BY <1>2, KindsAssumption
<1> QED
  BY <1>2, <1>3, UnitsShape DEF UnitsOf

LEMMA LeftOver ==
  ASSUME TypeOK, Len(kinds) = current,
         LeftFrom(current, Len(UnitsOf(current)) + 1)
  PROVE  Left = <<>>
<1>1. UnitsOf(current) \in Seq(Unit)
  BY CurrentUnits
<1>2. Len(UnitsOf(current)) \in Nat
  BY <1>1
<1> QED
  BY <1>2, SubSeqEmpty DEF LeftFrom

(* A read while the server knows where it is in the current request.       *)
LEMMA CurrentRead ==
  ASSUME TypeOK, NEW part, NEW to, NEW more, Read(part, to, more),
         Len(kinds) = current, NEW p \in Nat \ {0},
         p <= Len(UnitsOf(current)) + 1, LeftFrom(current, p)
  PROVE  /\ p <= Len(UnitsOf(current))
         /\ UnitsOf(current)[p][2] = part /\ UnitsOf(current)[p][1] = Head(buf)[1]
         /\ Left' = SubSeq(UnitsOf(current), p + 1, Len(UnitsOf(current)))
<1>1. Len(UnitsOf(current)) \in Nat /\ current \in DOMAIN kinds
  BY CurrentUnits
<1>2. p \in 1..Len(UnitsOf(current)) + 1
  BY <1>1
<1>3. Left # <<>> /\ Left' = Tail(Left) /\ Head(Left)[1] = Head(buf)[1] /\ Head(Left)[2] = part
  BY LeftRead
<1>4. /\ p <= Len(UnitsOf(current)) /\ Head(Left) = UnitsOf(current)[p]
      /\ Tail(Left) = SubSeq(UnitsOf(current), p + 1, Len(UnitsOf(current)))
  BY <1>1, <1>2, <1>3, LeftNext
<1> QED
  BY <1>3, <1>4

(***************************************************************************)
(* The steps that neither begin nor answer a request leave Paired and      *)
(* AnswersTheRequest alone.                                                *)
(***************************************************************************)
LEMMA SamePairs ==
  ASSUME Paired, AnswersTheRequest, UNCHANGED <<kinds, responses>>
  PROVE  /\ Paired' /\ AnswersTheRequest'
         /\ current' = current /\ GoodBefore(current)' = GoodBefore(current)
         /\ \A n : UnitsOf(n)' = UnitsOf(n)
<1>1. /\ current' = current
      /\ \A k : GoodBefore(k)' = GoodBefore(k)
      /\ \A n : UnitsOf(n)' = UnitsOf(n)
  BY DEF current, GoodBefore, Good, UnitsOf
<1>2. Paired'
  BY <1>1 DEF Paired
<1>3. AnswersTheRequest'
  BY DEF AnswersTheRequest
<1> QED
  BY <1>1, <1>2, <1>3

(* A step that only moves units along keeps the server in step.            *)
LEMMA SamePlace ==
  ASSUME InStep, Paired, AnswersTheRequest, Left' = Left,
         UNCHANGED <<kinds, responses, pc, req, got, answer>>
  PROVE  InStep'
<1>1. /\ current' = current /\ GoodBefore(current)' = GoodBefore(current)
      /\ \A n : UnitsOf(n)' = UnitsOf(n)
  BY SamePairs
<1>2. Idle => Idle'
  BY DEF Idle
<1>3. \A n, p : LeftFrom(n, p)' = LeftFrom(n, p)
  BY <1>1 DEF LeftFrom
<1>4. WholeRead' = WholeRead
  BY <1>1 DEF WholeRead
<1>5. Busy => Busy'
  BY <1>1, <1>3, <1>4 DEF Busy
<1> QED
  BY <1>1, <1>2, <1>5 DEF InStep

(***************************************************************************)
(* The steps of process_request up to the response.                        *)
(***************************************************************************)
ReadsRequest ==
  \/ ReadLine \/ ReadGarbage \/ ReadHeaders \/ HeaderTooLong \/ NoHeaders \/ ReadBody
  \/ ReadLastChunk \/ ReadWhole \/ NoContent \/ ReadAll \/ FormTooLong \/ Handle

LEMMA RequestRead == ConnInv /\ ReadsRequest => InStep'
<1> SUFFICES ASSUME ConnInv, ReadsRequest, GoodBefore(current)'
             PROVE  pc' = "closed" \/ Idle' \/ Busy'
  BY DEF InStep
<1> USE DEF ConnInv, TypeInv
<1>1. UNCHANGED <<kinds, out, responses>>
  BY DEF ReadsRequest, ReadLine, ReadGarbage, ReadHeaders, HeaderTooLong,
         NoHeaders, ReadBody, ReadLastChunk, ReadWhole, NoContent, ReadAll,
         FormTooLong, Handle, Read, ReadFails, client
<1>2. /\ current' = current /\ GoodBefore(current)
      /\ \A n : UnitsOf(n)' = UnitsOf(n)
  BY <1>1, SamePairs
<1>3. pc # "closed"
  BY DEF ReadsRequest, ReadLine, ReadGarbage, ReadHeaders, HeaderTooLong,
         NoHeaders, ReadBody, ReadLastChunk, ReadWhole, NoContent, ReadAll,
         FormTooLong, Handle, ReadFails
<1>4. Idle \/ Busy
  BY <1>2, <1>3 DEF InStep
<1>5. ~Idle
  <2> SUFFICES ASSUME Idle PROVE FALSE
    OBVIOUS
  <2>1. buf = <<>> /\ pc \in {"keep_alive", "line"}
    BY LeftEmpty DEF Idle
  <2> QED
    BY <2>1 DEF ReadsRequest, ReadLine, ReadGarbage, ReadHeaders, HeaderTooLong,
                NoHeaders, ReadBody, ReadLastChunk, ReadWhole, NoContent, ReadAll,
                FormTooLong, Handle, ReadFails, Read
<1>6. Len(kinds) = current /\ Len(kinds') = current' /\ Busy
  BY <1>1, <1>2, <1>4, <1>5 DEF Busy
<1> DEFINE kind == kinds[current]
<1>7. /\ kind \in Kinds /\ kind.body \in Nat /\ kinds'[current'] = kind
      /\ Len(UnitsOf(current)) = 2 + kind.body
           + IF kind.framing = "chunked" THEN 1 ELSE 0
  BY <1>1, <1>2, <1>6, CurrentUnits
<1> HIDE DEF kind
<1>8. /\ kind.method \in {"GET", "POST", "DELETE"}
      /\ kind.framing \in {"none", "length", "chunked"}
  BY <1>7, KindsAssumption
<1>9. \A n, p : LeftFrom(n, p)' <=> Left' = SubSeq(UnitsOf(n), p, Len(UnitsOf(n)))
  BY <1>2 DEF LeftFrom
<1>10. WholeRead' <=> (~MayBeLeft(kind) => got' = kind.body /\ Left' = <<>>)
  BY <1>2, <1>7 DEF WholeRead
<1>11. WholeRead <=> (~MayBeLeft(kind) => got = kind.body /\ Left = <<>>)
  BY DEF WholeRead, kind
<1>12. CASE ReadLine
  <2>1. LeftFrom(current, 1) /\ req = 0
    BY <1>6, <1>12 DEF Busy, ReadLine
  <2>2. \E to : Read("line", to, 0)
    BY <1>12 DEF ReadLine
  <2>3. /\ Head(buf)[1] = current
        /\ Left' = SubSeq(UnitsOf(current), 2, Len(UnitsOf(current)))
    BY <1>6, <1>7, <2>1, <2>2, CurrentRead, CurrentUnits
  <2>4. /\ req' = current
        /\ \/ pc' = "respond" /\ answer' = "malformed"
           \/ pc' = "headers"
    BY <1>12, <2>3 DEF ReadLine, Read
  <2>5. CASE pc' = "respond" /\ answer' = "malformed"
    <3>1. req' = current' /\ Len(kinds') = current'
      BY <1>2, <1>6, <2>4
    <3> QED
      BY <2>5, <3>1 DEF Busy
  <2>6. CASE pc' = "headers"
    BY <1>2, <1>6, <1>9, <2>3, <2>4, <2>6 DEF Busy
  <2> QED
    BY <2>4, <2>5, <2>6
<1>13. CASE ReadGarbage
  <2>1. LeftFrom(current, 1)
    BY <1>6, <1>13 DEF Busy, ReadGarbage
  <2>2. \E part \in {"headers", "body", "last"} : \E to : Read(part, to, 0)
    BY <1>13 DEF ReadGarbage
  <2>3. UnitsOf(current)[1][2] \in {"headers", "body", "last"}
    BY <1>6, <1>7, <2>1, <2>2, CurrentRead
  <2> QED
    BY <1>6, <2>3, CurrentUnits
<1>14. CASE ReadHeaders
  <2>1. LeftFrom(current, 2) /\ req = current /\ got = 0
    BY <1>6, <1>14 DEF Busy, ReadHeaders, Places
  <2>2. \E to : Read("headers", to, 0)
    BY <1>14 DEF ReadHeaders
  <2>3. Left' = SubSeq(UnitsOf(current), 3, Len(UnitsOf(current)))
    BY <1>6, <1>7, <2>1, <2>2, CurrentRead
  <2>4. request = kind
    BY <2>1 DEF request, kind
  <2>5. /\ req' = current /\ got' = 0
        /\ \/ pc' = "respond" /\ answer' # "handled"
           \/ pc' = "content"
           \/ pc' = "handle" /\ ~HasContent
    BY <1>14, <2>1, <2>2 DEF ReadHeaders, Read
  <2>6. CASE pc' = "respond" /\ answer' # "handled"
    BY <1>2, <1>6, <2>5, <2>6 DEF Busy
  <2>7. CASE pc' = "content"
    <3>1. got' <= kinds'[current'].body /\ 3 + got' = 3
      BY <1>7, <2>5
    <3>2. LeftFrom(current, 3 + got)'
      BY <1>2, <1>9, <2>3, <3>1
    <3>3. req' = current' /\ Len(kinds') = current'
      BY <1>2, <1>6, <2>5
    <3> QED
      BY <2>7, <3>1, <3>2, <3>3 DEF Busy
  <2>8. CASE pc' = "handle" /\ ~HasContent
    <3>1. ~MayBeLeft(kind) => kind.body = 0 /\ kind.framing # "chunked"
      BY <1>7, <1>8, <2>4, <2>8 DEF HasContent, MayBeLeft
    <3>2. ~MayBeLeft(kind) => Left' = <<>>
      BY <1>7, <2>3, <3>1, SubSeqEmpty
    <3> QED
      BY <1>2, <1>6, <1>10, <2>5, <2>8, <3>1, <3>2 DEF Busy
  <2> QED
    BY <2>5, <2>6, <2>7, <2>8
<1>15. CASE NoHeaders
  BY <1>2, <1>6, <1>15 DEF NoHeaders, ReadFails, Busy
<1>16. ASSUME pc = "content"
       PROVE  /\ req = current /\ got \in Nat /\ got <= kind.body
              /\ LeftFrom(current, 3 + got)
              /\ 3 + got <= Len(UnitsOf(current)) + 1
  <2>1. req = current /\ got <= kinds[current].body /\ LeftFrom(current, 3 + got)
    BY <1>6, <1>16 DEF Busy
  <2>2. got \in Nat
    BY DEF TypeOK
  <2> QED
    BY <1>7, <2>1, <2>2 DEF kind
<1>17. CASE ReadBody
  <2>1. Read("body", "content", 1) /\ req' = req /\ pc = "content"
    BY <1>17 DEF ReadBody
  <2>2. /\ 3 + got <= Len(UnitsOf(current)) /\ UnitsOf(current)[3 + got][2] = "body"
        /\ Left' = SubSeq(UnitsOf(current), 3 + got + 1, Len(UnitsOf(current)))
    BY <1>6, <1>16, <2>1, CurrentRead
  <2>3. got # kind.body
    BY <1>6, <1>7, <2>2, CurrentUnits DEF kind
  <2>4. pc' = "content" /\ got' = got + 1
    BY <2>1 DEF Read
  <2>5. got' <= kind.body /\ 3 + got' = 3 + got + 1
    BY <1>7, <1>16, <2>1, <2>3, <2>4
  <2> QED
    BY <1>2, <1>6, <1>7, <1>9, <1>16, <2>1, <2>2, <2>4, <2>5 DEF Busy
<1>18. CASE ReadLastChunk
  <2>1. Read("last", "handle", 0) /\ req' = req /\ pc = "content"
    BY <1>18 DEF ReadLastChunk
  <2>2. /\ 3 + got <= Len(UnitsOf(current)) /\ UnitsOf(current)[3 + got][2] = "last"
        /\ Left' = SubSeq(UnitsOf(current), 3 + got + 1, Len(UnitsOf(current)))
    BY <1>6, <1>16, <2>1, CurrentRead
  <2>3. got = kind.body
    <3> SUFFICES ASSUME got # kind.body PROVE FALSE
      OBVIOUS
    <3>1. got + 1 \in 1..kind.body /\ 3 + got = 2 + (got + 1)
      BY <1>7, <1>16, <2>1
    <3>2. UnitsOf(current)[3 + got] = <<current, "body">>
      BY <1>6, <3>1, CurrentUnits DEF kind
    <3> QED
      BY <2>2, <3>2
  <2>4. Left' = <<>>
    BY <1>7, <2>2, <2>3, SubSeqEmpty
  <2>5. pc' = "handle" /\ got' = got
    BY <1>16, <2>1 DEF Read
  <2> QED
    BY <1>2, <1>6, <1>10, <1>16, <2>1, <2>3, <2>4, <2>5 DEF Busy
<1>19. CASE ReadWhole
  <2>1. /\ pc = "content" /\ request.framing = "length" /\ got = request.body
        /\ pc' = "handle" /\ UNCHANGED <<wire, out, buf, req, got>>
    BY <1>19 DEF ReadWhole, client
  <2>2. request = kind
    BY <1>16, <2>1 DEF request, kind
  <2>3. Left = <<>>
    BY <1>6, <1>7, <1>16, <2>1, <2>2, LeftOver
  <2>4. Left' = <<>>
    BY <2>1, <2>3 DEF Left
  <2> QED
    BY <1>2, <1>6, <1>10, <1>16, <2>1, <2>2, <2>4 DEF Busy
<1>20. CASE NoContent
  BY <1>2, <1>6, <1>16, <1>20 DEF NoContent, ReadFails, Busy
<1>21. CASE ReadAll
  <2>1. /\ pc = "content" /\ request.framing = "none"
        /\ pc' = "handle" /\ UNCHANGED <<wire, out, buf, req, got>>
    BY <1>21 DEF ReadAll, ReadFails, client
  <2>2. request = kind
    BY <1>16, <2>1 DEF request, kind
  <2>3. ~MayBeLeft(kind) => kind.body = 0 /\ got = 0
    BY <1>7, <1>16, <2>1, <2>2 DEF MayBeLeft
  <2>4. ~MayBeLeft(kind) => Left = <<>>
    BY <1>6, <1>7, <1>16, <2>1, <2>2, <2>3, LeftOver
  <2>5. Left' = Left
    BY <2>1 DEF Left
  <2> QED
    BY <1>2, <1>6, <1>10, <1>16, <2>1, <2>3, <2>4, <2>5 DEF Busy
<1>22. CASE Handle
  <2>1. /\ pc = "handle" /\ pc' = "respond" /\ UNCHANGED <<wire, out, buf, req, got>>
    BY <1>22 DEF Handle, client
  <2>2. req = current /\ WholeRead
    BY <1>6, <2>1 DEF Busy
  <2>3. Left' = Left
    BY <2>1 DEF Left
  <2> QED
    BY <1>2, <1>6, <1>10, <1>11, <2>1, <2>2, <2>3 DEF Busy
<1>23. CASE HeaderTooLong
  <2>1. req = current
    BY <1>6, <1>23 DEF Busy, HeaderTooLong
  <2>2. pc' = "respond" /\ answer' = "malformed" /\ req' = req
    BY <1>23 DEF HeaderTooLong, Read
  <2> QED
    BY <1>2, <1>6, <2>1, <2>2 DEF Busy
<1>24. CASE FormTooLong
  <2>1. req = current
    BY <1>6, <1>24 DEF Busy, FormTooLong
  <2>2. pc' = "respond" /\ answer' = "refused" /\ req' = req
    BY <1>24 DEF FormTooLong
  <2> QED
    BY <1>2, <1>6, <2>1, <2>2 DEF Busy
<1> QED
  BY <1>12, <1>13, <1>14, <1>15, <1>17, <1>18, <1>19, <1>20, <1>21, <1>22, <1>23, <1>24
     DEF ReadsRequest

(* The end of the stream in the middle of the current request's line.      *)
LEMMA RequestCut == ConnInv /\ LineCut => InStep'
<1> SUFFICES ASSUME ConnInv, LineCut, GoodBefore(current)' PROVE Busy'
  BY DEF InStep
<1> USE DEF ConnInv, TypeInv
<1>1. /\ pc = "line" /\ buf = <<>> /\ wire = <<>>
      /\ pc' = "respond" /\ answer' = "malformed" /\ UNCHANGED <<kinds, responses>>
      /\ req # Junk => out # <<>> /\ req' = Head(out)[1]
  BY DEF LineCut
<1>2. current' = current /\ GoodBefore(current)
  BY <1>1, SamePairs
<1>3. Left = out
  <2>1. buf \o wire = <<>>
    BY <1>1, LeftType, ConcatEmptySeq
  <2> QED
    BY <2>1, LeftType, ConcatEmptySeq DEF Left
<1>4. req = 0 /\ req # Junk
  BY <1>1, <1>2 DEF InStep, Idle, Busy, Junk
<1>5. Len(kinds) = current /\ LeftFrom(current, 1)
  BY <1>1, <1>2, <1>3, <1>4 DEF InStep, Idle, Busy
<1>6. Head(out) = <<current, "line">>
  <2>1. current \in DOMAIN kinds /\ Len(UnitsOf(current)) \in Nat
    BY <1>5, CurrentUnits
  <2>2. Head(Left) = UnitsOf(current)[1]
    BY <1>1, <1>3, <1>4, <1>5, <2>1, LeftNext
  <2> QED
    BY <1>3, <1>5, <2>2, CurrentUnits
<1>7. req' = current' /\ Len(kinds') = current'
  BY <1>1, <1>2, <1>4, <1>5, <1>6
<1> QED
  BY <1>1, <1>7 DEF Busy

(***************************************************************************)
(* The client begins a request: the server has answered all before.        *)
(***************************************************************************)
LEMMA RequestBegun ==
  ASSUME ConnInv, NEW kind \in Kinds, SendRequest(kind)
  PROVE  Paired' /\ InStep' /\ AnswersTheRequest'
<1> USE DEF ConnInv, TypeInv
<1>1. /\ pc # "closed" /\ out = <<>> /\ Len(kinds) <= Len(responses)
      /\ kinds' = Append(kinds, kind) /\ out' = Units(Len(kinds) + 1, kind)
      /\ UNCHANGED <<wire, pc, buf, req, got, answer, responses>>
      /\ Len(kinds) + 1 \in 1..MaxRequests
  BY CountAssumption DEF SendRequest, TypeOK
<1>2. /\ Len(kinds) \in Nat /\ Len(responses) \in Nat
      /\ DOMAIN kinds = 1..Len(kinds) /\ DOMAIN responses = 1..Len(responses)
  BY DEF TypeOK
<1>3. /\ Len(kinds') = Len(kinds) + 1 /\ kinds'[Len(kinds) + 1] = kind
      /\ \A i \in 1..Len(kinds) : kinds'[i] = kinds[i]
  BY <1>1, <1>2 DEF TypeOK
<1>4. current' = current /\ current = Len(responses) + 1
  BY <1>1 DEF current
<1>5. ASSUME NEW k \in 1..current, GoodBefore(k)'
      PROVE  /\ k <= Len(kinds) + 1 /\ GoodBefore(k)
             /\ k \in DOMAIN responses => k <= Len(kinds)
  <2>1. CASE k <= Len(kinds) + 1
    <3>1. \A i \in 1..k - 1 : Good(i)' = Good(i)
      BY <1>1, <1>2, <1>3, <2>1 DEF Good
    <3>2. GoodBefore(k)
      BY <1>5, <3>1 DEF GoodBefore
    <3> QED
      BY <2>1, <3>2 DEF Paired
  <2>2. CASE k > Len(kinds) + 1
    <3> DEFINE j == Len(kinds) + 1
    <3>1. j \in DOMAIN responses /\ j \in 1..k - 1
      BY <1>2, <1>4, <2>2
    <3>2. \A i \in 1..j - 1 : Good(i)' = Good(i) /\ i \in 1..k - 1
      BY <1>1, <1>2, <1>3, <3>1 DEF Good
    <3>3. GoodBefore(j)
      BY <1>5, <3>2 DEF GoodBefore
    <3>4. j <= Len(kinds)
      BY <3>1, <3>3 DEF Paired
    <3> QED
      BY <1>2, <3>4
  <2> QED
    BY <1>2, <1>4, <2>1, <2>2
<1>6. Paired'
  <2>1. Len(kinds') <= current'
    BY <1>1, <1>2, <1>3, <1>4
  <2>2. ASSUME NEW k \in DOMAIN responses', GoodBefore(k)' PROVE k <= Len(kinds')
    BY <1>1, <1>2, <1>3, <1>4, <1>5, <2>2
  <2> QED
    BY <2>1, <2>2 DEF Paired
<1>7. AnswersTheRequest'
  <2> SUFFICES ASSUME NEW k \in DOMAIN responses, GoodBefore(k)'
               PROVE  /\ responses[k].of = k
                      /\ responses[k].answer = "handled" /\ ~MayBeLeft(kinds'[k]) =>
                           responses[k].got = kinds'[k].body
    BY <1>1 DEF AnswersTheRequest, GoodBefore, Good
  <2>1. GoodBefore(k) /\ k <= Len(kinds)
    BY <1>2, <1>4, <1>5
  <2>2. kinds'[k] = kinds[k]
    BY <1>2, <1>3, <2>1
  <2> QED
    BY <2>1, <2>2 DEF AnswersTheRequest, GoodBefore, Good
<1>8. InStep'
  <2> SUFFICES ASSUME GoodBefore(current)' PROVE Busy'
    BY DEF InStep
  <2>1. GoodBefore(current) /\ current <= Len(kinds) + 1
    BY <1>2, <1>4, <1>5
  <2>2. Len(kinds) = Len(responses) /\ Idle
    <3>1. Len(kinds) <= Len(responses) /\ Len(responses) + 1 <= Len(kinds) + 1
      BY <1>1, <1>4, <2>1
    <3>2. Len(kinds) = Len(responses) /\ Len(kinds) # current
      <4>1. Len(kinds) \in Nat /\ Len(responses) \in Nat
        BY <1>2
      <4>2. Len(kinds) = Len(responses)
        BY <3>1, <4>1
      <4> QED
        BY <1>4, <4>1, <4>2
    <3>3. ~Busy
      BY <3>2 DEF Busy
    <3> QED
      BY <1>1, <2>1, <3>2, <3>3 DEF InStep
  <2>3. buf = <<>> /\ wire = <<>> /\ pc \in {"keep_alive", "line"} /\ req = 0
    BY <2>2, LeftEmpty DEF Idle
  <2>4. Units(current, kind) \in Seq(Unit) /\ UnitsOf(current)' = Units(current, kind)
    BY <1>1, <1>3, <1>4, <2>2, UnitsType DEF UnitsOf
  <2>5. Left' = Units(current, kind)
    BY <1>1, <1>4, <2>2, <2>3, <2>4, ConcatEmptySeq DEF Left
  <2>6. LeftFrom(current, 1)'
    BY <1>4, <2>4, <2>5, SubSeqFull DEF LeftFrom
  <2> QED
    BY <1>1, <1>3, <1>4, <2>2, <2>3, <2>6 DEF Busy
<1> QED
  BY <1>6, <1>7, <1>8

(***************************************************************************)
(* A response: the only one that is in step answers the current request.   *)
(***************************************************************************)
LEMMA RequestAnswered ==
  ASSUME ConnInv, NEW a \in {answer, "lost"}, Answer(a)
  PROVE  Paired' /\ InStep' /\ AnswersTheRequest'
<1> USE DEF ConnInv, TypeInv
<1> DEFINE response == [of |-> req, answer |-> a, got |-> got]
<1>1. /\ pc = "respond" /\ responses' = Append(responses, response)
      /\ pc' \in {"closed", "keep_alive"} /\ buf' = <<>> /\ req' = 0
      /\ UNCHANGED <<kinds, wire, out>>
  BY DEF Answer, client
<1>2. /\ Len(kinds) \in Nat /\ Len(responses) \in Nat
      /\ DOMAIN responses = 1..Len(responses)
      /\ current = Len(responses) + 1
  BY DEF TypeOK, current
<1>3. /\ Len(responses') = current /\ DOMAIN responses' = 1..current
      /\ responses'[current] = response
      /\ \A i \in 1..Len(responses) : responses'[i] = responses[i]
  BY <1>1, <1>2 DEF TypeOK
<1>4. current' = current + 1
  BY <1>3 DEF current
<1>5. \A k \in 1..current : GoodBefore(k)' = GoodBefore(k)
  BY <1>1, <1>2, <1>3 DEF GoodBefore, Good
<1>6. ASSUME GoodBefore(current)
      PROVE  /\ Len(kinds) = current /\ req = current
             /\ a = "handled" => WholeRead
  BY <1>1, <1>6 DEF InStep, Idle, Busy
<1>7. Paired'
  <2>1. Len(kinds') <= current'
    BY <1>1, <1>2, <1>4 DEF Paired
  <2>2. ASSUME NEW k \in DOMAIN responses', GoodBefore(k)' PROVE k <= Len(kinds')
    BY <1>1, <1>2, <1>3, <1>5, <1>6, <2>2 DEF Paired
  <2> QED
    BY <2>1, <2>2 DEF Paired
<1>8. AnswersTheRequest'
  <2> SUFFICES ASSUME NEW k \in 1..current, GoodBefore(k)'
               PROVE  /\ responses'[k].of = k
                      /\ responses'[k].answer = "handled" /\ ~MayBeLeft(kinds[k]) =>
                           responses'[k].got = kinds[k].body
    BY <1>1, <1>3 DEF AnswersTheRequest, GoodBefore, Good
  <2>1. GoodBefore(k)
    BY <1>5
  <2>2. CASE k = current
    BY <1>3, <1>6, <2>1, <2>2 DEF WholeRead
  <2>3. CASE k \in 1..Len(responses)
    BY <1>2, <1>3, <2>1, <2>3 DEF AnswersTheRequest, GoodBefore, Good
  <2> QED
    BY <1>2, <2>2, <2>3
<1>9. InStep'
  <2> SUFFICES ASSUME GoodBefore(current)' PROVE pc' = "closed" \/ Idle'
    BY DEF InStep
  <2>1. \A i \in 1..current : responses'[i].answer = "handled" /\ ~MayBeLeft(kinds[i])
    BY <1>1, <1>2, <1>4 DEF GoodBefore, Good
  <2>2. GoodBefore(current)
    BY <1>2, <1>3, <2>1 DEF GoodBefore, Good
  <2>3. a = "handled" /\ ~MayBeLeft(kinds[current])
    BY <1>2, <1>3, <2>1
  <2>4. Left = <<>> /\ Len(kinds) = current
    BY <1>6, <2>2, <2>3 DEF WholeRead
  <2>5. buf' = <<>> /\ wire' = <<>> /\ out' = <<>>
    BY <1>1, <2>4, LeftEmpty
  <2>6. Left' = <<>>
    BY <2>5 DEF Left
  <2> QED
    BY <1>1, <1>3, <2>4, <2>6 DEF Idle
<1> QED
  BY <1>7, <1>8, <1>9

LEMMA ConnInit == Init => ConnInv
<1> SUFFICES ASSUME Init PROVE ConnInv
  OBVIOUS
<1>1. kinds = <<>> /\ responses = <<>> /\ pc = "keep_alive" /\ req = 0
  BY DEF Init
<1>2. Left = <<>>
  BY DEF Init, Left
<1>3. Len(kinds) = 0 /\ Len(responses) = 0 /\ DOMAIN responses = {}
  BY <1>1
<1>4. Paired /\ AnswersTheRequest
  BY <1>3 DEF Paired, AnswersTheRequest, current
<1>5. InStep
  BY <1>1, <1>2, <1>3 DEF InStep, Idle
<1> QED
  BY <1>4, <1>5, TypeInit DEF ConnInv

LEMMA ConnNext == ConnInv /\ [Next]_vars => ConnInv'
<1> SUFFICES ASSUME ConnInv, [Next]_vars PROVE Paired' /\ InStep' /\ AnswersTheRequest'
  BY TypeNext DEF ConnInv
<1> USE DEF ConnInv, TypeInv
<1>1. ASSUME NEW kind \in Kinds, SendRequest(kind)
      PROVE  Paired' /\ InStep' /\ AnswersTheRequest'
  BY <1>1, RequestBegun
<1>2. CASE Respond \/ HeadersLost
  BY <1>2, RequestAnswered DEF Respond, HeadersLost
<1>3. ASSUME SendUnit \/ Disconnect \/ Fill \/ UNCHANGED vars
      PROVE  Paired' /\ InStep' /\ AnswersTheRequest'
  <2>1. UNCHANGED <<kinds, responses, pc, req, got, answer>>
    BY <1>3 DEF SendUnit, Disconnect, Fill, vars, client
  <2>2. Left' = Left
    <3>1. CASE Disconnect \/ UNCHANGED vars
      BY <3>1 DEF Disconnect, vars, client, Left
    <3> QED
      BY <1>3, <3>1, LeftSent, LeftFilled
  <2> QED
    BY <2>1, <2>2, SamePlace, SamePairs
<1>4. ASSUME GiveUp \/ NoLine \/ BodyLost
      PROVE  Paired' /\ InStep' /\ AnswersTheRequest'
  <2>1. UNCHANGED <<kinds, responses>> /\ pc' = "closed"
    BY <1>4 DEF GiveUp, NoLine, BodyLost, ReadFails, client
  <2> QED
    BY <2>1, SamePairs DEF InStep
<1>5. CASE Begin
  <2>1. /\ UNCHANGED <<kinds, responses, wire, out, buf, req, got, answer>>
        /\ pc = "keep_alive" /\ pc' = "line"
    BY <1>5 DEF Begin, client
  <2>2. /\ Paired' /\ AnswersTheRequest'
        /\ current' = current /\ GoodBefore(current)' = GoodBefore(current)
        /\ UnitsOf(current)' = UnitsOf(current)
    BY <2>1, SamePairs
  <2>3. Left' = Left
    BY <2>1 DEF Left
  <2>4. Idle => Idle'
    BY <2>1, <2>3 DEF Idle
  <2>5. Busy => Busy'
    BY <2>1, <2>2, <2>3 DEF Busy, LeftFrom
  <2> QED
    BY <2>1, <2>2, <2>4, <2>5 DEF InStep
<1>6. CASE ReadsRequest
  <2>1. UNCHANGED <<kinds, responses>>
    BY <1>6 DEF ReadsRequest, ReadLine, ReadGarbage, ReadHeaders, HeaderTooLong,
         NoHeaders, ReadBody, ReadLastChunk, ReadWhole, NoContent, ReadAll,
         FormTooLong, Handle, Read, ReadFails, client
  <2> QED
    BY <1>6, <2>1, SamePairs, RequestRead
<1>7. CASE LineCut
  <2>1. UNCHANGED <<kinds, responses>>
    BY <1>7 DEF LineCut
  <2> QED
    BY <1>7, <2>1, SamePairs, RequestCut
<1> QED
  BY <1>1, <1>2, <1>3, <1>4, <1>5, <1>6, <1>7 DEF Next, ServerStep, ReadsRequest

(***************************************************************************)
(* The k-th response is to the k-th request, whose body the handler has    *)
(* had in full, as long as what came before was handled and left nothing.  *)
(***************************************************************************)
THEOREM ResponsesMatch == Spec => []AnswersTheRequest
<1>1. ConnInv => AnswersTheRequest
  BY DEF ConnInv
<1> QED
  BY <1>1, ConnInit, ConnNext, PTL DEF Spec
=============================================================================
