-------------------------- MODULE ConnectionProofs --------------------------
(***************************************************************************)
(* Proofs about Connection, for every size of the send buffer, every       *)
(* length and number of blocks, and any number of starts, kicks, reads and *)
(* failed connection attempts.                                             *)
(*                                                                         *)
(* The inductive invariant is built in layers, each proved on top of the   *)
(* one before: TypeInv (types, and buffers within their bounds),           *)
(* ControlInv (what the application has been told, and which handlers can  *)
(* be queued), and in the second half DataInv (where the bytes are), from  *)
(* which the refinement of ByteStream follows.                             *)
(***************************************************************************)
EXTENDS Connection, CommonLemmas

(* Types, and the buffers as writeMessage needs them. *)
TypeInv ==
  /\ TypeOK
  /\ InBounds(m_bufferSend) /\ ~m_bufferSend.lock /\ m_bufferSend.readPos = 0
  /\ \A i \in 1..Len(m_sendList) : InBounds(m_sendList[i])
-----------------------------------------------------------------------------
(* Layer 1: types, and buffers within their bounds. *)

AnyHandler == [h : RawHandlers \cup {"handlAccept", "writeMessage", "handleClose"},
               er : BOOLEAN, size : Nat]

(* A send buffer as writeMessage leaves it. *)
SendBuffer(b) == b \in Buffer(Nat) /\ InBounds(b) /\ ~b.lock /\ b.readPos = 0

(* The queue that each handler leaves, and the one that each post makes. *)
LEMMA QueueTypes ==
  ASSUME TypeOK
  PROVE  /\ \A h \in RawHandlers \cup {"handlAccept", "writeMessage", "handleClose"},
              er \in BOOLEAN, size \in Nat :
              /\ Handler(h, er, size) \in AnyHandler
              /\ Append(ioQueue, Handler(h, er, size)) \in Seq(AnyHandler)
         /\ ioQueue # << >> =>
              /\ Head(ioQueue) \in AnyHandler
              /\ Tail(ioQueue) \in Seq(AnyHandler)
              /\ \A er \in BOOLEAN : close(Tail(ioQueue), er) \in Seq(AnyHandler)
         /\ \A er \in BOOLEAN : close(ioQueue, er) \in Seq(AnyHandler)
<1>1. ioQueue \in Seq(AnyHandler) BY DEF TypeOK, AnyHandler
<1>2. \A h \in RawHandlers \cup {"handlAccept", "writeMessage", "handleClose"},
        er \in BOOLEAN, size \in Nat : Handler(h, er, size) \in AnyHandler
  BY DEF Handler, AnyHandler
<1>3. \A er \in BOOLEAN : Handler("handleClose", er, 0) \in AnyHandler BY <1>2
<1> HIDE DEF AnyHandler
<1>4. \A x \in AnyHandler : Append(ioQueue, x) \in Seq(AnyHandler) BY <1>1
<1>5. ioQueue # << >> => Head(ioQueue) \in AnyHandler /\ Tail(ioQueue) \in Seq(AnyHandler)
  BY <1>1
<1>6. ioQueue # << >> => \A x \in AnyHandler : Append(Tail(ioQueue), x) \in Seq(AnyHandler)
  BY <1>5
<1> QED BY <1>2, <1>3, <1>4, <1>5, <1>6 DEF close

(* What readData(size) and clearReadBuffer() leave of m_bufferSend. *)
LEMMA EnterTypes ==
  ASSUME NEW b, SendBuffer(b), NEW size \in Nat
  PROVE  SendBuffer(clearReadBuffer(readData(b, size)))
<1> DEFINE r == readData(b, size)
<1>1. r \in Buffer(Nat) /\ InBounds(r) /\ r.lock = b.lock
  BY ReadDataLemma DEF SendBuffer
<1> HIDE DEF r
<1>2. /\ clearReadBuffer(r) \in Buffer(Nat) /\ InBounds(clearReadBuffer(r))
      /\ clearReadBuffer(r).readPos = 0 /\ clearReadBuffer(r).lock = r.lock
  BY <1>1, ClearReadBufferLemma
<1>3. SendBuffer(clearReadBuffer(r)) BY <1>1, <1>2 DEF SendBuffer
<1> QED BY <1>3 DEF r

(* A send buffer is all unread. *)
LEMMA SendBufferFacts ==
  ASSUME NEW b, SendBuffer(b)
  PROVE  length(b) \in Nat /\ needReadLength(b) = length(b)
<1>1. length(b) \in Nat BY LenProperties DEF SendBuffer, Buffer, length
<1> QED BY <1>1 DEF SendBuffer, needReadLength

(* The block that send() makes of len bytes. *)
LEMMA BlockLemma ==
  ASSUME NEW len \in Nat, NEW from \in Nat
  PROVE  LET blk == tailData(NewBuffer(len), [i \in 1..len |-> from + i]) IN
         /\ blk \in Buffer(Nat) /\ InBounds(blk) /\ blk.readPos = 0 /\ length(blk) = len
         /\ \A i \in 1..len : blk.buf[i] = from + i
<1> DEFINE s == [i \in 1..len |-> from + i]
           e == NewBuffer(len)
<1>1. s \in Seq(Nat) /\ Len(s) = len /\ \A i \in 1..len : s[i] = from + i OBVIOUS
<1>2. e \in Buffer(Nat) /\ InBounds(e) /\ length(e) = 0 /\ e.readPos = 0 /\ ~e.lock
  BY NewBufferLemma
<1> HIDE DEF s, e
<1> DEFINE t == tailData(e, s)
<1>3. /\ t \in Buffer(Nat) /\ InBounds(t) /\ t.readPos = e.readPos
      /\ ~e.lock =>
           /\ length(t) = length(e) + Len(s)
           /\ \A i \in 1..Len(s) : t.buf[length(e) + i] = s[i]
  <2>1. e \in Buffer(Nat) /\ s \in Seq(Nat) /\ InBounds(e) BY <1>1, <1>2
  <2> QED BY <2>1, TailDataLemma
<1> HIDE DEF t
<1>4. \A i \in 1..len : length(e) + i = i BY <1>2
<1>5. /\ t \in Buffer(Nat) /\ InBounds(t) /\ t.readPos = 0 /\ length(t) = len
      /\ \A i \in 1..len : t.buf[i] = from + i
  BY <1>1, <1>2, <1>3, <1>4
<1> QED BY <1>5 DEF t, s, e

(* What has to be shown of a step that leaves the two send buffers alone. *)
TypeRest ==
  /\ owner \in {"server", "client"}
  /\ accept \in {"none", "wait", "ok", "err", "posted", "gone"}
  /\ m_connect \in BOOLEAN /\ m_isSend \in BOOLEAN
  /\ sock \in {"new", "connecting", "failed", "open", "broken", "closed"}
  /\ rdOps \in Nat
  /\ wrOp \in [st : {"none", "flight", "done"}, base : Nat, len : Nat, n : Nat]
  /\ ioQueue \in Seq(AnyHandler)
  /\ pc \in {"idle", "fill", "start", "close"}
  /\ m_call \in Seq({"connect", "recv", "close", "start"})
  /\ polled \in Nat
  /\ online \in BOOLEAN
  /\ accepted \in Nat
  /\ wire \in Seq(Nat) /\ sent \in Nat
  /\ starts \in Nat /\ kicks \in Nat /\ reads \in Nat /\ fails \in Nat
  /\ crashed \in BOOLEAN

TypeList ==
  m_sendList \in Seq(Buffer(Nat)) /\ \A i \in 1..Len(m_sendList) : InBounds(m_sendList[i])

(* TypeInv, cut into the parts that different actions disturb. *)
LEMMA TypeInvParts == TypeInv <=> TypeRest /\ TypeList /\ SendBuffer(m_bufferSend)
BY DEF TypeInv, TypeOK, TypeRest, TypeList, SendBuffer, AnyHandler

(* The same in the state after a step. *)
LEMMA TypeInvPartsNext ==
  TypeInv' <=> TypeRest' /\ TypeList' /\ SendBuffer(m_bufferSend')
BY DEF TypeInv, TypeOK, TypeRest, TypeList, SendBuffer, AnyHandler, InBounds, length

(* A connection starts with empty buffers (connection.h:67). *)
LEMMA TypeInit == Init => TypeInv
<1> SUFFICES ASSUME Init PROVE TypeInv OBVIOUS
<1>1. SendBuffer(m_bufferSend)
  BY ConnectionAssumption, NewBufferLemma DEF Init, SendBuffer
<1>2. TypeList BY DEF Init, TypeList
<1>3. TypeRest
  <2>1. /\ ioQueue \in Seq(AnyHandler) /\ wire \in Seq(Nat)
        /\ m_call \in Seq({"connect", "recv", "close", "start"})
    BY EmptySeq DEF Init
  <2> HIDE DEF AnyHandler
  <2> QED BY <2>1 DEF Init, TypeRest, NoWrite
<1> QED BY <1>1, <1>2, <1>3, TypeInvParts

(* Starting a read. *)
LEMMA BeginReadFacts ==
  ASSUME beginRead(Tail(ioQueue)), rdOps \in Nat
  PROVE  /\ rdOps' \in Nat
         /\ \/ ioQueue' = Tail(ioQueue)
            \/ ioQueue' = Append(Tail(ioQueue), Handler("handleReadSome", TRUE, 0))
<1>1. rdOps' = rdOps + 1 \/ rdOps' = rdOps BY DEF beginRead
<1>2. \/ ioQueue' = Tail(ioQueue)
      \/ ioQueue' = Append(Tail(ioQueue), Handler("handleReadSome", TRUE, 0))
  BY DEF beginRead
<1>3. rdOps' \in Nat BY <1>1
<1> QED BY <1>2, <1>3

(* The handlers that a close completes are handlers. *)
LEMMA AbortedTypes ==
  ASSUME TypeOK
  PROVE  Aborted \in Seq(AnyHandler)
<1> DEFINE x == [i \in 1..rdOps |-> Handler("handleReadSome", TRUE, 0)]
           y == IF sock = "connecting" THEN << Handler("handleConnect", TRUE, 0) >> ELSE << >>
           z == IF wrOp.st = "flight" THEN << Handler("handleWrite", TRUE, wrOp.n) >> ELSE << >>
<1>1. rdOps \in Nat /\ wrOp.n \in Nat BY DEF TypeOK
<1>2. /\ Handler("handleReadSome", TRUE, 0) \in AnyHandler
      /\ Handler("handleConnect", TRUE, 0) \in AnyHandler
      /\ Handler("handleWrite", TRUE, wrOp.n) \in AnyHandler
  BY <1>1, QueueTypes DEF RawHandlers
<1> HIDE DEF AnyHandler
<1>3. \A h \in AnyHandler : << h >> \in Seq(AnyHandler) OBVIOUS
<1>4. x \in Seq(AnyHandler)
  <2> DEFINE a == Handler("handleReadSome", TRUE, 0)
  <2>1. a \in AnyHandler BY <1>2
  <2> HIDE DEF a
  <2>2. [i \in 1..rdOps |-> a] \in Seq(AnyHandler) BY <1>1, <2>1
  <2> QED BY <2>2 DEF a
<1>5. y \in Seq(AnyHandler) /\ z \in Seq(AnyHandler) BY <1>2, <1>3, EmptySeq
<1>6. Aborted = x \o y \o z BY DEF Aborted
<1> HIDE DEF x, y, z
<1>7. x \o y \in Seq(AnyHandler) BY <1>4, <1>5, ConcatProperties
<1> QED BY <1>5, <1>6, <1>7, ConcatProperties

(* Pushing an event keeps the type of m_call. *)
LEMMA PushTypes ==
  ASSUME TypeOK
  PROVE  \A ev \in {"connect", "recv", "close", "start"} :
           Append(m_call, ev) \in Seq({"connect", "recv", "close", "start"})
<1> DEFINE E == {"connect", "recv", "close", "start"}
<1>1. m_call \in Seq(E) BY DEF TypeOK
<1> HIDE DEF E
<1>2. \A ev \in E : Append(m_call, ev) \in Seq(E) BY <1>1, AppendProperties
<1> QED BY <1>2 DEF E

(* Steps of the io thread that leave the send buffers alone. *)
LEMMA TypeIo ==
  ASSUME TypeInv,
         HandlAccept \/ HandleConnect \/ HandleReadSome \/ StartWrite \/ HandleClose
           \/ CloseSocket \/ UseAfterFree
  PROVE  TypeRest' /\ UNCHANGED <<m_sendList, m_bufferSend>>
<1>1. TypeRest /\ TypeOK /\ rdOps \in Nat BY TypeInvParts DEF TypeInv, TypeOK
<1>2. SendBuffer(m_bufferSend) BY TypeInvParts
<1>3. /\ ioQueue \in Seq(AnyHandler)
      /\ ioQueue # << >> => Tail(ioQueue) \in Seq(AnyHandler)
      /\ ioQueue # << >> => \A er \in BOOLEAN : close(Tail(ioQueue), er) \in Seq(AnyHandler)
  BY <1>1, QueueTypes DEF TypeRest
<1>4. Handler("handleReadSome", TRUE, 0) \in AnyHandler
      /\ Handler("handleWrite", TRUE, 0) \in AnyHandler
  BY <1>1, QueueTypes DEF RawHandlers
<1>5. \A ev \in {"connect", "recv", "close", "start"} :
        Append(m_call, ev) \in Seq({"connect", "recv", "close", "start"})
  BY <1>1, PushTypes
<1> DEFINE E == {"connect", "recv", "close", "start"}
<1>6. ASSUME ioQueue' \in Seq(AnyHandler), m_call' \in Seq(E), rdOps' \in Nat,
             m_connect' \in BOOLEAN, pc' \in {"idle", "fill", "start", "close"},
             sock' \in {sock, "closed"}, m_isSend' \in BOOLEAN, crashed' \in BOOLEAN,
             wrOp' \in [st : {"none", "flight", "done"}, base : Nat, len : Nat, n : Nat],
             UNCHANGED <<owner, accept, polled, online, accepted, wire, sent, starts, kicks,
                         reads, fails>>
      PROVE  TypeRest'
  <2> HIDE DEF AnyHandler
  <2> QED BY <1>1, <1>6 DEF TypeRest
<1> HIDE DEF AnyHandler, E
<1>7. ASSUME ioQueue # << >>, beginRead(Tail(ioQueue))
      PROVE  ioQueue' \in Seq(AnyHandler) /\ rdOps' \in Nat
  <2>1. /\ rdOps' \in Nat
        /\ \/ ioQueue' = Tail(ioQueue)
           \/ ioQueue' = Append(Tail(ioQueue), Handler("handleReadSome", TRUE, 0))
    BY <1>1, <1>7, BeginReadFacts
  <2>2. Append(Tail(ioQueue), Handler("handleReadSome", TRUE, 0)) \in Seq(AnyHandler)
    BY <1>3, <1>4, <1>7, AppendProperties
  <2> QED BY <1>3, <1>7, <2>1, <2>2
<1>8. /\ m_call \in Seq(E) /\ "connect" \in E /\ "start" \in E /\ "recv" \in E /\ "close" \in E
      /\ \A ev \in E : Append(m_call, ev) \in Seq(E)
      /\ m_connect \in BOOLEAN /\ pc \in {"idle", "fill", "start", "close"}
      /\ m_isSend \in BOOLEAN /\ crashed \in BOOLEAN
      /\ wrOp \in [st : {"none", "flight", "done"}, base : Nat, len : Nat, n : Nat]
  BY <1>1, <1>5 DEF TypeRest, E
<1>9. CASE HandlAccept
  <2>1. /\ ioQueue # << >> /\ beginRead(Tail(ioQueue)) /\ m_call' = Append(m_call, "connect")
        /\ m_connect' = TRUE
        /\ UNCHANGED <<owner, crashed, accept, m_isSend, m_sendList, m_bufferSend, sock, wrOp,
                       wire, sent, reads, fails, pc, polled, online, accepted, starts, kicks>>
    BY <1>9 DEF HandlAccept, Run, push
  <2> QED BY <1>6, <1>7, <1>8, <2>1
<1>10. CASE HandleConnect
  <2>1. /\ ioQueue # << >>
        /\ UNCHANGED <<owner, crashed, accept, m_isSend, m_sendList, m_bufferSend, sock, wrOp,
                       wire, sent, reads, fails, pc, polled, online, accepted, starts, kicks>>
    BY <1>10 DEF HandleConnect, Run
  <2>2. /\ m_connect' \in {TRUE, m_connect}
        /\ m_call' \in {m_call, Append(m_call, "connect"), Append(m_call, "start")}
        /\ beginRead(Tail(ioQueue)) \/ (ioQueue' = Tail(ioQueue) /\ rdOps' = rdOps)
    BY <1>10 DEF HandleConnect, push
  <2>3. ioQueue' \in Seq(AnyHandler) /\ rdOps' \in Nat BY <1>1, <1>3, <1>7, <2>1, <2>2
  <2> QED BY <1>6, <1>8, <2>1, <2>2, <2>3
<1>11. CASE HandleReadSome
  <2>1. /\ ioQueue # << >>
        /\ UNCHANGED <<owner, crashed, accept, m_connect, m_isSend, m_sendList, m_bufferSend,
                       sock, wrOp, wire, sent, reads, fails, pc, polled, online, accepted,
                       starts, kicks>>
    BY <1>11 DEF HandleReadSome, Run, connVars
  <2>2. /\ m_call' \in {m_call, Append(m_call, "recv")}
        /\ \/ beginRead(Tail(ioQueue))
           \/ ioQueue' \in {Tail(ioQueue), close(Tail(ioQueue), TRUE)} /\ rdOps' = rdOps
    BY <1>11 DEF HandleReadSome, push
  <2>3. ioQueue' \in Seq(AnyHandler) /\ rdOps' \in Nat BY <1>1, <1>3, <1>7, <2>1, <2>2
  <2> QED BY <1>6, <1>8, <2>1, <2>2, <2>3
<1>12. CASE StartWrite
  <2>1. needReadLength(m_bufferSend) \in Nat /\ m_bufferSend.readPos \in Nat
    BY <1>2, SendBufferFacts DEF SendBuffer
  <2>2. wrOp' \in [st : {"none", "flight", "done"}, base : Nat, len : Nat, n : Nat]
    <3>1. \/ wrOp' = wrOp
          \/ wrOp' = [st |-> "flight", base |-> m_bufferSend.readPos,
                      len |-> needReadLength(m_bufferSend), n |-> 0]
          \/ wrOp' = [st |-> "done", base |-> m_bufferSend.readPos,
                      len |-> needReadLength(m_bufferSend), n |-> 0]
      BY <1>12 DEF StartWrite
    <3> QED BY <1>8, <2>1, <3>1
  <2>3. /\ pc' = "idle" /\ m_isSend' \in {TRUE, m_isSend}
        /\ ioQueue' \in {ioQueue, Append(ioQueue, Handler("handleWrite", TRUE, 0))}
        /\ UNCHANGED <<owner, m_connect, m_sendList, m_bufferSend, sock, rdOps, wire, sent,
                       reads, fails, mainVars, crashed>>
    BY <1>12 DEF StartWrite
  <2>4. ioQueue' \in Seq(AnyHandler)
    <3> DEFINE a == Handler("handleWrite", TRUE, 0)
    <3>1. a \in AnyHandler BY <1>4
    <3> HIDE DEF a
    <3>2. Append(ioQueue, a) \in Seq(AnyHandler) BY <1>3, <3>1, AppendProperties
    <3> QED BY <1>3, <2>3, <3>2 DEF a
  <2> QED BY <1>1, <1>6, <1>8, <2>2, <2>3, <2>4 DEF mainVars
<1>13. CASE HandleClose
  <2>1. /\ ioQueue # << >> /\ pc' \in {pc, "close"}
        /\ ioQueue' \in {Tail(ioQueue), close(Tail(ioQueue), FALSE)}
        /\ UNCHANGED <<owner, crashed, connVars, kernVars, mainVars>>
    BY <1>13 DEF HandleClose, Run
  <2>2. ioQueue' \in Seq(AnyHandler) BY <1>3, <2>1
  <2> QED BY <1>1, <1>6, <1>8, <2>1, <2>2 DEF connVars, kernVars, mainVars
<1>14. CASE CloseSocket
  <2>1. ioQueue' \in Seq(AnyHandler)
    <3>1. ioQueue' = ioQueue \o Aborted BY <1>14 DEF CloseSocket
    <3> QED BY <1>1, <1>3, <3>1, AbortedTypes, ConcatProperties
  <2>2. wrOp' \in [st : {"none", "flight", "done"}, base : Nat, len : Nat, n : Nat]
    BY <1>8, <1>14 DEF CloseSocket
  <2>3. m_call' \in Seq(E) BY <1>8, <1>14 DEF CloseSocket, push
  <2>4. /\ pc' = "idle" /\ sock' = "closed" /\ rdOps' = 0 /\ m_connect' = FALSE
        /\ UNCHANGED <<owner, accept, m_isSend, m_sendList, m_bufferSend, wire, sent, reads,
                       fails, polled, online, accepted, starts, kicks, crashed>>
    BY <1>14 DEF CloseSocket
  <2> QED BY <1>6, <1>8, <2>1, <2>2, <2>3, <2>4
<1>15. CASE UseAfterFree
  <2>1. crashed' = TRUE /\ UNCHANGED <<owner, connVars, kernVars, ioQueue, pc, mainVars>>
    BY <1>15 DEF UseAfterFree
  <2> QED BY <1>1, <1>3, <1>6, <1>8, <2>1 DEF connVars, kernVars, mainVars
<1> QED BY <1>9, <1>10, <1>11, <1>12, <1>13, <1>14, <1>15

(* What connect() leaves. *)
LEMMA ConnectTypes ==
  ASSUME TypeOK, connect
  PROVE  /\ ioQueue' \in Seq(AnyHandler) /\ fails' \in Nat
         /\ sock' \in {"new", "connecting", "failed", "open", "broken", "closed"}
<1>1. /\ ioQueue \in Seq(AnyHandler) /\ fails \in Nat
      /\ sock \in {"new", "connecting", "failed", "open", "broken", "closed"}
  BY DEF TypeOK, AnyHandler
<1>2. Append(ioQueue, Handler("handleConnect", TRUE, 0)) \in Seq(AnyHandler)
  BY QueueTypes DEF RawHandlers
<1> HIDE DEF AnyHandler
<1>3. /\ ioQueue' = ioQueue \/ ioQueue' = Append(ioQueue, Handler("handleConnect", TRUE, 0))
      /\ fails' = fails \/ fails' = fails + 1
      /\ sock' \in {sock, "connecting"}
  BY DEF connect
<1>4. fails' \in Nat BY <1>1, <1>3
<1>5. ioQueue' \in Seq(AnyHandler) BY <1>1, <1>2, <1>3
<1> QED BY <1>1, <1>3, <1>4, <1>5

(* Steps of the kernel, the peer and the acceptor, and calls of close(),     *)
(* start() and poll().                                                       *)
LEMMA TypeKernel ==
  ASSUME TypeInv, Kernel \/ Accepting \/ CloseCurrent \/ Start \/ Poll \/ Kick
  PROVE  TypeRest' /\ UNCHANGED <<m_sendList, m_bufferSend>>
<1> USE DEF kernelUnchanged, acceptUnchanged, connVars, kernVars
<1>1. TypeRest /\ TypeOK /\ SendBuffer(m_bufferSend) BY TypeInvParts DEF TypeInv
<1>2. /\ \A h \in RawHandlers \cup {"handlAccept"}, er \in BOOLEAN, size \in Nat :
           Append(ioQueue, Handler(h, er, size)) \in Seq(AnyHandler)
      /\ \A er \in BOOLEAN : close(ioQueue, er) \in Seq(AnyHandler)
      /\ ioQueue \in Seq(AnyHandler)
  BY <1>1, QueueTypes DEF TypeRest
<1>3. /\ {"handleReadSome", "handleWrite", "handleConnect"} = RawHandlers
      /\ 0 \in Nat /\ 1 \in Nat /\ TRUE \in BOOLEAN /\ FALSE \in BOOLEAN
      /\ wrOp.len \in Nat /\ wrOp.n \in Nat /\ rdOps \in Nat
  BY <1>1 DEF RawHandlers, TypeRest
<1> DEFINE W == [st : {"none", "flight", "done"}, base : Nat, len : Nat, n : Nat]
           S == {"new", "connecting", "failed", "open", "broken", "closed"}
           A == {"none", "wait", "ok", "err", "posted", "gone"}
<1>4. /\ wire \in Seq(Nat) /\ << >> \in Seq(Nat) /\ sent \in Nat /\ reads \in Nat
      /\ fails \in Nat /\ wrOp \in W /\ sock \in S /\ accept \in A
      /\ [wrOp EXCEPT !.st = "done"] \in W
  <2>1. wrOp \in W BY <1>1 DEF TypeRest
  <2>2. [wrOp EXCEPT !.st = "done"] \in W BY <2>1
  <2> HIDE DEF W
  <2> QED BY <1>1, <2>1, <2>2, EmptySeq DEF TypeRest
<1> HIDE DEF AnyHandler
<1>5. ASSUME ioQueue' \in Seq(AnyHandler), rdOps' \in Nat, sock' \in S, accept' \in A,
             wrOp' \in W, wire' \in Seq(Nat), sent' \in Nat, reads' \in Nat, fails' \in Nat,
             UNCHANGED <<owner, connVars, pc, m_call, polled, online, accepted, starts, kicks,
                         crashed>>
      PROVE  TypeRest' /\ UNCHANGED <<m_sendList, m_bufferSend>>
  BY <1>1, <1>5 DEF TypeRest
<1> HIDE DEF W, S, A
<1>6. CASE Accepted
  <2>1. "ok" \in A /\ "open" \in S BY DEF A, S
  <2> QED BY <1>2, <1>3, <1>4, <1>5, <1>6, <2>1 DEF Accepted
<1>7. CASE AcceptFails
  <2>1. "err" \in A BY DEF A
  <2> QED BY <1>2, <1>3, <1>4, <1>5, <1>7, <2>1 DEF AcceptFails
<1>8. CASE ConnectDone
  <2>1. "open" \in S BY DEF S
  <2> QED BY <1>2, <1>3, <1>4, <1>5, <1>8, <2>1 DEF ConnectDone
<1>9. CASE ConnectFail
  <2>1. fails' \in Nat /\ "failed" \in S BY <1>4, <1>9 DEF ConnectFail, S
  <2> QED BY <1>2, <1>3, <1>4, <1>5, <1>9, <2>1 DEF ConnectFail
<1>10. CASE Transfer
  <2> DEFINE byte == Memory(wrOp.base + wrOp.n + 1)
  <2>1. byte \in Nat
    BY <1>1, ElementOfSeq DEF Memory, SendBuffer, Buffer, length
  <2> HIDE DEF byte
  <2>2. wire' = Append(wire, byte) /\ sent' \in {byte, sent} BY <1>10 DEF Transfer, byte
  <2>3. wire' \in Seq(Nat) /\ sent' \in Nat BY <1>4, <2>1, <2>2
  <2>4. wrOp' \in W
    <3>1. wrOp' = [wrOp EXCEPT !.n = wrOp.n + 1] /\ wrOp.n + 1 \in Nat BY <1>3, <1>10 DEF Transfer
    <3> QED BY <1>4, <3>1 DEF W
  <2>5. UNCHANGED <<accept, sock, rdOps, reads, fails, ioQueue>> /\ kernelUnchanged
    BY <1>10 DEF Transfer
  <2> QED BY <1>2, <1>3, <1>4, <1>5, <2>3, <2>4, <2>5
<1>11. CASE WriteDone BY <1>2, <1>3, <1>4, <1>5, <1>11 DEF WriteDone
<1>12. CASE WriteFail BY <1>2, <1>3, <1>4, <1>5, <1>12 DEF WriteFail
<1>13. CASE ReadDone
  <2>1. reads' \in Nat /\ rdOps' \in Nat BY <1>3, <1>4, <1>13 DEF ReadDone
  <2> QED BY <1>2, <1>3, <1>4, <1>5, <1>13, <2>1 DEF ReadDone
<1>14. CASE PeerEof
  <2>1. rdOps' \in Nat BY <1>3, <1>14 DEF PeerEof
  <2> QED BY <1>2, <1>3, <1>4, <1>5, <1>14, <2>1 DEF PeerEof
<1>15. CASE PeerReset
  <2>1. "broken" \in S BY DEF S
  <2> QED BY <1>2, <1>3, <1>4, <1>5, <1>15, <2>1 DEF PeerReset
<1>16. CASE ReadFail
  <2>1. rdOps' \in Nat BY <1>3, <1>16 DEF ReadFail
  <2> QED BY <1>2, <1>3, <1>4, <1>5, <1>16, <2>1 DEF ReadFail
<1>17. CASE AcceptSocket
  <2>1. "posted" \in A BY DEF A
  <2>2. ioQueue' \in Seq(AnyHandler) BY <1>2, <1>3, <1>17 DEF AcceptSocket
  <2> QED BY <1>3, <1>4, <1>5, <1>17, <2>1, <2>2 DEF AcceptSocket
<1>18. CASE BeginAccept
  <2>1. "gone" \in A BY DEF A
  <2> QED BY <1>2, <1>3, <1>4, <1>5, <1>18, <2>1 DEF BeginAccept
<1>19. CASE CloseCurrent \/ Kick
  <2>1. ioQueue' \in Seq(AnyHandler) BY <1>2, <1>19 DEF CloseCurrent, Kick
  <2>2. kicks' \in Nat
    <3>1. kicks \in Nat /\ kicks' = kicks + 1 BY <1>1, <1>19 DEF CloseCurrent, Kick, TypeRest
    <3> QED BY <3>1
  <2>3. UNCHANGED <<owner, accept, connVars, kernVars, pc, m_call, polled, online, accepted,
                    starts, crashed>>
    BY <1>19 DEF CloseCurrent, Kick
  <2> QED BY <1>1, <2>1, <2>2, <2>3 DEF TypeRest
<1>20. CASE Start
  <2>1. ioQueue' \in Seq(AnyHandler) /\ fails' \in Nat
        /\ sock' \in {"new", "connecting", "failed", "open", "broken", "closed"}
    BY <1>1, <1>20, ConnectTypes DEF Start
  <2>2. starts' \in Nat
    <3>1. starts \in Nat /\ starts' = starts + 1 BY <1>1, <1>20 DEF Start, TypeRest
    <3> QED BY <3>1
  <2>3. UNCHANGED <<owner, accept, connVars, rdOps, wrOp, wire, sent, reads, pc, m_call,
                    polled, online, accepted, kicks, crashed>>
    BY <1>20 DEF Start
  <2> QED BY <1>1, <2>1, <2>2, <2>3 DEF TypeRest
<1>21. CASE Poll
  <2>1. ioQueue' \in Seq(AnyHandler) /\ fails' \in Nat
        /\ sock' \in {"new", "connecting", "failed", "open", "broken", "closed"}
    <3>1. connect \/ UNCHANGED <<sock, fails, ioQueue>> BY <1>21 DEF Poll
    <3>2. CASE connect BY <1>1, <3>2, ConnectTypes
    <3>3. CASE UNCHANGED <<sock, fails, ioQueue>> BY <1>1, <1>2, <3>3 DEF TypeRest
    <3> QED BY <3>1, <3>2, <3>3
  <2>2. polled' \in Nat
    <3>1. polled \in Nat /\ polled' = polled + 1 BY <1>1, <1>21 DEF Poll, TypeRest
    <3> QED BY <3>1
  <2>3. online' \in BOOLEAN BY <1>1, <1>21 DEF Poll, TypeRest
  <2>4. UNCHANGED <<owner, accept, connVars, rdOps, wrOp, wire, sent, reads, pc, m_call,
                    accepted, starts, kicks, crashed>>
    BY <1>21 DEF Poll
  <2> QED BY <1>1, <2>1, <2>2, <2>3, <2>4 DEF TypeRest
<1> QED BY <1>6, <1>7, <1>8, <1>9, <1>10, <1>11, <1>12, <1>13, <1>14, <1>15, <1>16, <1>17,
           <1>18, <1>19, <1>20, <1>21
    DEF Kernel, Accepting

(* What a step of writeMessage moves from the first block to m_bufferSend. *)
LEMMA FillFacts ==
  ASSUME TypeInv, m_sendList # << >>
  PROVE  LET src == Head(m_sendList)
             p   == readBufferFrom(src, m_bufferSend)
             q   == readBufferInto(src, m_bufferSend)
             k   == readBufferLen(src, m_bufferSend)
         IN
         /\ src = m_sendList[1] /\ src \in Buffer(Nat) /\ InBounds(src)
         /\ k \in Nat /\ k <= needReadLength(src)
         /\ p \in Buffer(Nat) /\ InBounds(p)
         /\ p.buf = src.buf /\ p.readPos = src.readPos + k
         /\ SendBuffer(q)
         /\ length(q) = length(m_bufferSend) + k
         /\ \A i \in 1..length(m_bufferSend) : q.buf[i] = m_bufferSend.buf[i]
         /\ \A i \in 1..k : q.buf[length(m_bufferSend) + i] = src.buf[src.readPos + i]
<1> DEFINE src == Head(m_sendList)
           p   == readBufferFrom(src, m_bufferSend)
           q   == readBufferInto(src, m_bufferSend)
           k   == readBufferLen(src, m_bufferSend)
<1>1. TypeList /\ SendBuffer(m_bufferSend) BY TypeInvParts
<1>2. Len(m_sendList) \in Nat \ {0} /\ src = m_sendList[1] BY <1>1, EmptySeq DEF TypeList
<1>3. src \in Buffer(Nat) /\ InBounds(src) BY <1>1, <1>2, ElementOfSeq DEF TypeList
<1> HIDE DEF src
<1>4. /\ k \in Nat /\ k <= needReadLength(src)
      /\ p \in Buffer(Nat) /\ InBounds(p)
      /\ p.buf = src.buf /\ p.readPos = src.readPos + k
      /\ q \in Buffer(Nat) /\ InBounds(q) /\ q.readPos = m_bufferSend.readPos /\ ~q.lock
      /\ length(q) = length(m_bufferSend) + k
      /\ \A i \in 1..length(m_bufferSend) : q.buf[i] = m_bufferSend.buf[i]
      /\ \A i \in 1..k : q.buf[length(m_bufferSend) + i] = src.buf[src.readPos + i]
  <2>1. m_bufferSend \in Buffer(Nat) /\ InBounds(m_bufferSend) /\ ~m_bufferSend.lock
    BY <1>1 DEF SendBuffer
  <2> QED BY <1>3, <2>1, ReadBufferLemma
<1>5. SendBuffer(q) BY <1>1, <1>4 DEF SendBuffer
<1> QED BY <1>2, <1>3, <1>4, <1>5 DEF src

(* writeMessage and handleWrite leave a send buffer. *)
LEMMA TypeWrite ==
  ASSUME TypeInv, WriteMessage \/ HandleWrite
  PROVE  TypeRest' /\ SendBuffer(m_bufferSend') /\ UNCHANGED m_sendList
<1>1. TypeRest /\ TypeOK /\ SendBuffer(m_bufferSend) BY TypeInvParts DEF TypeInv
<1>2. ioQueue # << >> BY DEF WriteMessage, HandleWrite, Run
<1>3. /\ Head(ioQueue).size \in Nat
      /\ Tail(ioQueue) \in Seq(AnyHandler)
      /\ close(Tail(ioQueue), TRUE) \in Seq(AnyHandler)
  BY <1>1, <1>2, QueueTypes DEF AnyHandler
<1>4. SendBuffer(clearReadBuffer(readData(m_bufferSend, Head(ioQueue).size)))
  BY <1>1, <1>3, EnterTypes
<1>5. /\ m_bufferSend' \in {m_bufferSend, clearReadBuffer(readData(m_bufferSend, Head(ioQueue).size))}
      /\ pc' \in {"fill", pc}
      /\ ioQueue' \in {Tail(ioQueue), close(Tail(ioQueue), TRUE)}
      /\ m_isSend' \in {m_isSend, FALSE} /\ wrOp' \in {wrOp, NoWrite}
      /\ UNCHANGED <<owner, crashed, m_connect, m_sendList, sock, rdOps, wire, sent, reads,
                     fails, mainVars>>
  BY DEF WriteMessage, HandleWrite, Run, EnterWriteMessage, kernVars
<1>6. SendBuffer(m_bufferSend') BY <1>1, <1>4, <1>5
<1>7. NoWrite \in [st : {"none", "flight", "done"}, base : Nat, len : Nat, n : Nat]
  BY DEF NoWrite
<1>8. TypeRest'
  <2>1. ioQueue' \in Seq(AnyHandler) BY <1>3, <1>5
  <2>2. wrOp' \in [st : {"none", "flight", "done"}, base : Nat, len : Nat, n : Nat]
    BY <1>1, <1>5, <1>7 DEF TypeRest
  <2>3. m_isSend' \in BOOLEAN /\ pc' \in {"idle", "fill", "start", "close"}
    BY <1>1, <1>5 DEF TypeRest
  <2>4. UNCHANGED <<owner, crashed, m_connect, sock, rdOps, wire, sent, reads, fails, mainVars>>
    BY <1>5
  <2> HIDE DEF AnyHandler
  <2> QED BY <1>1, <2>1, <2>2, <2>3, <2>4 DEF TypeRest, mainVars
<1> QED BY <1>5, <1>6, <1>8

(* One block is moved to the send buffer, as far as there is room for it. *)
LEMMA TypeFill ==
  ASSUME TypeInv, FillSendBuffer
  PROVE  TypeRest' /\ SendBuffer(m_bufferSend') /\ TypeList'
<1> DEFINE src == Head(m_sendList)
           p   == readBufferFrom(src, m_bufferSend)
<1>1. TypeRest /\ TypeList BY TypeInvParts
<1>2. m_sendList # << >> BY DEF FillSendBuffer
<1>3. /\ p \in Buffer(Nat) /\ InBounds(p)
      /\ SendBuffer(readBufferInto(src, m_bufferSend))
  BY <1>2, FillFacts
<1>4. /\ m_bufferSend' = readBufferInto(src, m_bufferSend)
      /\ pc' \in {"start", pc}
      /\ m_sendList' = << p >> \o Tail(m_sendList) \/ m_sendList' = Tail(m_sendList)
      /\ UNCHANGED <<owner, m_connect, m_isSend, kernVars, ioQueue, mainVars, crashed>>
  BY DEF FillSendBuffer
<1>5. TypeRest' BY <1>1, <1>4 DEF TypeRest, kernVars, mainVars
<1> HIDE DEF p, src
<1>6. /\ Tail(m_sendList) \in Seq(Buffer(Nat))
      /\ Len(Tail(m_sendList)) = Len(m_sendList) - 1
      /\ Len(m_sendList) \in Nat \ {0}
      /\ \A i \in 1..Len(Tail(m_sendList)) : InBounds(Tail(m_sendList)[i])
  <2> DEFINE l == m_sendList
  <2>1. l \in Seq(Buffer(Nat)) /\ l # << >> /\ \A i \in 1..Len(l) : InBounds(l[i])
    BY <1>1, <1>2 DEF TypeList
  <2> HIDE DEF l
  <2>2. /\ Tail(l) \in Seq(Buffer(Nat)) /\ Len(Tail(l)) = Len(l) - 1 /\ Len(l) \in Nat \ {0}
        /\ \A i \in 1..Len(Tail(l)) : Tail(l)[i] = l[i + 1]
    BY <2>1, HeadTailProperties, EmptySeq
  <2>3. \A i \in 1..Len(Tail(l)) : i + 1 \in 1..Len(l) BY <2>2
  <2>4. \A i \in 1..Len(Tail(l)) : InBounds(Tail(l)[i]) BY <2>1, <2>2, <2>3
  <2> QED BY <2>2, <2>4 DEF l
<1>7. CASE m_sendList' = Tail(m_sendList) BY <1>3, <1>4, <1>5, <1>6, <1>7 DEF TypeList
<1>8. CASE m_sendList' = << p >> \o Tail(m_sendList)
  <2> DEFINE t == Tail(m_sendList)
             u == << p >> \o t
  <2>1. << p >> \in Seq(Buffer(Nat)) /\ Len(<< p >>) = 1 /\ << p >>[1] = p BY <1>3
  <2>2. t \in Seq(Buffer(Nat)) /\ Len(t) \in Nat /\ \A i \in 1..Len(t) : InBounds(t[i])
    BY <1>6, LenProperties
  <2> HIDE DEF t
  <2>3. /\ u \in Seq(Buffer(Nat)) /\ Len(u) = 1 + Len(t)
        /\ \A i \in 1..(1 + Len(t)) : u[i] = IF i <= 1 THEN << p >>[i] ELSE t[i - 1]
    BY <2>1, <2>2, ConcatProperties
  <2>4. \A i \in 1..Len(u) : InBounds(u[i])
    <3> TAKE i \in 1..Len(u)
    <3>1. CASE i = 1 BY <3>1, <1>3, <2>1, <2>2, <2>3
    <3>2. CASE i > 1
      <4>1. i - 1 \in 1..Len(t) /\ i \in 1..(1 + Len(t)) /\ ~(i <= 1) BY <3>2, <2>2, <2>3
      <4>2. u[i] = t[i - 1] BY <4>1, <2>3
      <4> QED BY <4>1, <4>2, <2>2
    <3>3. i = 1 \/ i > 1 BY <2>2, <2>3
    <3> QED BY <3>1, <3>2, <3>3
  <2>5. TypeList' BY <1>8, <2>3, <2>4 DEF TypeList, t
  <2> QED BY <1>3, <1>4, <1>5, <2>5
<1> QED BY <1>4, <1>7, <1>8

(* send() appends one block to m_sendList. *)
LEMMA TypeSend ==
  ASSUME TypeInv, Send
  PROVE  TypeRest' /\ TypeList' /\ UNCHANGED m_bufferSend
<1>1. TypeRest /\ TypeList /\ TypeOK BY TypeInvParts DEF TypeInv
<1>2. PICK len \in BlockLens :
        /\ m_sendList' = Append(m_sendList,
                           tailData(NewBuffer(len), [i \in 1..len |-> accepted + i]))
        /\ ioQueue' = Append(ioQueue, Handler("writeMessage", FALSE, 0))
        /\ accepted' = accepted + len
        /\ UNCHANGED <<owner, accept, m_connect, m_isSend, m_bufferSend, kernVars, pc,
                       m_call, polled, online, starts, kicks, crashed>>
  BY DEF Send
<1>3. len \in Nat BY ConnectionAssumption
<1>4. accepted \in Nat BY <1>1 DEF TypeRest
<1> DEFINE blk == tailData(NewBuffer(len), [i \in 1..len |-> accepted + i])
<1>5. blk \in Buffer(Nat) /\ InBounds(blk) BY <1>3, <1>4, BlockLemma
<1> HIDE DEF blk
<1>6. m_sendList' = Append(m_sendList, blk) BY <1>2 DEF blk
<1>7. TypeList'
  <2>1. /\ m_sendList' \in Seq(Buffer(Nat)) /\ Len(m_sendList') = Len(m_sendList) + 1
        /\ Len(m_sendList) \in Nat
        /\ \A i \in 1..Len(m_sendList) : m_sendList'[i] = m_sendList[i]
        /\ m_sendList'[Len(m_sendList) + 1] = blk
    BY <1>1, <1>5, <1>6, AppendProperties, LenProperties DEF TypeList
  <2>2. \A i \in 1..Len(m_sendList') : i \in 1..Len(m_sendList) \/ i = Len(m_sendList) + 1
    BY <2>1
  <2>3. \A i \in 1..Len(m_sendList') : InBounds(m_sendList'[i])
    BY <2>1, <2>2, <1>1, <1>5 DEF TypeList
  <2> QED BY <2>1, <2>3 DEF TypeList
<1>8. ioQueue' \in Seq(AnyHandler) BY <1>1, <1>2, QueueTypes
<1>9. accepted' \in Nat BY <1>2, <1>3, <1>4
<1>10. UNCHANGED <<owner, accept, m_connect, m_isSend, m_bufferSend, kernVars, pc, m_call,
                   polled, online, starts, kicks, crashed>>
  BY <1>2
<1>11. TypeRest' BY <1>1, <1>8, <1>9, <1>10 DEF TypeRest, kernVars
<1> QED BY <1>7, <1>10, <1>11

(* Every step keeps the types and the bounds of the buffers. *)
LEMMA TypeStep == TypeInv /\ [Next]_vars => TypeInv'
<1> SUFFICES ASSUME TypeInv, [Next]_vars PROVE TypeInv' OBVIOUS
<1>1. TypeRest /\ TypeList /\ SendBuffer(m_bufferSend) BY TypeInvParts
<1>2. ASSUME TypeRest', UNCHANGED <<m_sendList, m_bufferSend>> PROVE TypeInv'
  BY <1>1, <1>2, TypeInvPartsNext DEF TypeList
<1>3. CASE UNCHANGED vars
  <2>1. TypeRest' BY <1>1, <1>3 DEF vars, connVars, kernVars, mainVars, TypeRest
  <2> QED BY <1>2, <1>3, <2>1 DEF vars, connVars
<1>4. CASE WriteMessage \/ HandleWrite
  <2>1. TypeRest' /\ SendBuffer(m_bufferSend') /\ UNCHANGED m_sendList BY <1>4, TypeWrite
  <2>2. TypeList' BY <1>1, <2>1 DEF TypeList
  <2> QED BY <2>1, <2>2, TypeInvPartsNext
<1>5. CASE FillSendBuffer BY <1>5, TypeFill, TypeInvPartsNext
<1>6. CASE Send
  <2>1. TypeRest' /\ TypeList' /\ m_bufferSend' = m_bufferSend BY <1>6, TypeSend
  <2> QED BY <1>1, <2>1, TypeInvPartsNext
<1>7. CASE HandlAccept \/ HandleConnect \/ HandleReadSome \/ StartWrite \/ HandleClose
             \/ CloseSocket \/ UseAfterFree
  BY <1>2, <1>7, TypeIo
<1>8. CASE Kernel \/ Accepting \/ CloseCurrent \/ Start \/ Poll \/ Kick
  BY <1>2, <1>8, TypeKernel
<1> QED BY <1>3, <1>4, <1>5, <1>6, <1>7, <1>8 DEF Next, Io, Main

(* Types and bounds hold in every state. *)
LEMMA TypeInvariant == Spec => []TypeInv
BY TypeInit, TypeStep, PTL DEF Spec

(***************************************************************************)
(* The variables of a Connection keep their types: among them the buffers, *)
(* whose contents the handlers move with readBuffer and clearReadBuffer.   *)
(***************************************************************************)
THEOREM ConnectionTypeCorrect == Spec => []TypeOK
<1>1. TypeInv => TypeOK BY DEF TypeInv
<1> QED BY <1>1, TypeInvariant, PTL
-----------------------------------------------------------------------------
(* Layer 2: what the application has been told, and what can be queued. *)

Event == {"connect", "recv", "close", "start"}

(* Told and EventOrder, of any sequence of events. *)
ToldIn(s, k) == \E i \in 1..k : s[i] = "connect" /\ \A j \in (i + 1)..k : s[j] # "close"

OrderIn(s) ==
  \A k \in 1..Len(s) :
    /\ s[k] = "recv" => ToldIn(s, k - 1)
    /\ s[k] \in {"connect", "start"} => ~ToldIn(s, k - 1)

(***************************************************************************)
(* m_connect is what the application will have been told when every event  *)
(* has been polled, online what it has been told so far.                   *)
(***************************************************************************)
EventInv ==
  /\ polled <= Len(m_call)
  /\ m_connect <=> ToldIn(m_call, Len(m_call))
  /\ online <=> ToldIn(m_call, polled)
  /\ OrderIn(m_call)

(* What the handlers of an accept and of a connect are, in a queue. *)
AcceptFree(q) == \A i \in 1..Len(q) : q[i].h # "handlAccept"
OneAccept(q) ==
  \A i, j \in 1..Len(q) : q[i].h = "handlAccept" /\ q[j].h = "handlAccept" => i = j
ConnectFree(q) == \A i \in 1..Len(q) : q[i].h # "handleConnect"

(***************************************************************************)
(* A connection is accepted once or not at all, and connects only when it  *)
(* is a client's: handlAccept finds m_connect unset.                       *)
(***************************************************************************)
AcceptInv ==
  /\ owner = "client" => accept = "none"
  /\ owner = "server" =>
       /\ sock \notin {"connecting", "failed"}
       /\ ConnectFree(ioQueue)
       /\ \A i \in 1..Len(m_call) : m_call[i] # "start"
       /\ accept = "wait" => sock \notin {"open", "broken"}
  /\ accept \in {"wait", "ok", "err"} => ~m_connect
  /\ accept \notin {"posted", "gone"} \/ m_connect => AcceptFree(ioQueue)
  /\ OneAccept(ioQueue)

(* What is ever queued: writeMessage is only posted by send(). *)
RunHandler == [h : RawHandlers \cup {"handlAccept", "handleClose"}, er : BOOLEAN, size : Nat]
                \cup [h : {"writeMessage"}, er : {FALSE}, size : {0}]

(* Nothing is written on a socket before its connect is told. *)
HandlerInv ==
  /\ ioQueue \in Seq(RunHandler)
  /\ ~m_connect => /\ wrOp.st # "flight"
                   /\ pc \notin {"fill", "start"}
                   /\ sock = "open" => wire = << >>

ControlInv == EventInv /\ AcceptInv /\ HandlerInv

(* Pushing an event keeps the events before it. *)
LEMMA PushFacts ==
  ASSUME NEW s \in Seq(Event), NEW ev \in Event
  PROVE  /\ Len(s) \in Nat /\ Len(Append(s, ev)) = Len(s) + 1
         /\ \A i \in 1..Len(s) : Append(s, ev)[i] = s[i]
         /\ Append(s, ev)[Len(s) + 1] = ev
         /\ \A i \in 1..(Len(s) + 1) : i \in 1..Len(s) \/ i = Len(s) + 1
<1> HIDE DEF Event
<1>1. Len(s) \in Nat BY LenProperties
<1>2. \A i \in 1..(Len(s) + 1) : i \in 1..Len(s) \/ i = Len(s) + 1 BY <1>1
<1> QED BY <1>1, <1>2, AppendProperties

(* What one more event tells. *)
LEMMA ToldNext ==
  ASSUME NEW s, NEW k \in Nat
  PROVE  ToldIn(s, k + 1) <=> s[k + 1] = "connect" \/ (s[k + 1] # "close" /\ ToldIn(s, k))
<1>1. /\ \A i \in 1..(k + 1) : i \in 1..k \/ i = k + 1
      /\ \A i \in 1..k : i \in 1..(k + 1) /\ k + 1 \in (i + 1)..(k + 1)
      /\ k + 1 \in 1..(k + 1)
      /\ \A i \in 1..k : \A j \in (i + 1)..(k + 1) : j \in (i + 1)..k \/ j = k + 1
      /\ \A i \in 1..k : \A j \in (i + 1)..k : j \in (i + 1)..(k + 1)
      /\ \A j \in ((k + 1) + 1)..(k + 1) : FALSE
  OBVIOUS
<1>2. ASSUME ToldIn(s, k + 1), s[k + 1] # "connect"
      PROVE  s[k + 1] # "close" /\ ToldIn(s, k)
  <2>1. PICK i \in 1..(k + 1) :
          s[i] = "connect" /\ \A j \in (i + 1)..(k + 1) : s[j] # "close"
    BY <1>2 DEF ToldIn
  <2>2. i \in 1..k BY <1>1, <1>2, <2>1
  <2>3. s[k + 1] # "close" BY <1>1, <2>1, <2>2
  <2>4. \A j \in (i + 1)..k : s[j] # "close" BY <1>1, <2>1, <2>2
  <2> QED BY <2>1, <2>2, <2>3, <2>4 DEF ToldIn
<1>3. ASSUME s[k + 1] = "connect" PROVE ToldIn(s, k + 1) BY <1>1, <1>3 DEF ToldIn
<1>4. ASSUME s[k + 1] # "close", ToldIn(s, k) PROVE ToldIn(s, k + 1)
  <2>1. PICK i \in 1..k : s[i] = "connect" /\ \A j \in (i + 1)..k : s[j] # "close"
    BY <1>4 DEF ToldIn
  <2>2. \A j \in (i + 1)..(k + 1) : s[j] # "close" BY <1>1, <1>4, <2>1
  <2> QED BY <1>1, <2>1, <2>2 DEF ToldIn
<1> QED BY <1>2, <1>3, <1>4

(* Two sequences that agree up to k tell the same up to k. *)
LEMMA ToldSame ==
  ASSUME NEW s, NEW t, NEW k \in Nat, \A i \in 1..k : t[i] = s[i]
  PROVE  ToldIn(t, k) <=> ToldIn(s, k)
<1>1. \A i \in 1..k : \A j \in (i + 1)..k : j \in 1..k OBVIOUS
<1> QED BY <1>1 DEF ToldIn

(* An event that is pushed tells the next thing, in order. *)
LEMMA OrderPush ==
  ASSUME NEW s \in Seq(Event), NEW ev \in Event, OrderIn(s),
         ev = "recv" => ToldIn(s, Len(s)),
         ev \in {"connect", "start"} => ~ToldIn(s, Len(s))
  PROVE  /\ OrderIn(Append(s, ev))
         /\ \A k \in 0..Len(s) : ToldIn(Append(s, ev), k) <=> ToldIn(s, k)
         /\ ToldIn(Append(s, ev), Len(s) + 1) <=>
              ev = "connect" \/ (ev # "close" /\ ToldIn(s, Len(s)))
<1> DEFINE n == Len(s)
           t == Append(s, ev)
<1>1. /\ n \in Nat /\ Len(t) = n + 1 /\ \A i \in 1..n : t[i] = s[i]
      /\ t[n + 1] = ev /\ \A i \in 1..(n + 1) : i \in 1..n \/ i = n + 1
  BY PushFacts
<1> HIDE DEF t
<1>2. ASSUME NEW k \in 0..n PROVE ToldIn(t, k) <=> ToldIn(s, k)
  <2>1. k \in Nat /\ \A i \in 1..k : i \in 1..n BY <1>1
  <2> QED BY <1>1, <2>1, ToldSame
<1>3. n \in 0..n BY <1>1
<1>4. ToldIn(t, n + 1) <=> ev = "connect" \/ (ev # "close" /\ ToldIn(s, n))
  BY <1>1, <1>2, <1>3, ToldNext
<1>5. ASSUME NEW k \in 1..Len(t)
      PROVE  /\ t[k] = "recv" => ToldIn(t, k - 1)
             /\ t[k] \in {"connect", "start"} => ~ToldIn(t, k - 1)
  <2>1. k - 1 \in 0..n BY <1>1
  <2>2. CASE k \in 1..n
    <3>1. t[k] = s[k] /\ (ToldIn(t, k - 1) <=> ToldIn(s, k - 1)) BY <1>1, <1>2, <2>1, <2>2
    <3> QED BY <2>2, <3>1 DEF OrderIn
  <2>3. CASE k = n + 1
    <3>1. t[k] = ev /\ k - 1 = n BY <1>1, <2>3
    <3>2. ToldIn(t, n) <=> ToldIn(s, n) BY <1>2, <1>3
    <3> QED BY <3>1, <3>2
  <2> QED BY <1>1, <2>2, <2>3
<1>6. OrderIn(t) BY <1>5 DEF OrderIn
<1> QED BY <1>2, <1>4, <1>6 DEF t

(* A step that pushes and polls no event. *)
LEMMA EventKeep ==
  ASSUME EventInv, UNCHANGED <<m_call, polled, online, m_connect>>
  PROVE  EventInv'
BY DEF EventInv, OrderIn, ToldIn

(* A step that pushes an event: m_connect goes with what it tells. *)
LEMMA EventPush ==
  ASSUME TypeInv, EventInv, NEW ev \in Event,
         m_call' = Append(m_call, ev),
         ev = "recv" => m_connect,
         ev \in {"connect", "start"} => ~m_connect,
         m_connect' <=> ev = "connect" \/ (ev # "close" /\ m_connect),
         UNCHANGED <<polled, online>>
  PROVE  EventInv'
<1> DEFINE n == Len(m_call)
<1>1. m_call \in Seq(Event) /\ polled \in Nat BY DEF TypeInv, TypeOK, Event
<1>2. n \in Nat /\ Len(m_call') = n + 1 BY <1>1, PushFacts
<1>3. /\ OrderIn(m_call') /\ \A k \in 0..n : ToldIn(m_call', k) <=> ToldIn(m_call, k)
      /\ ToldIn(m_call', n + 1) <=> ev = "connect" \/ (ev # "close" /\ ToldIn(m_call, n))
  <2>1. /\ OrderIn(m_call) /\ (m_connect <=> ToldIn(m_call, Len(m_call)))
    BY DEF EventInv
  <2> QED BY <1>1, <2>1, OrderPush
<1>4. polled \in 0..n /\ polled <= n + 1 BY <1>1, <1>2 DEF EventInv
<1>5. m_connect' <=> ToldIn(m_call', Len(m_call')) BY <1>2, <1>3 DEF EventInv
<1>6. online' <=> ToldIn(m_call', polled') BY <1>3, <1>4 DEF EventInv
<1> QED BY <1>2, <1>3, <1>4, <1>5, <1>6 DEF EventInv

(* poll() tells the application of the next event. *)
LEMMA EventPoll ==
  ASSUME TypeInv, EventInv, Poll
  PROVE  EventInv'
<1>1. m_call \in Seq(Event) /\ polled \in Nat BY DEF TypeInv, TypeOK, Event
<1>2. Len(m_call) \in Nat BY <1>1, LenProperties
<1>3. polled < Len(m_call) /\ polled' = polled + 1 /\ UNCHANGED <<m_call, m_connect>>
  BY DEF Poll, connVars
<1>4. online' = CASE m_call[polled'] = "connect" -> TRUE
                  [] m_call[polled'] = "close"   -> FALSE
                  [] OTHER                       -> online
  BY DEF Poll
<1>5. online <=> ToldIn(m_call, polled) BY DEF EventInv
<1>6. online' <=> m_call[polled + 1] = "connect" \/ (m_call[polled + 1] # "close" /\ online)
  BY <1>3, <1>4
<1>7. ToldIn(m_call, polled + 1) <=>
        m_call[polled + 1] = "connect" \/ (m_call[polled + 1] # "close" /\ ToldIn(m_call, polled))
  BY <1>1, ToldNext
<1>8. online' <=> ToldIn(m_call', polled') BY <1>3, <1>5, <1>6, <1>7
<1>9. polled' <= Len(m_call') BY <1>1, <1>2, <1>3
<1>10. m_connect' <=> ToldIn(m_call', Len(m_call')) BY <1>3 DEF EventInv
<1>11. OrderIn(m_call') BY <1>3 DEF EventInv
<1> QED BY <1>8, <1>9, <1>10, <1>11 DEF EventInv

(* The handlers of a queue, one appended, and the first taken. *)
LEMMA AppendFacts ==
  ASSUME NEW q \in Seq(RunHandler), NEW x \in RunHandler
  PROVE  /\ Append(q, x) \in Seq(RunHandler)
         /\ Len(q) \in Nat /\ Len(Append(q, x)) = Len(q) + 1
         /\ \A i \in 1..Len(q) : Append(q, x)[i] = q[i]
         /\ Append(q, x)[Len(q) + 1] = x
         /\ \A i \in 1..(Len(q) + 1) : i \in 1..Len(q) \/ i = Len(q) + 1
<1> HIDE DEF RunHandler
<1>1. Len(q) \in Nat BY LenProperties
<1>2. \A i \in 1..(Len(q) + 1) : i \in 1..Len(q) \/ i = Len(q) + 1 BY <1>1
<1> QED BY <1>1, <1>2, AppendProperties

LEMMA TailFacts ==
  ASSUME NEW q \in Seq(RunHandler), q # << >>
  PROVE  /\ Head(q) = q[1] /\ Head(q) \in RunHandler /\ 1 \in 1..Len(q)
         /\ Tail(q) \in Seq(RunHandler)
         /\ Len(q) \in Nat \ {0} /\ Len(Tail(q)) = Len(q) - 1
         /\ \A i \in 1..Len(Tail(q)) : i + 1 \in 1..Len(q) /\ Tail(q)[i] = q[i + 1]
<1> HIDE DEF RunHandler
<1>1. Len(q) \in Nat \ {0} /\ 1 \in 1..Len(q) BY EmptySeq, LenProperties
<1>2. /\ Head(q) = q[1] /\ Head(q) \in RunHandler
      /\ Tail(q) \in Seq(RunHandler) /\ Len(Tail(q)) = Len(q) - 1
      /\ \A i \in 1..Len(Tail(q)) : Tail(q)[i] = q[i + 1]
  BY HeadTailProperties, ElementOfSeq, <1>1
<1>3. \A i \in 1..Len(Tail(q)) : i + 1 \in 1..Len(q) BY <1>1, <1>2
<1> QED BY <1>1, <1>2, <1>3

(***************************************************************************)
(* Queue r holds no handlAccept that q does not hold, and the same for     *)
(* handleConnect.                                                          *)
(***************************************************************************)
KeepsAccept(q, r) ==
  /\ r \in Seq(RunHandler)
  /\ AcceptFree(q) => AcceptFree(r)
  /\ OneAccept(q) => OneAccept(r)

Keeps(q, r) == KeepsAccept(q, r) /\ (ConnectFree(q) => ConnectFree(r))

LEMMA KeepsAppend ==
  ASSUME NEW q \in Seq(RunHandler), NEW x \in RunHandler
  PROVE  /\ x.h # "handlAccept" => KeepsAccept(q, Append(q, x))
         /\ x.h \notin {"handlAccept", "handleConnect"} => Keeps(q, Append(q, x))
         /\ AcceptFree(q) => OneAccept(Append(q, x))
         /\ x.h # "handleConnect" /\ ConnectFree(q) => ConnectFree(Append(q, x))
<1> DEFINE r == Append(q, x)
<1>1. /\ r \in Seq(RunHandler) /\ Len(q) \in Nat /\ Len(r) = Len(q) + 1
      /\ \A i \in 1..Len(q) : r[i] = q[i]
      /\ r[Len(q) + 1] = x
      /\ \A i \in 1..(Len(q) + 1) : i \in 1..Len(q) \/ i = Len(q) + 1
  BY AppendFacts
<1> HIDE DEF r
<1>2. x.h # "handlAccept" /\ AcceptFree(q) => AcceptFree(r) BY <1>1 DEF AcceptFree
<1>3. x.h # "handlAccept" /\ OneAccept(q) => OneAccept(r) BY <1>1 DEF OneAccept
<1>4. AcceptFree(q) => OneAccept(r) BY <1>1 DEF OneAccept, AcceptFree
<1>5. x.h # "handleConnect" /\ ConnectFree(q) => ConnectFree(r) BY <1>1 DEF ConnectFree
<1> QED BY <1>1, <1>2, <1>3, <1>4, <1>5 DEF r, Keeps, KeepsAccept

LEMMA KeepsTail ==
  ASSUME NEW q \in Seq(RunHandler), q # << >>
  PROVE  /\ Keeps(q, Tail(q))
         /\ Head(q).h = "handlAccept" => ~AcceptFree(q)
         /\ Head(q).h = "handlAccept" /\ OneAccept(q) => AcceptFree(Tail(q))
         /\ Head(q).h = "handleConnect" => ~ConnectFree(q)
<1> DEFINE r == Tail(q)
<1>1. /\ Head(q) = q[1] /\ 1 \in 1..Len(q) /\ r \in Seq(RunHandler)
      /\ Len(q) \in Nat /\ Len(r) = Len(q) - 1
      /\ \A i \in 1..Len(r) : i + 1 \in 1..Len(q) /\ r[i] = q[i + 1]
  BY TailFacts
<1> HIDE DEF r
<1>2. AcceptFree(q) => AcceptFree(r) BY <1>1 DEF AcceptFree
<1>3. ConnectFree(q) => ConnectFree(r) BY <1>1 DEF ConnectFree
<1>4. OneAccept(q) => OneAccept(r)
  <2> SUFFICES ASSUME OneAccept(q), NEW i \in 1..Len(r), NEW j \in 1..Len(r),
                      r[i].h = "handlAccept", r[j].h = "handlAccept"
               PROVE  i = j
    BY DEF OneAccept
  <2>1. i + 1 = j + 1 BY <1>1 DEF OneAccept
  <2> QED BY <2>1, <1>1
<1>5. Head(q).h = "handlAccept" => ~AcceptFree(q) BY <1>1 DEF AcceptFree
<1>6. Head(q).h = "handleConnect" => ~ConnectFree(q) BY <1>1 DEF ConnectFree
<1>7. Head(q).h = "handlAccept" /\ OneAccept(q) => AcceptFree(r)
  <2> SUFFICES ASSUME Head(q).h = "handlAccept", OneAccept(q), NEW i \in 1..Len(r),
                      r[i].h = "handlAccept"
               PROVE  FALSE
    BY DEF AcceptFree
  <2>1. i + 1 = 1 BY <1>1 DEF OneAccept
  <2> QED BY <2>1, <1>1
<1> QED BY <1>1, <1>2, <1>3, <1>4, <1>5, <1>6, <1>7 DEF r, Keeps, KeepsAccept

(* The handlers that are queued, besides handlAccept. *)
LEMMA RunHandlers ==
  /\ \A h \in RawHandlers \cup {"handlAccept", "handleClose"}, er \in BOOLEAN, size \in Nat :
       Handler(h, er, size) \in RunHandler /\ Handler(h, er, size).h = h
         /\ Handler(h, er, size).er = er /\ Handler(h, er, size).size = size
  /\ Handler("writeMessage", FALSE, 0) \in RunHandler
  /\ Handler("writeMessage", FALSE, 0).h = "writeMessage"
  /\ ~Handler("writeMessage", FALSE, 0).er
BY DEF Handler, RunHandler

(* A queue with a second one behind it. *)
LEMMA KeepsConcat ==
  ASSUME NEW q \in Seq(RunHandler), NEW t \in Seq(RunHandler), AcceptFree(t)
  PROVE  /\ KeepsAccept(q, q \o t)
         /\ ConnectFree(t) => Keeps(q, q \o t)
<1> DEFINE r == q \o t
<1>1. /\ r \in Seq(RunHandler) /\ Len(q) \in Nat /\ Len(t) \in Nat /\ Len(r) = Len(q) + Len(t)
      /\ \A i \in 1..Len(r) : r[i] = IF i <= Len(q) THEN q[i] ELSE t[i - Len(q)]
  <2> HIDE DEF RunHandler
  <2> QED BY ConcatProperties, LenProperties
<1> HIDE DEF r
<1>2. \A i \in 1..Len(r) : \/ i \in 1..Len(q) /\ r[i] = q[i]
                           \/ i - Len(q) \in 1..Len(t) /\ r[i] = t[i - Len(q)]
  BY <1>1
<1>3. AcceptFree(q) => AcceptFree(r) BY <1>2 DEF AcceptFree
<1>4. OneAccept(q) => OneAccept(r) BY <1>2 DEF AcceptFree, OneAccept
<1>5. ConnectFree(t) /\ ConnectFree(q) => ConnectFree(r) BY <1>2 DEF ConnectFree
<1> QED BY <1>1, <1>3, <1>4, <1>5 DEF r, Keeps, KeepsAccept

(* What a close adds to the queue. *)
LEMMA AbortedFacts ==
  ASSUME TypeOK
  PROVE  /\ Aborted \in Seq(RunHandler) /\ AcceptFree(Aborted)
         /\ sock # "connecting" => ConnectFree(Aborted)
         /\ \A i \in 1..Len(Aborted) :
              /\ Aborted[i].er
              /\ Aborted[i].h = "handleWrite" => wrOp.st = "flight" /\ i = Len(Aborted)
         /\ wrOp.st = "flight" => Len(Aborted) > 0 /\ Aborted[Len(Aborted)].h = "handleWrite"
<1> DEFINE a == Handler("handleReadSome", TRUE, 0)
           b == Handler("handleConnect", TRUE, 0)
           c == Handler("handleWrite", TRUE, wrOp.n)
           x == [i \in 1..rdOps |-> a]
           y == IF sock = "connecting" THEN << b >> ELSE << >>
           z == IF wrOp.st = "flight" THEN << c >> ELSE << >>
<1>1. rdOps \in Nat /\ wrOp.n \in Nat BY DEF TypeOK
<1>2. /\ a \in RunHandler /\ b \in RunHandler /\ c \in RunHandler
      /\ a.h = "handleReadSome" /\ b.h = "handleConnect" /\ c.h = "handleWrite"
      /\ a.er /\ b.er /\ c.er
  BY <1>1, RunHandlers DEF RawHandlers
<1>3. Aborted = x \o y \o z BY DEF Aborted
<1> HIDE DEF a, b, c, RunHandler
<1>4. x \in Seq(RunHandler) /\ Len(x) = rdOps /\ \A i \in 1..Len(x) : x[i] = a BY <1>1, <1>2
<1>5. /\ y \in Seq(RunHandler) /\ Len(y) = IF sock = "connecting" THEN 1 ELSE 0
      /\ \A i \in 1..Len(y) : y[i] = b
  <2>1. << b >> \in Seq(RunHandler) /\ Len(<< b >>) = 1 /\ << b >>[1] = b BY <1>2
  <2>2. << >> \in Seq(RunHandler) /\ Len(<< >>) = 0 BY EmptySeq
  <2> QED BY <2>1, <2>2
<1>6. /\ z \in Seq(RunHandler) /\ Len(z) = IF wrOp.st = "flight" THEN 1 ELSE 0
      /\ \A i \in 1..Len(z) : z[i] = c
  <2>1. << c >> \in Seq(RunHandler) /\ Len(<< c >>) = 1 /\ << c >>[1] = c BY <1>2
  <2>2. << >> \in Seq(RunHandler) /\ Len(<< >>) = 0 BY EmptySeq
  <2> QED BY <2>1, <2>2
<1> HIDE DEF x, y, z
<1> DEFINE xy == x \o y
           r  == xy \o z
<1>7. /\ xy \in Seq(RunHandler) /\ Len(xy) = Len(x) + Len(y)
      /\ \A i \in 1..Len(xy) : xy[i] = IF i <= Len(x) THEN x[i] ELSE y[i - Len(x)]
  BY <1>4, <1>5, ConcatProperties
<1> HIDE DEF xy
<1>8. /\ r \in Seq(RunHandler) /\ Len(r) = Len(xy) + Len(z)
      /\ \A i \in 1..Len(r) : r[i] = IF i <= Len(xy) THEN xy[i] ELSE z[i - Len(xy)]
  BY <1>6, <1>7, ConcatProperties
<1>9. Len(x) \in Nat /\ Len(y) \in Nat /\ Len(z) \in Nat /\ Len(xy) \in Nat /\ Len(r) \in Nat
  BY <1>4, <1>5, <1>6, <1>7, <1>8, LenProperties
<1> HIDE DEF r
<1>10. \A i \in 1..Len(xy) : xy[i] = a \/ (xy[i] = b /\ sock = "connecting")
  <2> TAKE i \in 1..Len(xy)
  <2>1. CASE i <= Len(x)
    <3>1. i \in 1..Len(x) BY <1>9, <2>1
    <3> QED BY <1>4, <1>7, <2>1, <3>1
  <2>2. CASE ~(i <= Len(x))
    <3>1. i - Len(x) \in 1..Len(y) BY <1>7, <1>9, <2>2
    <3>2. sock = "connecting" BY <1>5, <3>1
    <3> QED BY <1>5, <1>7, <2>2, <3>1, <3>2
  <2> QED BY <2>1, <2>2
<1>11. \A i \in 1..Len(r) :
         \/ i \in 1..Len(xy) /\ r[i] = xy[i]
         \/ i = Len(r) /\ wrOp.st = "flight" /\ r[i] = c
  <2> TAKE i \in 1..Len(r)
  <2>1. CASE i <= Len(xy) BY <1>8, <1>9, <2>1
  <2>2. CASE ~(i <= Len(xy))
    <3>1. i - Len(xy) \in 1..Len(z) BY <1>8, <1>9, <2>2
    <3>2. wrOp.st = "flight" /\ Len(z) = 1 BY <1>6, <3>1
    <3>3. i = Len(r) BY <1>8, <1>9, <2>2, <3>2
    <3> QED BY <1>6, <1>8, <2>2, <3>1, <3>2, <3>3
  <2> QED BY <2>1, <2>2
<1>12. wrOp.st = "flight" => Len(r) > 0 /\ r[Len(r)].h = "handleWrite"
  <2> SUFFICES ASSUME wrOp.st = "flight" PROVE Len(r) > 0 /\ r[Len(r)].h = "handleWrite"
    OBVIOUS
  <2>1. Len(z) = 1 /\ z[1] = c BY <1>6
  <2>2. Len(r) = Len(xy) + 1 /\ Len(r) \in 1..Len(r) /\ ~(Len(r) <= Len(xy))
        /\ Len(r) - Len(xy) = 1 BY <1>8, <1>9, <2>1
  <2>3. r[Len(r)] = z[1] BY <1>8, <2>2
  <2> QED BY <1>2, <1>9, <2>1, <2>2, <2>3
<1>13. Aborted = r BY <1>3 DEF r, xy
<1>14. AcceptFree(r) BY <1>2, <1>10, <1>11 DEF AcceptFree
<1>15. sock # "connecting" => ConnectFree(r) BY <1>2, <1>10, <1>11 DEF ConnectFree
<1>16. \A i \in 1..Len(r) : r[i].er BY <1>2, <1>10, <1>11
<1>17. \A i \in 1..Len(r) : r[i].h = "handleWrite" => wrOp.st = "flight" /\ i = Len(r)
  BY <1>2, <1>10, <1>11
<1> QED BY <1>8, <1>12, <1>13, <1>14, <1>15, <1>16, <1>17

(* A step that leaves the accept alone. *)
LEMMA AcceptKeep ==
  ASSUME TypeInv, AcceptInv, UNCHANGED <<owner, accept>>,
         KeepsAccept(ioQueue, ioQueue'), m_connect' => m_connect,
         owner = "server" =>
           /\ ConnectFree(ioQueue) => ConnectFree(ioQueue')
           /\ sock' = sock \/ sock' = "closed" \/ (sock = "open" /\ sock' = "broken")
           /\ m_call' = m_call \/ \E ev \in {"recv", "close", "connect"} : m_call' = Append(m_call, ev)
  PROVE  AcceptInv'
<1>1. owner = "server" => \A i \in 1..Len(m_call') : m_call'[i] # "start"
  <2> SUFFICES ASSUME owner = "server" PROVE \A i \in 1..Len(m_call') : m_call'[i] # "start"
    OBVIOUS
  <2>1. m_call \in Seq(Event) BY DEF TypeInv, TypeOK, Event
  <2>2. \A i \in 1..Len(m_call) : m_call[i] # "start" BY DEF AcceptInv
  <2>3. CASE m_call' = m_call BY <2>2, <2>3
  <2>4. ASSUME NEW ev \in {"recv", "close", "connect"}, m_call' = Append(m_call, ev)
        PROVE  \A i \in 1..Len(m_call') : m_call'[i] # "start"
    <3>1. ev \in Event BY DEF Event
    <3>2. /\ Len(m_call') = Len(m_call) + 1
          /\ \A i \in 1..Len(m_call) : m_call'[i] = m_call[i]
          /\ m_call'[Len(m_call) + 1] = ev
          /\ \A i \in 1..(Len(m_call) + 1) : i \in 1..Len(m_call) \/ i = Len(m_call) + 1
      BY <2>1, <2>4, <3>1, PushFacts
    <3> QED BY <2>2, <2>4, <3>2
  <2> QED BY <2>3, <2>4
<1>2. owner = "server" => /\ sock' \notin {"connecting", "failed"}
                          /\ accept = "wait" => sock' \notin {"open", "broken"}
                          /\ ConnectFree(ioQueue')
  BY DEF AcceptInv
<1>3. OneAccept(ioQueue') BY DEF AcceptInv, KeepsAccept
<1>4. accept \notin {"posted", "gone"} \/ m_connect' => AcceptFree(ioQueue')
  BY DEF AcceptInv, KeepsAccept
<1>5. accept \in {"wait", "ok", "err"} => ~m_connect' BY DEF AcceptInv
<1> QED BY <1>1, <1>2, <1>3, <1>4, <1>5 DEF AcceptInv

(* A step that leaves the queue as it is, or appends to it or to its tail. *)
LEMMA QueueKept ==
  ASSUME ioQueue \in Seq(RunHandler),
         \/ ioQueue' = ioQueue
         \/ ioQueue # << >> /\ ioQueue' = Tail(ioQueue)
         \/ \E x \in RunHandler : x.h \notin {"handlAccept", "handleConnect"}
              /\ \/ ioQueue' = Append(ioQueue, x)
                 \/ ioQueue # << >> /\ ioQueue' = Append(Tail(ioQueue), x)
  PROVE  Keeps(ioQueue, ioQueue')
<1> HIDE DEF RunHandler
<1>1. CASE ioQueue' = ioQueue BY <1>1 DEF Keeps, KeepsAccept
<1>2. CASE ioQueue # << >> /\ ioQueue' = Tail(ioQueue) BY <1>2, KeepsTail
<1>3. ASSUME NEW x \in RunHandler, x.h \notin {"handlAccept", "handleConnect"},
             ioQueue' = Append(ioQueue, x)
      PROVE  Keeps(ioQueue, ioQueue')
  BY <1>3, KeepsAppend
<1>4. ASSUME NEW x \in RunHandler, x.h \notin {"handlAccept", "handleConnect"},
             ioQueue # << >>, ioQueue' = Append(Tail(ioQueue), x)
      PROVE  Keeps(ioQueue, ioQueue')
  <2>1. Keeps(ioQueue, Tail(ioQueue)) BY <1>4, KeepsTail
  <2>2. Tail(ioQueue) \in Seq(RunHandler) BY <2>1 DEF Keeps, KeepsAccept
  <2>3. Keeps(Tail(ioQueue), ioQueue') BY <1>4, <2>2, KeepsAppend
  <2> QED BY <2>1, <2>3 DEF Keeps, KeepsAccept
<1> QED BY <1>1, <1>2, <1>3, <1>4

(* Starting a read, with what the handler that starts it leaves. *)
LEMMA ReadQueue ==
  ASSUME ioQueue \in Seq(RunHandler), ioQueue # << >>, beginRead(Tail(ioQueue)), rdOps \in Nat
  PROVE  /\ Keeps(ioQueue, ioQueue')
         /\ AcceptFree(Tail(ioQueue)) => AcceptFree(ioQueue')
<1> DEFINE x == Handler("handleReadSome", TRUE, 0)
<1>1. x \in RunHandler /\ x.h = "handleReadSome" BY RunHandlers DEF RawHandlers
<1>2. ioQueue' = Tail(ioQueue) \/ ioQueue' = Append(Tail(ioQueue), x)
  BY BeginReadFacts DEF x
<1> HIDE DEF x, RunHandler
<1>3. Keeps(ioQueue, ioQueue') BY <1>1, <1>2, QueueKept
<1>4. Tail(ioQueue) \in Seq(RunHandler) BY KeepsTail DEF Keeps, KeepsAccept
<1>5. AcceptFree(Tail(ioQueue)) => AcceptFree(ioQueue')
  BY <1>1, <1>2, <1>4, KeepsAppend DEF KeepsAccept
<1> QED BY <1>3, <1>5

(* connect() appends nothing but a handleConnect. *)
LEMMA ConnectQueue ==
  ASSUME ioQueue \in Seq(RunHandler), connect
  PROVE  KeepsAccept(ioQueue, ioQueue')
<1> DEFINE x == Handler("handleConnect", TRUE, 0)
<1>1. x \in RunHandler /\ x.h = "handleConnect" BY RunHandlers DEF RawHandlers
<1>2. ioQueue' = ioQueue \/ ioQueue' = Append(ioQueue, x) BY DEF connect, x
<1> HIDE DEF x, RunHandler
<1>3. CASE ioQueue' = ioQueue BY <1>3 DEF KeepsAccept
<1>4. CASE ioQueue' = Append(ioQueue, x) BY <1>1, <1>4, KeepsAppend
<1> QED BY <1>2, <1>3, <1>4

(* The connection, once told, has no accept under way. *)
LEMMA AcceptIo ==
  ASSUME TypeInv, ControlInv, Io
  PROVE  AcceptInv' /\ ioQueue' \in Seq(RunHandler)
<1>1. /\ ioQueue \in Seq(RunHandler) /\ rdOps \in Nat /\ wrOp.n \in Nat /\ TypeOK /\ AcceptInv
  BY DEF ControlInv, HandlerInv, TypeInv, TypeOK
<1>2. \A er \in BOOLEAN : /\ Handler("handleClose", er, 0) \in RunHandler
                          /\ Handler("handleClose", er, 0).h = "handleClose"
  BY RunHandlers
<1>3. /\ Handler("handleWrite", TRUE, 0) \in RunHandler
      /\ Handler("handleWrite", TRUE, 0).h = "handleWrite"
  BY RunHandlers DEF RawHandlers
<1> HIDE DEF RunHandler
<1>4. ASSUME Keeps(ioQueue, ioQueue'), UNCHANGED <<owner, accept, m_connect>>, sock' = sock,
             m_call' = m_call \/ m_call' = Append(m_call, "recv")
      PROVE  AcceptInv' /\ ioQueue' \in Seq(RunHandler)
  BY <1>1, <1>4, AcceptKeep DEF Keeps, KeepsAccept
<1>5. CASE HandlAccept
  <2>1. /\ ioQueue # << >> /\ Head(ioQueue).h = "handlAccept" /\ beginRead(Tail(ioQueue))
        /\ m_call' = Append(m_call, "connect") /\ UNCHANGED <<owner, accept, sock>>
    BY <1>5 DEF HandlAccept, Run, push
  <2>2. ~AcceptFree(ioQueue) /\ AcceptFree(Tail(ioQueue))
    BY <1>1, <2>1, KeepsTail DEF AcceptInv
  <2>3. accept \in {"posted", "gone"} BY <1>1, <2>2 DEF AcceptInv
  <2>4. Keeps(ioQueue, ioQueue') /\ AcceptFree(ioQueue') BY <1>1, <2>1, <2>2, ReadQueue
  <2>5. \A i \in 1..Len(m_call') : m_call'[i] = "connect" \/ (i \in 1..Len(m_call) /\ m_call'[i] = m_call[i])
    <3>1. m_call \in Seq(Event) /\ "connect" \in Event BY <1>1 DEF TypeOK, Event
    <3> QED BY <2>1, <3>1, PushFacts
  <2>6. owner = "server" => \A i \in 1..Len(m_call') : m_call'[i] # "start"
    BY <1>1, <2>5 DEF AcceptInv
  <2> QED BY <1>1, <2>1, <2>3, <2>4, <2>6 DEF AcceptInv, Keeps, KeepsAccept
<1>6. CASE HandleConnect
  <2>1. /\ ioQueue # << >> /\ Head(ioQueue).h = "handleConnect"
        /\ ioQueue' = Tail(ioQueue) \/ beginRead(Tail(ioQueue))
        /\ UNCHANGED <<owner, accept, sock>>
    BY <1>6 DEF HandleConnect, Run
  <2>2. owner = "client" BY <1>1, <2>1, KeepsTail DEF AcceptInv, TypeOK
  <2>3. accept = "none" BY <1>1, <2>2 DEF AcceptInv
  <2>4. Keeps(ioQueue, ioQueue')
    <3>1. CASE ioQueue' = Tail(ioQueue) BY <1>1, <2>1, <3>1, QueueKept
    <3>2. CASE beginRead(Tail(ioQueue)) BY <1>1, <2>1, <3>2, ReadQueue
    <3> QED BY <2>1, <3>1, <3>2
  <2> QED BY <1>1, <2>1, <2>2, <2>3, <2>4 DEF AcceptInv, Keeps, KeepsAccept
<1>7. CASE HandleReadSome
  <2>1. /\ ioQueue # << >>
        /\ \/ ioQueue' = Tail(ioQueue)
           \/ ioQueue' = Append(Tail(ioQueue), Handler("handleClose", TRUE, 0))
           \/ beginRead(Tail(ioQueue))
        /\ m_call' = m_call \/ m_call' = Append(m_call, "recv")
        /\ UNCHANGED <<owner, accept, m_connect, sock>>
    BY <1>7 DEF HandleReadSome, Run, connVars, close, push
  <2>2. Keeps(ioQueue, ioQueue')
    <3>1. CASE beginRead(Tail(ioQueue)) BY <1>1, <2>1, <3>1, ReadQueue
    <3>2. CASE ioQueue' = Tail(ioQueue) BY <1>1, <2>1, <3>2, QueueKept
    <3>3. CASE ioQueue' = Append(Tail(ioQueue), Handler("handleClose", TRUE, 0))
      <4> DEFINE x == Handler("handleClose", TRUE, 0)
      <4>1. x \in RunHandler /\ x.h = "handleClose" BY <1>2
      <4>2. ioQueue' = Append(Tail(ioQueue), x) BY <3>3
      <4> HIDE DEF x
      <4> QED BY <1>1, <2>1, <4>1, <4>2, QueueKept
    <3> QED BY <2>1, <3>1, <3>2, <3>3
  <2> QED BY <1>4, <2>1, <2>2
<1>8. CASE WriteMessage \/ HandleWrite \/ HandleClose
  <2>1. PICK er \in BOOLEAN :
          /\ ioQueue # << >>
          /\ \/ ioQueue' = Tail(ioQueue)
             \/ ioQueue' = Append(Tail(ioQueue), Handler("handleClose", er, 0))
    BY <1>8 DEF WriteMessage, HandleWrite, HandleClose, Run, close
  <2>2. UNCHANGED <<owner, accept, m_connect, sock, m_call>>
    BY <1>8 DEF WriteMessage, HandleWrite, HandleClose, Run, connVars, kernVars, mainVars
  <2>3. Keeps(ioQueue, ioQueue')
    <3> DEFINE x == Handler("handleClose", er, 0)
    <3>1. x \in RunHandler /\ x.h = "handleClose" BY <1>2
    <3>2. ioQueue' = Tail(ioQueue) \/ ioQueue' = Append(Tail(ioQueue), x) BY <2>1
    <3> HIDE DEF x
    <3> QED BY <1>1, <2>1, <3>1, <3>2, QueueKept
  <2> QED BY <1>4, <2>2, <2>3
<1>9. CASE StartWrite
  <2>1. UNCHANGED <<owner, accept, m_connect, sock, m_call>>
    BY <1>9 DEF StartWrite, mainVars
  <2>2. ioQueue' = ioQueue \/ ioQueue' = Append(ioQueue, Handler("handleWrite", TRUE, 0))
    BY <1>9 DEF StartWrite
  <2>3. Keeps(ioQueue, ioQueue')
    <3> DEFINE x == Handler("handleWrite", TRUE, 0)
    <3>1. x \in RunHandler /\ x.h = "handleWrite" BY <1>3
    <3>2. ioQueue' = ioQueue \/ ioQueue' = Append(ioQueue, x) BY <2>2
    <3> HIDE DEF x
    <3> QED BY <1>1, <3>1, <3>2, QueueKept
  <2> QED BY <1>4, <2>1, <2>3
<1>10. CASE FillSendBuffer \/ UseAfterFree
  <2>1. UNCHANGED <<owner, accept, m_connect, sock, m_call, ioQueue>>
    BY <1>10 DEF FillSendBuffer, UseAfterFree, mainVars, kernVars, connVars
  <2>2. Keeps(ioQueue, ioQueue') BY <1>1, <2>1, QueueKept
  <2> QED BY <1>4, <2>1, <2>2
<1>11. CASE CloseSocket
  <2>1. /\ ioQueue' = ioQueue \o Aborted /\ sock' = "closed" /\ m_connect' = FALSE
        /\ m_call' = Append(m_call, "close") /\ UNCHANGED <<owner, accept>>
    BY <1>11 DEF CloseSocket, push
  <2>2. /\ KeepsAccept(ioQueue, ioQueue')
        /\ sock # "connecting" => Keeps(ioQueue, ioQueue')
    BY <1>1, <2>1, AbortedFacts, KeepsConcat
  <2>3. owner = "server" => sock # "connecting" BY <1>1 DEF AcceptInv
  <2> QED BY <1>1, <2>1, <2>2, <2>3, AcceptKeep DEF Keeps, KeepsAccept
<1> QED BY <1>5, <1>6, <1>7, <1>8, <1>9, <1>10, <1>11 DEF Io

(* The kernel, the acceptor and the main thread. *)
LEMMA AcceptOthers ==
  ASSUME TypeInv, ControlInv, Kernel \/ Accepting \/ Main
  PROVE  AcceptInv' /\ ioQueue' \in Seq(RunHandler)
<1> USE DEF kernelUnchanged, acceptUnchanged, connVars, kernVars
<1>1. /\ ioQueue \in Seq(RunHandler) /\ wrOp.n \in Nat /\ wrOp.len \in Nat /\ TypeOK /\ AcceptInv
  BY DEF ControlInv, HandlerInv, TypeInv, TypeOK
<1>2. \A h \in RawHandlers \cup {"handlAccept", "handleClose"}, er \in BOOLEAN, size \in Nat :
        Handler(h, er, size) \in RunHandler /\ Handler(h, er, size).h = h
  BY RunHandlers
<1>3. /\ Handler("writeMessage", FALSE, 0) \in RunHandler
      /\ Handler("writeMessage", FALSE, 0).h = "writeMessage"
  BY RunHandlers
<1> HIDE DEF RunHandler
<1>4. ASSUME UNCHANGED <<owner, accept, m_connect, m_call>>,
             sock' = sock \/ (sock = "open" /\ sock' = "broken"),
             \/ ioQueue' = ioQueue
             \/ \E x \in RunHandler : /\ x.h \notin {"handlAccept", "handleConnect"}
                                      /\ ioQueue' = Append(ioQueue, x)
      PROVE  AcceptInv' /\ ioQueue' \in Seq(RunHandler)
  <2>1. Keeps(ioQueue, ioQueue') BY <1>1, <1>4, QueueKept
  <2> QED BY <1>1, <1>4, <2>1, AcceptKeep DEF Keeps, KeepsAccept
<1>5. ASSUME owner = "client", UNCHANGED <<owner, accept, m_connect, m_call>>,
             KeepsAccept(ioQueue, ioQueue')
      PROVE  AcceptInv' /\ ioQueue' \in Seq(RunHandler)
  BY <1>1, <1>5, AcceptKeep DEF KeepsAccept
<1>6. ASSUME NEW x, ioQueue' = Append(ioQueue, x), x \in RunHandler, x.h = "handleConnect"
      PROVE  KeepsAccept(ioQueue, ioQueue')
  BY <1>1, <1>6, KeepsAppend
<1>7. CASE Accepted
  <2>1. accept = "wait" /\ accept' = "ok" /\ sock' = "open"
        /\ UNCHANGED <<owner, m_connect, m_call, ioQueue>>
    BY <1>7 DEF Accepted
  <2> QED BY <1>1, <2>1 DEF AcceptInv
<1>8. CASE AcceptFails
  <2>1. accept = "wait" /\ accept' = "err"
        /\ UNCHANGED <<owner, m_connect, m_call, ioQueue, sock>>
    BY <1>8 DEF AcceptFails
  <2> QED BY <1>1, <2>1 DEF AcceptInv
<1>9. CASE ConnectDone \/ ConnectFail
  <2>1. PICK er \in BOOLEAN :
          /\ sock = "connecting" /\ ioQueue' = Append(ioQueue, Handler("handleConnect", er, 0))
          /\ UNCHANGED <<owner, accept, m_connect, m_call>>
    BY <1>9 DEF ConnectDone, ConnectFail
  <2>2. owner = "client" BY <1>1, <2>1 DEF AcceptInv, TypeOK
  <2>3. Handler("handleConnect", er, 0) \in RunHandler
        /\ Handler("handleConnect", er, 0).h = "handleConnect"
    BY <1>2 DEF RawHandlers
  <2>4. KeepsAccept(ioQueue, ioQueue') BY <1>6, <2>1, <2>3
  <2> QED BY <1>5, <2>1, <2>2, <2>4
<1>10. CASE Transfer \/ PeerReset
  <2>1. /\ UNCHANGED <<owner, accept, m_connect, m_call, ioQueue>>
        /\ sock' = sock \/ (sock = "open" /\ sock' = "broken")
    BY <1>10 DEF Transfer, PeerReset
  <2> QED BY <1>4, <2>1
<1>11. CASE WriteDone \/ WriteFail
  <2>1. PICK er \in BOOLEAN, size \in Nat :
          /\ ioQueue' = Append(ioQueue, Handler("handleWrite", er, size))
          /\ UNCHANGED <<owner, accept, m_connect, m_call, sock>>
    BY <1>1, <1>11 DEF WriteDone, WriteFail
  <2>2. Handler("handleWrite", er, size) \in RunHandler
        /\ Handler("handleWrite", er, size).h = "handleWrite"
    BY <1>2 DEF RawHandlers
  <2> QED BY <1>4, <2>1, <2>2
<1>12. CASE ReadDone \/ PeerEof \/ ReadFail
  <2>1. PICK er \in BOOLEAN, size \in Nat :
          /\ ioQueue' = Append(ioQueue, Handler("handleReadSome", er, size))
          /\ UNCHANGED <<owner, accept, m_connect, m_call, sock>>
    BY <1>1, <1>12 DEF ReadDone, PeerEof, ReadFail
  <2>2. Handler("handleReadSome", er, size) \in RunHandler
        /\ Handler("handleReadSome", er, size).h = "handleReadSome"
    BY <1>2 DEF RawHandlers
  <2> QED BY <1>4, <2>1, <2>2
<1>13. CASE AcceptSocket
  <2>1. /\ accept \in {"ok", "err"} /\ accept' = "posted"
        /\ UNCHANGED <<owner, m_connect, m_call, sock>>
        /\ \/ ioQueue' = ioQueue
           \/ ioQueue' = Append(ioQueue, Handler("handlAccept", FALSE, 0))
           \/ ioQueue' = Append(ioQueue, Handler("handleClose", TRUE, 0))
    BY <1>13 DEF AcceptSocket, close
  <2>2. ~m_connect /\ AcceptFree(ioQueue) /\ OneAccept(ioQueue) BY <1>1, <2>1 DEF AcceptInv
  <2>3. ASSUME NEW x \in RunHandler, x.h # "handleConnect", ioQueue' = Append(ioQueue, x)
        PROVE  /\ ioQueue' \in Seq(RunHandler) /\ OneAccept(ioQueue')
               /\ ConnectFree(ioQueue) => ConnectFree(ioQueue')
    BY <1>1, <2>2, <2>3, KeepsAppend, AppendFacts
  <2>4. /\ Handler("handlAccept", FALSE, 0) \in RunHandler
        /\ Handler("handleClose", TRUE, 0) \in RunHandler
        /\ Handler("handlAccept", FALSE, 0).h # "handleConnect"
        /\ Handler("handleClose", TRUE, 0).h # "handleConnect"
    <3>1. /\ Handler("handlAccept", FALSE, 0) \in RunHandler
          /\ Handler("handlAccept", FALSE, 0).h = "handlAccept"
      BY <1>2
    <3>2. /\ Handler("handleClose", TRUE, 0) \in RunHandler
          /\ Handler("handleClose", TRUE, 0).h = "handleClose"
      BY <1>2
    <3> QED BY <3>1, <3>2
  <2>5. /\ ioQueue' \in Seq(RunHandler) /\ OneAccept(ioQueue')
        /\ ConnectFree(ioQueue) => ConnectFree(ioQueue')
    BY <1>1, <2>1, <2>2, <2>3, <2>4
  <2> QED BY <1>1, <2>1, <2>2, <2>5 DEF AcceptInv
<1>14. CASE BeginAccept
  <2>1. /\ accept \in {"ok", "err", "posted"} /\ accept' = "gone"
        /\ UNCHANGED <<owner, m_connect, m_call, sock, ioQueue>>
    BY <1>14 DEF BeginAccept
  <2> QED BY <1>1, <2>1 DEF AcceptInv
<1>15. CASE CloseCurrent \/ Kick
  <2>1. /\ ioQueue' = Append(ioQueue, Handler("handleClose", FALSE, 0))
        /\ UNCHANGED <<owner, accept, m_connect, m_call, sock>>
    BY <1>15 DEF CloseCurrent, Kick, close
  <2>2. Handler("handleClose", FALSE, 0) \in RunHandler
        /\ Handler("handleClose", FALSE, 0).h = "handleClose"
    BY <1>2
  <2> QED BY <1>4, <2>1, <2>2
<1>16. CASE Send
  <2>1. /\ ioQueue' = Append(ioQueue, Handler("writeMessage", FALSE, 0))
        /\ UNCHANGED <<owner, accept, m_connect, m_call, sock>>
    BY <1>16 DEF Send
  <2> QED BY <1>3, <1>4, <2>1
<1>17. CASE Start
  <2>1. connect /\ owner = "client" /\ UNCHANGED <<owner, accept, m_connect, m_call>>
    BY <1>17 DEF Start
  <2> QED BY <1>1, <1>5, <2>1, ConnectQueue
<1>18. CASE Poll
  <2>1. /\ polled < Len(m_call) /\ polled' = polled + 1
        /\ UNCHANGED <<owner, accept, m_connect, m_call>>
        /\ \/ m_call[polled'] = "start" /\ connect
           \/ UNCHANGED <<sock, ioQueue>>
    BY <1>18 DEF Poll
  <2>2. CASE UNCHANGED <<sock, ioQueue>> BY <1>4, <2>1, <2>2
  <2>3. CASE m_call[polled'] = "start" /\ connect
    <3>1. polled \in Nat /\ Len(m_call) \in Nat
      <4>1. m_call \in Seq(Event) /\ polled \in Nat BY <1>1 DEF TypeOK, Event
      <4> QED BY <4>1, LenProperties
    <3>2. polled' \in 1..Len(m_call) BY <2>1, <3>1
    <3>3. owner = "client" BY <1>1, <2>3, <3>2 DEF AcceptInv, TypeOK
    <3> QED BY <1>1, <1>5, <2>1, <2>3, <3>3, ConnectQueue
  <2> QED BY <2>1, <2>2, <2>3
<1> QED BY <1>7, <1>8, <1>9, <1>10, <1>11, <1>12, <1>13, <1>14, <1>15, <1>16, <1>17, <1>18
    DEF Kernel, Accepting, Main

(* Only what m_connect allows is written. *)
LEMMA WriteStep ==
  ASSUME TypeInv, ControlInv, Next
  PROVE  ~m_connect' => /\ wrOp'.st # "flight"
                        /\ pc' \notin {"fill", "start"}
                        /\ sock' = "open" => wire' = << >>
<1> USE DEF kernelUnchanged, acceptUnchanged, connVars, kernVars, mainVars
<1>1. /\ wrOp \in [st : {"none", "flight", "done"}, base : Nat, len : Nat, n : Nat]
      /\ m_connect \in BOOLEAN
  BY DEF TypeInv, TypeOK
<1>2. ~m_connect => /\ wrOp.st # "flight" /\ pc \notin {"fill", "start"}
                    /\ sock = "open" => wire = << >>
  BY DEF ControlInv, HandlerInv
<1>3. ASSUME UNCHANGED <<wrOp, pc>>, m_connect' \/ m_connect' = m_connect,
             sock' = "open" => (sock = "open" /\ wire' = wire) \/ wire' = << >>
      PROVE  ~m_connect' => /\ wrOp'.st # "flight"
                            /\ pc' \notin {"fill", "start"}
                            /\ sock' = "open" => wire' = << >>
  BY <1>2, <1>3
<1>4. CASE HandlAccept \/ HandleConnect \/ HandleReadSome
  BY <1>3, <1>4 DEF HandlAccept, HandleConnect, HandleReadSome
<1>5. CASE WriteMessage BY <1>2, <1>5 DEF WriteMessage, EnterWriteMessage
<1>6. CASE FillSendBuffer BY <1>2, <1>6 DEF FillSendBuffer
<1>7. CASE StartWrite BY <1>2, <1>7 DEF StartWrite
<1>8. CASE HandleWrite BY <1>2, <1>8 DEF HandleWrite, EnterWriteMessage, NoWrite
<1>9. CASE HandleClose BY <1>2, <1>9 DEF HandleClose
<1>10. CASE CloseSocket BY <1>1, <1>10 DEF CloseSocket
<1>11. CASE UseAfterFree BY <1>3, <1>11 DEF UseAfterFree
<1>12. CASE Transfer \/ WriteDone \/ WriteFail
  <2>1. m_connect /\ m_connect' = m_connect
    BY <1>2, <1>12 DEF Transfer, WriteDone, WriteFail
  <2> QED BY <2>1
<1>13. CASE Accepted \/ AcceptFails \/ ConnectDone \/ ConnectFail \/ ReadDone \/ PeerEof
              \/ PeerReset \/ ReadFail \/ Accepting
  BY <1>3, <1>13 DEF Accepted, AcceptFails, ConnectDone, ConnectFail, ReadDone, PeerEof,
                     PeerReset, ReadFail, Accepting, AcceptSocket, BeginAccept
<1>14. CASE Main
  <2>1. /\ UNCHANGED <<wrOp, pc, m_connect, wire>>
        /\ sock' = sock \/ sock' = "connecting"
    BY <1>14 DEF Main, CloseCurrent, Start, connect, Poll, Send, Kick
  <2> QED BY <1>3, <2>1
<1> QED BY <1>4, <1>5, <1>6, <1>7, <1>8, <1>9, <1>10, <1>11, <1>12, <1>13, <1>14
    DEF Next, Io, Kernel

(* Every event tells what the step that pushes it has made of m_connect. *)
LEMMA EventStep ==
  ASSUME TypeInv, ControlInv, Next
  PROVE  EventInv'
<1>1. EventInv /\ AcceptInv /\ ioQueue \in Seq(RunHandler) /\ m_connect \in BOOLEAN
  BY DEF ControlInv, HandlerInv, TypeInv, TypeOK
<1>2. "connect" \in Event /\ "recv" \in Event /\ "close" \in Event /\ "start" \in Event
  BY DEF Event
<1> HIDE DEF Event, RunHandler
<1>3. CASE HandlAccept
  <2>1. /\ ioQueue # << >> /\ Head(ioQueue).h = "handlAccept" /\ m_connect' = TRUE
        /\ m_call' = Append(m_call, "connect") /\ UNCHANGED <<polled, online>>
    BY <1>3 DEF HandlAccept, Run, push
  <2>2. ~m_connect BY <1>1, <2>1, KeepsTail DEF AcceptInv
  <2> QED BY <1>1, <1>2, <2>1, <2>2, EventPush
<1>4. CASE HandleConnect
  <2>1. UNCHANGED <<polled, online>> BY <1>4 DEF HandleConnect
  <2>2. \/ UNCHANGED <<m_connect, m_call>>
        \/ ~m_connect /\ m_connect' = TRUE /\ m_call' = Append(m_call, "connect")
        \/ ~m_connect /\ m_connect' = m_connect /\ m_call' = Append(m_call, "start")
    BY <1>4 DEF HandleConnect, push
  <2>3. CASE UNCHANGED <<m_connect, m_call>> BY <1>1, <2>1, <2>3, EventKeep
  <2>4. CASE ~m_connect /\ m_connect' = TRUE /\ m_call' = Append(m_call, "connect")
    BY <1>1, <1>2, <2>1, <2>4, EventPush
  <2>5. CASE ~m_connect /\ m_connect' = m_connect /\ m_call' = Append(m_call, "start")
    BY <1>1, <1>2, <2>1, <2>5, EventPush
  <2> QED BY <2>2, <2>3, <2>4, <2>5
<1>5. CASE HandleReadSome
  <2>1. UNCHANGED <<polled, online, m_connect>> BY <1>5 DEF HandleReadSome, connVars
  <2>2. m_call' = m_call \/ (m_connect /\ m_call' = Append(m_call, "recv"))
    BY <1>5 DEF HandleReadSome, push
  <2>3. CASE m_call' = m_call BY <1>1, <2>1, <2>3, EventKeep
  <2>4. CASE m_connect /\ m_call' = Append(m_call, "recv")
    BY <1>1, <1>2, <2>1, <2>4, EventPush
  <2> QED BY <2>2, <2>3, <2>4
<1>6. CASE CloseSocket
  <2>1. /\ m_call' = Append(m_call, "close") /\ m_connect' = FALSE
        /\ UNCHANGED <<polled, online>>
    BY <1>6 DEF CloseSocket, push
  <2> QED BY <1>1, <1>2, <2>1, EventPush
<1>7. CASE Poll BY <1>1, <1>7, EventPoll
<1>8. CASE WriteMessage \/ FillSendBuffer \/ StartWrite \/ HandleWrite \/ HandleClose
             \/ UseAfterFree
  <2>1. UNCHANGED <<m_call, polled, online, m_connect>>
    BY <1>8 DEF WriteMessage, FillSendBuffer, StartWrite, HandleWrite, HandleClose,
                UseAfterFree, connVars, mainVars
  <2> QED BY <1>1, <2>1, EventKeep
<1>9. CASE Kernel
  <2>1. UNCHANGED <<m_call, polled, online, m_connect>>
    BY <1>9 DEF Kernel, Accepted, AcceptFails, ConnectDone, ConnectFail, Transfer, WriteDone,
                WriteFail, ReadDone, PeerEof, PeerReset, ReadFail, kernelUnchanged, connVars
  <2> QED BY <1>1, <2>1, EventKeep
<1>10. CASE Accepting \/ CloseCurrent \/ Start \/ Send \/ Kick
  <2>1. UNCHANGED <<m_call, polled, online, m_connect>>
    BY <1>10 DEF Accepting, AcceptSocket, BeginAccept, CloseCurrent, Start, Send, Kick,
                 acceptUnchanged, connVars
  <2> QED BY <1>1, <2>1, EventKeep
<1> QED BY <1>3, <1>4, <1>5, <1>6, <1>7, <1>8, <1>9, <1>10 DEF Next, Io, Main

LEMMA ControlInit == Init => ControlInv
<1> SUFFICES ASSUME Init PROVE ControlInv OBVIOUS
<1>1. m_call = << >> /\ Len(m_call) = 0 /\ polled = 0 /\ ioQueue = << >> /\ Len(ioQueue) = 0
  BY EmptySeq DEF Init
<1>2. EventInv BY <1>1 DEF EventInv, OrderIn, ToldIn, Init
<1>3. AcceptInv BY <1>1 DEF AcceptInv, AcceptFree, OneAccept, ConnectFree, Init
<1>4. ioQueue \in Seq(RunHandler) BY <1>1, EmptySeq
<1>5. HandlerInv BY <1>1, <1>4 DEF HandlerInv, Init, NoWrite
<1> QED BY <1>2, <1>3, <1>5 DEF ControlInv

LEMMA ControlStep == TypeInv /\ ControlInv /\ [Next]_vars => ControlInv'
<1> SUFFICES ASSUME TypeInv, ControlInv, [Next]_vars PROVE ControlInv' OBVIOUS
<1>1. CASE Next
  <2>1. EventInv' BY <1>1, EventStep
  <2>2. AcceptInv' /\ ioQueue' \in Seq(RunHandler)
    BY <1>1, AcceptIo, AcceptOthers DEF Next
  <2>3. HandlerInv' BY <1>1, <2>2, WriteStep DEF HandlerInv
  <2> QED BY <2>1, <2>2, <2>3 DEF ControlInv
<1>2. CASE UNCHANGED vars
  <2>1. EventInv' BY <1>2, EventKeep DEF ControlInv, vars, connVars, mainVars
  <2>2. AcceptInv'
    BY <1>2 DEF ControlInv, AcceptInv, vars, connVars, kernVars, mainVars, AcceptFree,
                OneAccept, ConnectFree
  <2>3. HandlerInv' BY <1>2 DEF ControlInv, HandlerInv, vars, connVars, kernVars, mainVars
  <2> QED BY <2>1, <2>2, <2>3 DEF ControlInv
<1> QED BY <1>1, <1>2

LEMMA ControlInvariant == Spec => []ControlInv
BY TypeInvariant, ControlInit, ControlStep, PTL DEF Spec

(***************************************************************************)
(* The application is told of a connection only when it knows of none, and *)
(* of messages and of a reconnect accordingly, whatever closes and accepts *)
(* and however often start() is called.                                    *)
(***************************************************************************)
THEOREM ConnectionEventOrder == Spec => []EventOrder
<1>1. ControlInv => EventOrder
  BY DEF ControlInv, EventInv, EventOrder, Told, OrderIn, ToldIn
<1> QED BY <1>1, ControlInvariant, PTL

(***************************************************************************)
(* A server's connection is not freed between the connect event and the    *)
(* poll of the close event.                                                *)
(***************************************************************************)
THEOREM ConnectionHeld == Spec => []HeldUntilClosePolled
<1>1. ASSUME TypeInv, ControlInv PROVE HeldUntilClosePolled
  <2> SUFFICES ASSUME Freed, NEW i \in 1..Len(m_call), m_call[i] = "connect"
               PROVE  \E j \in (i + 1)..polled : m_call[j] = "close"
    BY DEF HeldUntilClosePolled
  <2>1. m_call \in Seq(Event) /\ polled \in Nat /\ polled <= Len(m_call)
    BY <1>1 DEF TypeInv, TypeOK, Event, ControlInv, EventInv
  <2>2. Len(m_call) \in Nat BY <2>1, LenProperties
  <2>3. i \in 1..polled
    <3>1. \A k \in (polled + 1)..Len(m_call) : m_call[k] = "recv" BY DEF Freed
    <3>2. i \in 1..polled \/ i \in (polled + 1)..Len(m_call) BY <2>1, <2>2
    <3> QED BY <3>1, <3>2
  <2>4. ~ToldIn(m_call, polled) BY <1>1 DEF Freed, ControlInv, EventInv
  <2> QED BY <2>3, <2>4 DEF ToldIn
<1> QED BY <1>1, TypeInvariant, ControlInvariant, PTL
-----------------------------------------------------------------------------
(***************************************************************************)
(* The bytes of a Connection: they reach the wire in order, a close        *)
(* without error waits for all of them, and a Connection implements the    *)
(* stream of ByteStream.                                                   *)
(*                                                                         *)
(* The invariant DataInv says where the bytes are: those up to Base have   *)
(* left, those from there to Front are in m_bufferSend, and the first n of *)
(* them have left too, if async_write has moved n; those from Front to     *)
(* accepted lie, block after block, in m_sendList.                         *)
(***************************************************************************)

(* The number of the last byte of a block, and of the last one already read. *)
LastByte(b) == b.buf[length(b)]
BeforeBlock(b) == LastByte(b) - needReadLength(b)

(* A block with something left to read, its bytes numbered without a gap. *)
Block(b, to) ==
  /\ b \in Buffer(Nat) /\ InBounds(b) /\ hasRead(b)
  /\ LastByte(b) <= to
  /\ \A i \in 1..length(b) : b.buf[i] = LastByte(b) - length(b) + i

(* The blocks of the list l follow each other and end with the byte to. *)
ListInOrder(l, to) ==
  /\ l \in Seq(Buffer(Nat))
  /\ \A i \in 1..Len(l) : Block(l[i], to)
  /\ \A i, j \in 1..Len(l) : j = i + 1 => LastByte(l[i]) = BeforeBlock(l[j])
  /\ l # << >> => LastByte(l[Len(l)]) = to

(* The number of the last byte before those of the list l. *)
FrontOf(l, to) == IF l = << >> THEN to ELSE BeforeBlock(l[1])

(* Buffer b holds the bytes up to f. *)
BufferUpTo(b, f) == \A i \in 1..length(b) : b.buf[i] = f - length(b) + i

(* The number of the last byte that writeMessage has taken from m_sendList. *)
Front == FrontOf(m_sendList, accepted)

(* The number of the last byte before those of m_bufferSend. *)
Base == Front - length(m_bufferSend)

(* m_isSend tells that a write is outstanding, and then m_bufferSend is its. *)
WriteOwnsBuffer ==
  /\ m_isSend <=> wrOp.st # "none"
  /\ wrOp.st = "none" => wrOp.n = 0
  /\ wrOp.st # "none" =>
       /\ wrOp.base = 0 /\ wrOp.len = length(m_bufferSend) /\ wrOp.n <= wrOp.len
       /\ pc \notin {"fill", "start"}

(* Bytes have left on the present connection. *)
Carries(s, v) == s = "open" /\ v # << >>

(***************************************************************************)
(* handleWrite is queued at most once, and only while its write w is       *)
(* "done"; while the connection carries bytes it tells of no error.        *)
(***************************************************************************)
WriteQueued(q, w, s, v) ==
  \A i \in 1..Len(q) :
    q[i].h = "handleWrite" =>
      /\ w.st = "done"
      /\ \A j \in 1..Len(q) : q[j].h = "handleWrite" => j = i
      /\ q[i].er => ~Carries(s, v)
      /\ ~q[i].er => q[i].size = w.len /\ w.n = w.len

(* What has left, and where the present connection goes on. *)
WireUpTo ==
  /\ 0 <= Base /\ Base + wrOp.n <= sent /\ sent <= Front
  /\ Carries(sock, wire) => wire[Len(wire)] = Base + wrOp.n

DataInv ==
  /\ ListInOrder(m_sendList, accepted)
  /\ BufferUpTo(m_bufferSend, Front)
  /\ WriteOwnsBuffer
  /\ WriteQueued(ioQueue, wrOp, sock, wire)
  /\ WireInOrder
  /\ WireUpTo
-----------------------------------------------------------------------------
(* Lists of blocks *)

(* What is left to read of a block has at least one byte. *)
LEMMA BlockFacts ==
  ASSUME NEW b, NEW to \in Nat, Block(b, to)
  PROVE  /\ b \in Buffer(Nat) /\ InBounds(b)
         /\ length(b) \in Nat \ {0} /\ b.readPos \in Nat
         /\ needReadLength(b) \in Nat \ {0}
         /\ LastByte(b) \in Nat /\ LastByte(b) <= to
         /\ BeforeBlock(b) \in Int /\ BeforeBlock(b) < to
<1>1. b \in Buffer(Nat) /\ InBounds(b) /\ hasRead(b) /\ LastByte(b) <= to BY DEF Block
<1>2. b.buf \in Seq(Nat) /\ length(b) \in Nat /\ b.readPos \in Nat
  BY <1>1, LenProperties DEF Buffer, length
<1>3. needReadLength(b) > 0 BY <1>1 DEF hasRead
<1>4. needReadLength(b) \in Nat \ {0} /\ length(b) \in Nat \ {0}
  BY <1>2, <1>3 DEF needReadLength
<1>5. length(b) \in 1..Len(b.buf) BY <1>4 DEF length
<1>6. LastByte(b) \in Nat BY <1>2, <1>5, ElementOfSeq DEF LastByte
<1>7. BeforeBlock(b) \in Int /\ BeforeBlock(b) < to BY <1>1, <1>4, <1>6 DEF BeforeBlock
<1> QED BY <1>1, <1>2, <1>4, <1>6, <1>7

(* The list is in front of what was accepted. *)
LEMMA FrontFacts ==
  ASSUME NEW l, NEW to \in Nat, ListInOrder(l, to)
  PROVE  /\ FrontOf(l, to) \in Int /\ FrontOf(l, to) <= to
         /\ l # << >> => Len(l) \in Nat \ {0} /\ 1 \in 1..Len(l) /\ Block(l[1], to)
<1>1. l \in Seq(Buffer(Nat)) BY DEF ListInOrder
<1>2. l # << >> => Len(l) \in Nat \ {0} BY <1>1, EmptySeq
<1>3. l # << >> => 1 \in 1..Len(l) BY <1>2
<1>4. l # << >> => Block(l[1], to) BY <1>3 DEF ListInOrder
<1>5. CASE l = << >> BY <1>5 DEF FrontOf
<1>6. CASE l # << >>
  <2>1. BeforeBlock(l[1]) \in Int /\ BeforeBlock(l[1]) < to BY <1>4, <1>6, BlockFacts
  <2> QED BY <1>2, <1>3, <1>4, <1>6, <2>1 DEF FrontOf
<1> QED BY <1>5, <1>6

(* send() appends a block with the next len bytes. *)
LEMMA ListAppend ==
  ASSUME NEW l, NEW to \in Nat, ListInOrder(l, to), NEW len \in Nat \ {0},
         NEW blk \in Buffer(Nat), InBounds(blk), blk.readPos = 0, length(blk) = len,
         \A i \in 1..len : blk.buf[i] = to + i
  PROVE  /\ ListInOrder(Append(l, blk), to + len)
         /\ FrontOf(Append(l, blk), to + len) = FrontOf(l, to)
<1> DEFINE m == Append(l, blk)
           n == Len(l)
<1>1. l \in Seq(Buffer(Nat)) /\ n \in Nat BY LenProperties DEF ListInOrder
<1>2. /\ m \in Seq(Buffer(Nat)) /\ Len(m) = n + 1
      /\ \A i \in 1..n : m[i] = l[i]
      /\ m[n + 1] = blk /\ m # << >>
      /\ \A i \in 1..(n + 1) : i \in 1..n \/ i = n + 1
  BY <1>1, AppendProperties
<1>3. LastByte(blk) = to + len /\ needReadLength(blk) = len /\ BeforeBlock(blk) = to
  BY DEF LastByte, needReadLength, BeforeBlock
<1>4. Block(blk, to + len)
  <2>1. hasRead(blk) BY <1>3 DEF hasRead
  <2>2. \A i \in 1..length(blk) : blk.buf[i] = LastByte(blk) - length(blk) + i BY <1>3
  <2> QED BY <1>3, <2>1, <2>2 DEF Block
<1> HIDE DEF m
<1>5. ASSUME NEW i \in 1..n PROVE Block(m[i], to + len)
  <2>1. m[i] = l[i] /\ Block(l[i], to) BY <1>2 DEF ListInOrder
  <2>2. LastByte(l[i]) \in Nat /\ LastByte(l[i]) <= to BY <2>1, BlockFacts
  <2>3. LastByte(l[i]) <= to + len BY <2>2
  <2>4. Block(l[i], to + len) BY <2>1, <2>3 DEF Block
  <2> QED BY <2>1, <2>4
<1>6. \A i \in 1..Len(m) : Block(m[i], to + len) BY <1>2, <1>4, <1>5
<1>7. ASSUME NEW i \in 1..Len(m), NEW j \in 1..Len(m), j = i + 1
      PROVE  LastByte(m[i]) = BeforeBlock(m[j])
  <2>1. i \in 1..n BY <1>1, <1>2, <1>7
  <2>2. m[i] = l[i] BY <1>2, <2>1
  <2>3. CASE j \in 1..n
    <3>1. m[j] = l[j] BY <1>2, <2>3
    <3>2. LastByte(l[i]) = BeforeBlock(l[j]) BY <1>7, <2>1, <2>3 DEF ListInOrder
    <3> QED BY <2>2, <3>1, <3>2
  <2>4. CASE j = n + 1
    <3>1. i = n BY <1>1, <1>7, <2>4
    <3>2. l # << >> BY <1>1, <2>1, EmptySeq
    <3>3. LastByte(l[n]) = to BY <3>2 DEF ListInOrder
    <3> QED BY <1>2, <1>3, <2>2, <2>4, <3>1, <3>3
  <2> QED BY <1>2, <2>3, <2>4
<1>8. LastByte(m[Len(m)]) = to + len BY <1>2, <1>3
<1>9. ListInOrder(m, to + len) BY <1>2, <1>6, <1>7, <1>8 DEF ListInOrder
<1>10. FrontOf(m, to + len) = FrontOf(l, to)
  <2>1. FrontOf(m, to + len) = BeforeBlock(m[1]) BY <1>2 DEF FrontOf
  <2>2. CASE l = << >>
    <3>1. n = 0 /\ n + 1 = 1 BY <2>2, EmptySeq
    <3>2. m[1] = blk BY <1>2, <3>1
    <3> QED BY <1>3, <2>1, <2>2, <3>2 DEF FrontOf
  <2>3. CASE l # << >>
    <3>1. 1 \in 1..n BY <2>3, FrontFacts
    <3>2. m[1] = l[1] BY <1>2, <3>1
    <3> QED BY <2>1, <2>3, <3>2 DEF FrontOf
  <2> QED BY <2>2, <2>3
<1> QED BY <1>9, <1>10 DEF m

(* readBuffer has taken k bytes of the first block, p is what is left of it. *)
LEMMA TakenBlock ==
  ASSUME NEW b, NEW to \in Nat, Block(b, to), NEW k \in Nat, k <= needReadLength(b),
         NEW p \in Buffer(Nat), InBounds(p), p.buf = b.buf, p.readPos = b.readPos + k
  PROVE  /\ LastByte(p) = LastByte(b)
         /\ BeforeBlock(p) = BeforeBlock(b) + k
         /\ hasRead(p) => Block(p, to)
         /\ ~hasRead(p) => LastByte(b) = BeforeBlock(b) + k
<1>1. /\ length(b) \in Nat /\ b.readPos \in Nat /\ needReadLength(b) \in Nat
      /\ LastByte(b) \in Nat /\ LastByte(b) <= to
  BY BlockFacts
<1>2. length(p) = length(b) /\ LastByte(p) = LastByte(b) BY DEF length, LastByte
<1>3. needReadLength(p) = needReadLength(b) - k BY <1>1, <1>2 DEF needReadLength
<1>4. BeforeBlock(p) = BeforeBlock(b) + k BY <1>1, <1>2, <1>3 DEF BeforeBlock
<1>5. hasRead(p) => Block(p, to) BY <1>1, <1>2 DEF Block
<1>6. ~hasRead(p) => LastByte(b) = BeforeBlock(b) + k
  <2>1. ~hasRead(p) => k = needReadLength(b) BY <1>1, <1>3 DEF hasRead
  <2> QED BY <1>1, <2>1 DEF BeforeBlock
<1> QED BY <1>2, <1>4, <1>5, <1>6

(* One iteration of the loop over m_sendList moves the front by k bytes. *)
LEMMA ListTaken ==
  ASSUME NEW l, NEW to \in Nat, ListInOrder(l, to), l # << >>,
         NEW k \in Nat, k <= needReadLength(l[1]),
         NEW p \in Buffer(Nat), InBounds(p), p.buf = l[1].buf, p.readPos = l[1].readPos + k
  PROVE  /\ hasRead(p) =>
              /\ ListInOrder(<< p >> \o Tail(l), to)
              /\ FrontOf(<< p >> \o Tail(l), to) = FrontOf(l, to) + k
         /\ ~hasRead(p) =>
              /\ ListInOrder(Tail(l), to)
              /\ FrontOf(Tail(l), to) = FrontOf(l, to) + k
<1> DEFINE n == Len(l)
           t == Tail(l)
<1>1. l \in Seq(Buffer(Nat)) /\ n \in Nat \ {0} /\ 1 \in 1..n /\ Block(l[1], to)
  BY FrontFacts DEF ListInOrder
<1>2. /\ t \in Seq(Buffer(Nat)) /\ Len(t) = n - 1 /\ Len(t) \in Nat
      /\ \A i \in 1..Len(t) : t[i] = l[i + 1]
  BY <1>1, HeadTailProperties
<1>3. \A i \in 1..Len(t) : i + 1 \in 1..n BY <1>1, <1>2
<1>4. /\ LastByte(p) = LastByte(l[1])
      /\ BeforeBlock(p) = BeforeBlock(l[1]) + k
      /\ hasRead(p) => Block(p, to)
      /\ ~hasRead(p) => LastByte(l[1]) = BeforeBlock(l[1]) + k
  BY <1>1, TakenBlock
<1>5. FrontOf(l, to) = BeforeBlock(l[1]) BY DEF FrontOf
<1>6. \A i \in 1..Len(t) : Block(t[i], to) BY <1>2, <1>3 DEF ListInOrder
<1>7. \A i, j \in 1..Len(t) : j = i + 1 => LastByte(t[i]) = BeforeBlock(t[j])
  <2> TAKE i, j \in 1..Len(t)
  <2> HAVE j = i + 1
  <2>1. i + 1 \in 1..n /\ j + 1 \in 1..n /\ j + 1 = (i + 1) + 1 BY <1>3
  <2>2. LastByte(l[i + 1]) = BeforeBlock(l[j + 1]) BY <2>1 DEF ListInOrder
  <2> QED BY <1>2, <2>2
<1>8. t # << >> => LastByte(t[Len(t)]) = to
  <2> SUFFICES ASSUME t # << >> PROVE LastByte(t[Len(t)]) = to OBVIOUS
  <2>1. Len(t) \in 1..Len(t) /\ Len(t) + 1 = n BY <1>1, <1>2, EmptySeq
  <2>2. t[Len(t)] = l[n] BY <1>2, <2>1
  <2> QED BY <2>2 DEF ListInOrder
<1>9. ListInOrder(t, to) BY <1>2, <1>6, <1>7, <1>8 DEF ListInOrder
<1>10. FrontOf(t, to) = LastByte(l[1])
  <2>1. CASE t = << >>
    <3> HIDE DEF t, n
    <3>0. Len(t) = 0 BY <2>1, EmptySeq
    <3>1. n = 1 BY <1>1, <1>2, <3>0
    <3>2. LastByte(l[1]) = to BY <3>1 DEF ListInOrder, n
    <3> QED BY <2>1, <3>2 DEF FrontOf, t
  <2>2. CASE t # << >>
    <3>1. 1 \in 1..Len(t) BY <1>2, <2>2, EmptySeq
    <3>2. t[1] = l[2] /\ 1 + 1 = 2 /\ 2 \in 1..n BY <1>2, <1>3, <3>1
    <3>3. LastByte(l[1]) = BeforeBlock(l[2]) BY <1>1, <3>2 DEF ListInOrder
    <3> QED BY <2>2, <3>2, <3>3 DEF FrontOf
  <2> QED BY <2>1, <2>2
<1>11. ASSUME hasRead(p)
       PROVE  /\ ListInOrder(<< p >> \o t, to)
              /\ FrontOf(<< p >> \o t, to) = FrontOf(l, to) + k
  <2> DEFINE s == << p >>
             u == s \o t
  <2>1. s \in Seq(Buffer(Nat)) /\ Len(s) = 1 /\ s[1] = p OBVIOUS
  <2> HIDE DEF s, t
  <2>2. /\ u \in Seq(Buffer(Nat)) /\ Len(u) = 1 + Len(t)
        /\ \A i \in 1..(1 + Len(t)) : u[i] = IF i <= 1 THEN s[i] ELSE t[i - 1]
    <3>1. /\ u \in Seq(Buffer(Nat)) /\ Len(u) = Len(s) + Len(t)
          /\ \A i \in 1..(Len(s) + Len(t)) :
               u[i] = IF i <= Len(s) THEN s[i] ELSE t[i - Len(s)]
      <4>1. s \in Seq(Buffer(Nat)) /\ t \in Seq(Buffer(Nat)) BY <1>2, <2>1
      <4> QED BY <4>1, ConcatProperties
    <3> HIDE DEF u
    <3> QED BY <2>1, <3>1, Zenon
  <2>3. Len(u) = n BY <1>1, <1>2, <2>2
  <2>4. u[1] = p
    <3>1. 1 \in 1..(1 + Len(t)) /\ 1 <= 1 BY <1>2
    <3> QED BY <2>1, <2>2, <3>1
  <2>5. \A i \in 1..n : i # 1 => u[i] = l[i] /\ i - 1 \in 1..Len(t)
    <3> TAKE i \in 1..n
    <3> HAVE i # 1
    <3>1. i - 1 \in 1..Len(t) /\ i \in 1..(1 + Len(t)) /\ ~(i <= 1) /\ (i - 1) + 1 = i
      BY <1>1, <1>2
    <3>2. u[i] = t[i - 1] BY <2>2, <3>1
    <3> QED BY <1>2, <3>1, <3>2
  <2> HIDE DEF u
  <2>6. \A i \in 1..Len(u) : Block(u[i], to) /\ LastByte(u[i]) = LastByte(l[i])
    BY <1>4, <1>11, <2>3, <2>4, <2>5 DEF ListInOrder
  <2>7. \A i, j \in 1..Len(u) : j = i + 1 => LastByte(u[i]) = BeforeBlock(u[j])
    <3> TAKE i, j \in 1..Len(u)
    <3> HAVE j = i + 1
    <3>1. j # 1 /\ i \in 1..n /\ j \in 1..n BY <1>1, <2>3
    <3>2. u[j] = l[j] BY <2>5, <3>1
    <3>3. LastByte(l[i]) = BeforeBlock(l[j]) BY <3>1 DEF ListInOrder
    <3> QED BY <2>6, <3>2, <3>3
  <2>8. LastByte(u[Len(u)]) = to
    <3>1. n \in 1..Len(u) /\ Len(u) = n BY <1>1, <2>3
    <3>2. LastByte(l[n]) = to BY DEF ListInOrder
    <3> QED BY <2>6, <3>1, <3>2
  <2>9. ListInOrder(u, to) BY <2>2, <2>6, <2>7, <2>8 DEF ListInOrder
  <2>10. u # << >> BY <1>1, <2>2, <2>3, EmptySeq
  <2>11. FrontOf(u, to) = FrontOf(l, to) + k BY <1>4, <1>5, <2>4, <2>10 DEF FrontOf
  <2> QED BY <2>9, <2>11 DEF u, s
<1>12. ~hasRead(p) => FrontOf(t, to) = FrontOf(l, to) + k BY <1>4, <1>5, <1>10
<1> QED BY <1>9, <1>11, <1>12
-----------------------------------------------------------------------------
(* The send buffer and the queue of handlers *)

(* readBuffer appends the next k bytes of a block to the send buffer. *)
LEMMA BufferFilled ==
  ASSUME NEW b, SendBuffer(b), NEW src, NEW to \in Nat, Block(src, to),
         BufferUpTo(b, BeforeBlock(src)), NEW k \in Nat, k <= needReadLength(src),
         NEW q, length(q) = length(b) + k,
         \A i \in 1..length(b) : q.buf[i] = b.buf[i],
         \A i \in 1..k : q.buf[length(b) + i] = src.buf[src.readPos + i]
  PROVE  BufferUpTo(q, BeforeBlock(src) + k)
<1> DEFINE n == length(b)
           m == length(src)
           r == src.readPos
           last == LastByte(src)
           f == BeforeBlock(src)
<1>1. n \in Nat BY SendBufferFacts
<1>2. m \in Nat /\ r \in Nat /\ last \in Nat /\ needReadLength(src) \in Nat BY BlockFacts
<1>3. needReadLength(src) = m - r /\ f = last - (m - r) BY DEF needReadLength, BeforeBlock
<1>4. \A i \in 1..m : src.buf[i] = last - m + i BY DEF Block
<1>5. \A i \in 1..n : b.buf[i] = f - n + i BY DEF BufferUpTo
<1>6. k <= m - r BY <1>3
<1> HIDE DEF n, m, r, last, f
<1>7. f \in Int BY <1>2, <1>3
<1>8. ASSUME NEW i \in 1..(n + k) PROVE q.buf[i] = (f + k) - (n + k) + i
  <2>1. CASE i \in 1..n
    <3>1. q.buf[i] = f - n + i BY <2>1, <1>5 DEF n
    <3> QED BY <1>1, <1>7, <3>1
  <2>2. CASE i \notin 1..n
    <3> DEFINE j == i - n
    <3>1. j \in 1..k /\ i = n + j /\ r + j \in 1..m BY <1>1, <1>2, <1>6, <2>2
    <3> HIDE DEF j
    <3>2. q.buf[i] = src.buf[r + j] BY <3>1 DEF n, r
    <3>3. src.buf[r + j] = last - m + (r + j) BY <1>4, <3>1
    <3>4. last - m + (r + j) = (f + k) - (n + k) + i BY <1>1, <1>2, <1>3, <3>1
    <3> QED BY <3>2, <3>3, <3>4
  <2> QED BY <2>1, <2>2
<1> QED BY <1>8 DEF BufferUpTo, n, f

(* What writeMessage(size) keeps of the send buffer before it fills it. *)
LEMMA BufferKept ==
  ASSUME NEW b, SendBuffer(b), NEW f \in Int, BufferUpTo(b, f),
         NEW size \in Nat, size <= length(b)
  PROVE  LET c == clearReadBuffer(readData(b, size)) IN
         BufferUpTo(c, f) /\ length(c) = length(b) - size
<1> DEFINE c == clearReadBuffer(readData(b, size))
           n == length(b)
<1>1. n \in Nat /\ needReadLength(b) = n BY SendBufferFacts
<1>2. b \in Buffer(Nat) /\ InBounds(b) /\ b.readPos = 0 /\ canRead(b, size)
  BY <1>1 DEF SendBuffer, canRead
<1>3. /\ length(c) = needReadLength(b) - size
      /\ \A i \in 1..length(c) : c.buf[i] = b.buf[b.readPos + size + i]
  BY <1>2, ConsumeLemma
<1>4. \A i \in 1..n : b.buf[i] = f - n + i BY DEF BufferUpTo
<1> HIDE DEF c, n
<1>5. length(c) = n - size BY <1>1, <1>3
<1>6. \A i \in 1..(n - size) : c.buf[i] = f - (n - size) + i
  <2> TAKE i \in 1..(n - size)
  <2>1. b.readPos + size + i = size + i /\ size + i \in 1..n BY <1>1, <1>2
  <2>2. c.buf[i] = b.buf[size + i] BY <1>3, <1>5, <2>1
  <2>3. b.buf[size + i] = f - n + (size + i) BY <1>4, <2>1
  <2> QED BY <1>1, <2>2, <2>3
<1>7. BufferUpTo(c, f) BY <1>5, <1>6 DEF BufferUpTo
<1> QED BY <1>5, <1>7 DEF c, n

(* No handleWrite is queued. *)
NoWriteIn(q) == \A i \in 1..Len(q) : q[i].h # "handleWrite"

(* Queueing one more handler. *)
LEMMA QueueAppend ==
  ASSUME NEW q \in Seq(RunHandler), NEW x \in RunHandler, NEW w, NEW s, NEW v
  PROVE  /\ x.h # "handleWrite" /\ WriteQueued(q, w, s, v) => WriteQueued(Append(q, x), w, s, v)
         /\ x.h # "handleWrite" /\ NoWriteIn(q) => NoWriteIn(Append(q, x))
         /\ /\ NoWriteIn(q) /\ w.st = "done"
            /\ x.er => ~Carries(s, v)
            /\ ~x.er => x.size = w.len /\ w.n = w.len
            => WriteQueued(Append(q, x), w, s, v)
<1> DEFINE a == Append(q, x)
           n == Len(q)
<1>1. /\ n \in Nat /\ Len(a) = n + 1
      /\ \A i \in 1..n : a[i] = q[i]
      /\ a[n + 1] = x
      /\ \A i \in 1..(n + 1) : i \in 1..n \/ i = n + 1
  BY AppendFacts
<1> HIDE DEF a, RunHandler, Carries
<1>3. x.h # "handleWrite" /\ WriteQueued(q, w, s, v) => WriteQueued(a, w, s, v)
  BY <1>1 DEF WriteQueued
<1>4. x.h # "handleWrite" /\ NoWriteIn(q) => NoWriteIn(a) BY <1>1 DEF NoWriteIn
<1>5. /\ NoWriteIn(q) /\ w.st = "done"
      /\ x.er => ~Carries(s, v)
      /\ ~x.er => x.size = w.len /\ w.n = w.len
      => WriteQueued(a, w, s, v)
  BY <1>1 DEF WriteQueued, NoWriteIn
<1> QED BY <1>3, <1>4, <1>5 DEF a

(* Running the first handler. *)
LEMMA QueueTail ==
  ASSUME NEW q \in Seq(RunHandler), q # << >>, NEW w, NEW s, NEW v, WriteQueued(q, w, s, v)
  PROVE  /\ Tail(q) \in Seq(RunHandler)
         /\ WriteQueued(Tail(q), w, s, v)
         /\ Head(q).h = "handleWrite" =>
              /\ w.st = "done"
              /\ Head(q).er => ~Carries(s, v)
              /\ ~Head(q).er => Head(q).size = w.len /\ w.n = w.len
              /\ NoWriteIn(Tail(q))
<1> DEFINE t == Tail(q)
           n == Len(q)
<1>1. /\ n \in Nat \ {0} /\ t \in Seq(RunHandler) /\ Len(t) = n - 1 /\ 1 \in 1..n
      /\ \A i \in 1..Len(t) : i + 1 \in 1..n /\ t[i] = q[i + 1]
      /\ Head(q) = q[1]
  BY TailFacts
<1>2. /\ \A i \in 1..Len(t) : i + 1 # 1
      /\ \A i, j \in 1..Len(t) : i + 1 = j + 1 => i = j
  BY <1>1
<1> HIDE DEF t, RunHandler, Carries
<1>3. WriteQueued(t, w, s, v) BY <1>1, <1>2 DEF WriteQueued
<1>4. Head(q).h = "handleWrite" =>
        /\ w.st = "done"
        /\ Head(q).er => ~Carries(s, v)
        /\ ~Head(q).er => Head(q).size = w.len /\ w.n = w.len
  BY <1>1 DEF WriteQueued
<1>5. Head(q).h = "handleWrite" => NoWriteIn(t) BY <1>1, <1>2 DEF WriteQueued, NoWriteIn
<1> QED BY <1>1, <1>3, <1>4, <1>5 DEF t

(* The write and the socket change under a queue. *)
LEMMA QueueFrame ==
  ASSUME NEW q, NEW w, NEW s, NEW v
  PROVE  /\ NoWriteIn(q) => \A w2, s2, v2 : WriteQueued(q, w2, s2, v2)
         /\ WriteQueued(q, w, s, v) /\ w.st # "done" => NoWriteIn(q)
         /\ WriteQueued(q, w, s, v) =>
              \A s2, v2 : (Carries(s2, v2) => Carries(s, v)) => WriteQueued(q, w, s2, v2)
<1> HIDE DEF Carries
<1>1. NoWriteIn(q) => \A w2, s2, v2 : WriteQueued(q, w2, s2, v2) BY DEF NoWriteIn, WriteQueued
<1>2. WriteQueued(q, w, s, v) /\ w.st # "done" => NoWriteIn(q) BY DEF NoWriteIn, WriteQueued
<1>3. WriteQueued(q, w, s, v) =>
        \A s2, v2 : (Carries(s2, v2) => Carries(s, v)) => WriteQueued(q, w, s2, v2)
  BY DEF WriteQueued
<1> QED BY <1>1, <1>2, <1>3
-----------------------------------------------------------------------------
(* Layer 3: the bytes. *)

(* The types of the terms of DataInv. *)
LEMMA DataFacts ==
  ASSUME TypeInv, DataInv
  PROVE  /\ accepted \in Nat /\ Front \in Int /\ Front <= accepted
         /\ SendBuffer(m_bufferSend)
         /\ length(m_bufferSend) \in Nat
         /\ needReadLength(m_bufferSend) = length(m_bufferSend)
         /\ Base \in Int /\ Base = Front - length(m_bufferSend)
         /\ wrOp \in [st : {"none", "flight", "done"}, base : Nat, len : Nat, n : Nat]
         /\ wrOp.n \in Nat /\ wrOp.len \in Nat
         /\ wire \in Seq(Nat) /\ Len(wire) \in Nat /\ sent \in Nat
<1>1. /\ accepted \in Nat /\ wire \in Seq(Nat) /\ sent \in Nat
      /\ wrOp \in [st : {"none", "flight", "done"}, base : Nat, len : Nat, n : Nat]
  BY DEF TypeInv, TypeOK
<1>2. Len(wire) \in Nat BY <1>1, LenProperties
<1>3. wrOp.n \in Nat /\ wrOp.len \in Nat BY <1>1
<1>4. SendBuffer(m_bufferSend) BY TypeInvParts
<1>5. /\ length(m_bufferSend) \in Nat
      /\ needReadLength(m_bufferSend) = length(m_bufferSend)
  BY <1>4, SendBufferFacts
<1>6. Front \in Int /\ Front <= accepted BY <1>1, FrontFacts DEF DataInv, Front
<1>7. Base \in Int /\ Base = Front - length(m_bufferSend) BY <1>5, <1>6 DEF Base
<1> QED BY <1>1, <1>2, <1>3, <1>4, <1>5, <1>6, <1>7

(* A step that puts nothing on the wire. *)
LEMMA WireKeep ==
  ASSUME TypeInv, DataInv, sent' = sent,
         Front' \in Int, Base' \in Int, wrOp'.n \in Nat,
         0 <= Base', Front <= Front', Base' + wrOp'.n <= Base + wrOp.n,
         Carries(sock', wire') => Carries(sock, wire) /\ Base' + wrOp'.n = Base + wrOp.n,
         wire' = wire \/ wire' = << >>
  PROVE  WireInOrder' /\ WireUpTo'
<1>1. Front \in Int /\ Base \in Int /\ wrOp.n \in Nat /\ sent \in Nat BY DataFacts
<1>2. WireInOrder /\ WireUpTo BY DEF DataInv
<1>3. WireInOrder'
  <2>1. CASE wire' = wire BY <1>2, <2>1 DEF WireInOrder
  <2>2. CASE wire' = << >>
    <3>1. Len(wire') = 0 BY <2>2
    <3> QED BY <3>1 DEF WireInOrder
  <2> QED BY <2>1, <2>2
<1>4. Base' + wrOp'.n <= sent' /\ sent' <= Front' BY <1>1, <1>2 DEF WireUpTo
<1>5. Carries(sock', wire') => wire'[Len(wire')] = Base' + wrOp'.n
  <2> SUFFICES ASSUME Carries(sock', wire') PROVE wire'[Len(wire')] = Base' + wrOp'.n
    OBVIOUS
  <2>1. wire' = wire /\ Carries(sock, wire) /\ Base' + wrOp'.n = Base + wrOp.n
    BY DEF Carries
  <2> QED BY <1>2, <2>1 DEF WireUpTo
<1>6. WireUpTo' BY <1>4, <1>5 DEF WireUpTo, Carries
<1> QED BY <1>3, <1>6

(* A step that moves no byte. *)
LEMMA DataKeep ==
  ASSUME TypeInv, DataInv,
         UNCHANGED <<m_isSend, m_sendList, m_bufferSend, wrOp, accepted, sent>>,
         pc' \in {pc, "close", "idle"},
         \/ wire' = wire /\ (sock' = "open" => sock = "open")
         \/ wire' = << >>,
         WriteQueued(ioQueue', wrOp, sock, wire)
  PROVE  DataInv'
<1>1. Carries(sock', wire') => Carries(sock, wire) BY DEF Carries
<1>2. WriteQueued(ioQueue', wrOp', sock', wire') BY <1>1, QueueFrame
<1>3. Front' = Front /\ Base' = Base BY DEF Front, Base
<1>4. ListInOrder(m_sendList', accepted') /\ BufferUpTo(m_bufferSend', Front')
  BY <1>3 DEF DataInv
<1>5. WriteOwnsBuffer' BY DEF DataInv, WriteOwnsBuffer
<1>6. Front \in Int /\ Base \in Int /\ wrOp.n \in Nat /\ 0 <= Base
  BY DataFacts DEF DataInv, WireUpTo
<1>7. WireInOrder' /\ WireUpTo'
  <2>1. Front' \in Int /\ Base' \in Int /\ wrOp'.n \in Nat /\ 0 <= Base' /\ Front <= Front'
        /\ Base' + wrOp'.n <= Base + wrOp.n /\ Base' + wrOp'.n = Base + wrOp.n
    BY <1>3, <1>6
  <2> QED BY <1>1, <2>1, WireKeep
<1> QED BY <1>2, <1>4, <1>5, <1>7 DEF DataInv

(* writeMessage drops what was written and starts to fill the buffer. *)
LEMMA DataWriteMessage ==
  ASSUME TypeInv, ControlInv, DataInv, WriteMessage
  PROVE  DataInv'
<1> DEFINE size == Head(ioQueue).size
<1>1. ioQueue \in Seq(RunHandler) BY DEF ControlInv, HandlerInv
<1>2. /\ ioQueue # << >> /\ Head(ioQueue).h = "writeMessage" /\ ioQueue' = Tail(ioQueue)
      /\ pc = "idle"
      /\ UNCHANGED <<m_isSend, m_sendList, wrOp, accepted, wire, sent, sock>>
  BY DEF WriteMessage, Run, kernVars, mainVars
<1>3. Head(ioQueue) \in RunHandler BY <1>1, <1>2, TailFacts
<1>4. size = 0 BY <1>2, <1>3 DEF RunHandler, RawHandlers
<1>5. WriteQueued(ioQueue', wrOp, sock, wire)
  <2> HIDE DEF RunHandler
  <2> QED BY <1>1, <1>2, QueueTail DEF DataInv
<1>6. CASE UNCHANGED <<m_bufferSend, pc>> BY <1>2, <1>5, <1>6, DataKeep
<1>7. CASE /\ ~m_isSend /\ pc' = "fill"
           /\ m_bufferSend' = clearReadBuffer(readData(m_bufferSend, size))
  <2>1. /\ SendBuffer(m_bufferSend) /\ Front \in Int /\ length(m_bufferSend) \in Nat
        /\ BufferUpTo(m_bufferSend, Front) /\ Base \in Int /\ wrOp.n \in Nat /\ 0 <= Base
    BY DataFacts DEF DataInv, WireUpTo
  <2> HIDE DEF size
  <2>2. /\ size \in Nat /\ size <= length(m_bufferSend)
        /\ length(m_bufferSend) - size = length(m_bufferSend)
    BY <1>4, <2>1
  <2>3. BufferUpTo(m_bufferSend', Front) /\ length(m_bufferSend') = length(m_bufferSend)
    BY <1>7, <2>1, <2>2, BufferKept
  <2>4. Front' = Front BY <1>2 DEF Front
  <2>5. wrOp.st = "none" BY <1>7 DEF DataInv, WriteOwnsBuffer
  <2>6. WriteOwnsBuffer' BY <1>2, <2>5 DEF DataInv, WriteOwnsBuffer
  <2>7. length(m_bufferSend)' = length(m_bufferSend) BY <2>3 DEF length
  <2>8. Base' = Base BY <2>4, <2>7 DEF Base
  <2>9. WireInOrder' /\ WireUpTo'
    <3>1. Front' \in Int /\ Base' \in Int /\ wrOp'.n \in Nat /\ 0 <= Base' /\ Front <= Front'
          /\ Base' + wrOp'.n <= Base + wrOp.n /\ Base' + wrOp'.n = Base + wrOp.n
      BY <1>2, <2>1, <2>4, <2>8
    <3> QED BY <1>2, <3>1, WireKeep
  <2>10. WriteQueued(ioQueue', wrOp', sock', wire') BY <1>2, <1>5
  <2>11. ListInOrder(m_sendList', accepted') /\ BufferUpTo(m_bufferSend', Front')
    BY <1>2, <2>3, <2>4 DEF DataInv
  <2> QED BY <2>6, <2>9, <2>10, <2>11 DEF DataInv
<1> QED BY <1>6, <1>7 DEF WriteMessage, EnterWriteMessage

(* The next bytes of m_sendList go to the end of m_bufferSend. *)
LEMMA DataFill ==
  ASSUME TypeInv, DataInv, FillSendBuffer
  PROVE  DataInv'
<1> DEFINE src == Head(m_sendList)
           p   == readBufferFrom(src, m_bufferSend)
           k   == readBufferLen(src, m_bufferSend)
           n   == length(m_bufferSend)
<1>1. /\ m_sendList # << >> /\ pc = "fill" /\ pc' \in {"fill", "start"}
      /\ m_bufferSend' = readBufferInto(src, m_bufferSend)
      /\ \/ hasRead(p) /\ m_sendList' = << p >> \o Tail(m_sendList)
         \/ ~hasRead(p) /\ m_sendList' = Tail(m_sendList)
      /\ UNCHANGED <<m_isSend, sock, wrOp, wire, sent, ioQueue, accepted>>
  BY DEF FillSendBuffer, kernVars, mainVars
<1>2. /\ src = m_sendList[1]
      /\ k \in Nat /\ k <= needReadLength(src)
      /\ p \in Buffer(Nat) /\ InBounds(p)
      /\ p.buf = src.buf /\ p.readPos = src.readPos + k
      /\ length(m_bufferSend') = n + k
      /\ \A i \in 1..n : m_bufferSend'.buf[i] = m_bufferSend.buf[i]
      /\ \A i \in 1..k : m_bufferSend'.buf[n + i] = src.buf[src.readPos + i]
  BY <1>1, FillFacts
<1>3. accepted \in Nat /\ SendBuffer(m_bufferSend) /\ n \in Nat /\ Front \in Int BY DataFacts
<1>4. ListInOrder(m_sendList, accepted) /\ BufferUpTo(m_bufferSend, Front) BY DEF DataInv
<1>5. Block(src, accepted) /\ Front = BeforeBlock(src)
  BY <1>1, <1>2, <1>3, <1>4, FrontFacts DEF Front, FrontOf
<1> HIDE DEF src, p, k, n
<1>6. ListInOrder(m_sendList', accepted) /\ FrontOf(m_sendList', accepted) = Front + k
  <2>1. /\ hasRead(p) =>
             /\ ListInOrder(<< p >> \o Tail(m_sendList), accepted)
             /\ FrontOf(<< p >> \o Tail(m_sendList), accepted) = FrontOf(m_sendList, accepted) + k
        /\ ~hasRead(p) =>
             /\ ListInOrder(Tail(m_sendList), accepted)
             /\ FrontOf(Tail(m_sendList), accepted) = FrontOf(m_sendList, accepted) + k
    BY <1>1, <1>2, <1>3, <1>4, ListTaken
  <2> QED BY <1>1, <2>1 DEF Front
<1>7. Front' = Front + k BY <1>1, <1>6 DEF Front
<1>8. BufferUpTo(m_bufferSend', Front + k)
  BY <1>2, <1>3, <1>4, <1>5, BufferFilled DEF n
<1>9. ListInOrder(m_sendList', accepted') /\ BufferUpTo(m_bufferSend', Front')
  BY <1>1, <1>6, <1>7, <1>8
<1>10. wrOp.st = "none" BY <1>1 DEF DataInv, WriteOwnsBuffer
<1>11. WriteOwnsBuffer' BY <1>1, <1>10 DEF DataInv, WriteOwnsBuffer
<1>12. Base' = Base
  <2>1. length(m_bufferSend)' = n + k BY <1>2 DEF length
  <2>2. Front' - length(m_bufferSend)' = Front - n BY <1>2, <1>3, <1>7, <2>1
  <2> QED BY <2>2 DEF Base, n
<1>13. WireInOrder' /\ WireUpTo'
  <2>1. Base \in Int /\ 0 <= Base /\ wrOp.n \in Nat BY DataFacts DEF DataInv, WireUpTo
  <2>2. Front' \in Int /\ Base' \in Int /\ wrOp'.n \in Nat /\ 0 <= Base' /\ Front <= Front'
        /\ Base' + wrOp'.n <= Base + wrOp.n /\ Base' + wrOp'.n = Base + wrOp.n
    BY <1>1, <1>2, <1>3, <1>7, <1>12, <2>1
  <2> QED BY <1>1, <2>2, WireKeep
<1>14. WriteQueued(ioQueue', wrOp', sock', wire') BY <1>1 DEF DataInv
<1> QED BY <1>9, <1>11, <1>13, <1>14 DEF DataInv

(* async_write is given all of m_bufferSend. *)
LEMMA DataStartWrite ==
  ASSUME TypeInv, ControlInv, DataInv, StartWrite
  PROVE  DataInv'
<1> DEFINE w(st) == [st |-> st, base |-> m_bufferSend.readPos,
                     len |-> needReadLength(m_bufferSend), n |-> 0]
           x == Handler("handleWrite", TRUE, 0)
<1>1. /\ pc \in {"fill", "start"} /\ pc' = "idle"
      /\ UNCHANGED <<m_sendList, m_bufferSend, sock, wire, sent, accepted>>
      /\ \/ m_isSend' = TRUE /\ wrOp' = w("flight") /\ ioQueue' = ioQueue
         \/ /\ m_isSend' = TRUE /\ sock \in {"new", "closed"} /\ wrOp' = w("done")
            /\ ioQueue' = Append(ioQueue, x)
         \/ UNCHANGED <<m_isSend, wrOp, ioQueue>>
  BY DEF StartWrite, mainVars
<1>2. /\ length(m_bufferSend) \in Nat /\ m_bufferSend.readPos = 0
      /\ needReadLength(m_bufferSend) = length(m_bufferSend)
      /\ Front \in Int /\ Base \in Int /\ 0 <= Base
  BY DataFacts DEF SendBuffer, DataInv, WireUpTo
<1>3. wrOp.st = "none" /\ wrOp.n = 0 /\ ~m_isSend BY <1>1 DEF DataInv, WriteOwnsBuffer
<1>4. /\ wrOp'.n = 0
      /\ \/ UNCHANGED <<m_isSend, wrOp>>
         \/ /\ m_isSend' = TRUE /\ wrOp'.st \in {"flight", "done"} /\ wrOp'.base = 0
            /\ wrOp'.len = length(m_bufferSend)
  <2>1. \A st : /\ w(st).st = st /\ w(st).base = 0 /\ w(st).n = 0
                /\ w(st).len = length(m_bufferSend)
    BY <1>2
  <2>2. \/ m_isSend' = TRUE /\ wrOp' = w("flight")
        \/ m_isSend' = TRUE /\ wrOp' = w("done")
        \/ UNCHANGED <<m_isSend, wrOp>>
    BY <1>1
  <2> HIDE DEF w
  <2> QED BY <1>3, <2>1, <2>2
<1>5. Front' = Front /\ Base' = Base BY <1>1 DEF Front, Base
<1>6. ListInOrder(m_sendList', accepted') /\ BufferUpTo(m_bufferSend', Front')
  BY <1>1, <1>5 DEF DataInv
<1>7. WriteOwnsBuffer'
  <2>1. CASE UNCHANGED <<m_isSend, wrOp>>
    BY <1>1, <1>3, <2>1 DEF WriteOwnsBuffer
  <2>2. CASE /\ m_isSend' = TRUE /\ wrOp'.st \in {"flight", "done"} /\ wrOp'.base = 0
             /\ wrOp'.len = length(m_bufferSend)
    <3>1. wrOp'.n <= wrOp'.len BY <1>2, <1>4, <2>2
    <3> QED BY <1>1, <2>2, <3>1 DEF WriteOwnsBuffer
  <2> QED BY <1>4, <2>1, <2>2
<1>8. WriteQueued(ioQueue', wrOp', sock', wire')
  <2>1. NoWriteIn(ioQueue) BY <1>3, QueueFrame DEF DataInv
  <2>2. CASE ioQueue' = ioQueue BY <2>1, <2>2, QueueFrame
  <2>3. CASE /\ m_isSend' = TRUE /\ sock \in {"new", "closed"} /\ wrOp' = w("done")
             /\ ioQueue' = Append(ioQueue, x)
    <3>1. ioQueue \in Seq(RunHandler) BY DEF ControlInv, HandlerInv
    <3>2. x \in RunHandler /\ x.h = "handleWrite" /\ x.er = TRUE
      BY RunHandlers DEF RawHandlers
    <3>3. wrOp'.st = "done" BY <2>3
    <3>4. ~Carries(sock', wire') BY <1>1, <2>3 DEF Carries
    <3> HIDE DEF x, RunHandler
    <3> QED BY <2>1, <2>3, <3>1, <3>2, <3>3, <3>4, QueueAppend
  <2> QED BY <1>1, <2>2, <2>3
<1>9. WireInOrder' /\ WireUpTo'
  <2>1. Front' \in Int /\ Base' \in Int /\ wrOp'.n \in Nat /\ 0 <= Base' /\ Front <= Front'
        /\ Base' + wrOp'.n <= Base + wrOp.n /\ Base' + wrOp'.n = Base + wrOp.n
    BY <1>2, <1>3, <1>4, <1>5
  <2> QED BY <1>1, <2>1, WireKeep
<1> QED BY <1>6, <1>7, <1>8, <1>9 DEF DataInv

(* A write is over: what it sent leaves the buffer, or the error is passed on. *)
LEMMA DataHandleWrite ==
  ASSUME TypeInv, ControlInv, DataInv, HandleWrite
  PROVE  DataInv'
<1> DEFINE size == Head(ioQueue).size
           n == length(m_bufferSend)
<1>1. ioQueue \in Seq(RunHandler) /\ (~m_connect /\ sock = "open" => wire = << >>)
  BY DEF ControlInv, HandlerInv
<1>2. /\ ioQueue # << >> /\ Head(ioQueue).h = "handleWrite" /\ pc = "idle"
      /\ m_isSend' = FALSE /\ wrOp' = NoWrite
      /\ UNCHANGED <<m_sendList, accepted, wire, sent, sock>>
  BY DEF HandleWrite, Run, mainVars
<1>3. /\ Tail(ioQueue) \in Seq(RunHandler) /\ NoWriteIn(Tail(ioQueue)) /\ wrOp.st = "done"
      /\ Head(ioQueue).er => ~Carries(sock, wire)
      /\ ~Head(ioQueue).er => size = wrOp.len /\ wrOp.n = wrOp.len
  <2> HIDE DEF RunHandler
  <2> QED BY <1>1, <1>2, QueueTail DEF DataInv
<1>4. /\ SendBuffer(m_bufferSend) /\ Front \in Int /\ n \in Nat /\ wrOp.len = n
      /\ BufferUpTo(m_bufferSend, Front) /\ Base \in Int /\ 0 <= Base /\ wrOp.n \in Nat
      /\ Base = Front - n
  BY <1>3, DataFacts DEF DataInv, WriteOwnsBuffer, WireUpTo
<1>5. Front' = Front BY <1>2 DEF Front
<1>6. wrOp'.st = "none" /\ wrOp'.n = 0 BY <1>2 DEF NoWrite
<1>7. WriteOwnsBuffer' BY <1>2, <1>6 DEF WriteOwnsBuffer
<1>8. NoWriteIn(ioQueue')
  <2>1. Handler("handleClose", TRUE, 0) \in RunHandler
        /\ Handler("handleClose", TRUE, 0).h = "handleClose"
    BY RunHandlers
  <2> HIDE DEF RunHandler
  <2>2. NoWriteIn(close(Tail(ioQueue), TRUE)) BY <1>3, <2>1, QueueAppend DEF close
  <2>3. ioQueue' \in {Tail(ioQueue), close(Tail(ioQueue), TRUE)} BY DEF HandleWrite
  <2> QED BY <1>3, <2>2, <2>3
<1>9. WriteQueued(ioQueue', wrOp', sock', wire') BY <1>8, QueueFrame
<1>10. ListInOrder(m_sendList', accepted') BY <1>2 DEF DataInv
<1>11. ASSUME m_bufferSend' = m_bufferSend, ~Carries(sock, wire) PROVE DataInv'
  <2>1. BufferUpTo(m_bufferSend', Front') BY <1>4, <1>5, <1>11
  <2>2. Base' = Base BY <1>5, <1>11 DEF Base, length
  <2>3. WireInOrder' /\ WireUpTo'
    <3>1. Front' \in Int /\ Base' \in Int /\ wrOp'.n \in Nat /\ 0 <= Base' /\ Front <= Front'
          /\ Base' + wrOp'.n <= Base + wrOp.n
      BY <1>4, <1>5, <1>6, <2>2
    <3> QED BY <1>2, <1>11, <3>1, WireKeep
  <2> QED BY <1>7, <1>9, <1>10, <2>1, <2>3 DEF DataInv
<1>12. CASE Head(ioQueue).er
  <2>1. m_bufferSend' = m_bufferSend BY <1>12 DEF HandleWrite
  <2> QED BY <1>3, <1>11, <1>12, <2>1
<1>13. CASE ~Head(ioQueue).er /\ ~m_connect
  <2>1. m_bufferSend' = m_bufferSend BY <1>13 DEF HandleWrite, EnterWriteMessage
  <2>2. ~Carries(sock, wire) BY <1>1, <1>13 DEF Carries
  <2> QED BY <1>11, <2>1, <2>2
<1>14. CASE ~Head(ioQueue).er /\ m_connect
  <2>1. m_bufferSend' = clearReadBuffer(readData(m_bufferSend, size))
    BY <1>14 DEF HandleWrite, EnterWriteMessage
  <2> HIDE DEF size, n
  <2>2. size = n /\ size \in Nat /\ size <= n /\ n - size = 0 /\ wrOp.n = n
    BY <1>3, <1>4, <1>14
  <2>3. BufferUpTo(m_bufferSend', Front) /\ length(m_bufferSend') = 0
    BY <1>4, <2>1, <2>2, BufferKept DEF n
  <2>4. BufferUpTo(m_bufferSend', Front') BY <1>5, <2>3
  <2>5. length(m_bufferSend)' = 0 BY <2>3 DEF length
  <2>6. Base' = Front /\ Base + wrOp.n = Front BY <1>4, <1>5, <2>2, <2>5 DEF Base
  <2>7. WireInOrder' /\ WireUpTo'
    <3>1. Front' \in Int /\ Base' \in Int /\ wrOp'.n \in Nat /\ 0 <= Base' /\ Front <= Front'
          /\ Base' + wrOp'.n <= Base + wrOp.n /\ Base' + wrOp'.n = Base + wrOp.n
      BY <1>4, <1>5, <1>6, <2>2, <2>6
    <3> QED BY <1>2, <3>1, WireKeep
  <2> QED BY <1>7, <1>9, <1>10, <2>4, <2>7 DEF DataInv
<1> QED BY <1>12, <1>13, <1>14

(* The queue behind which a close puts the handlers of what it aborts. *)
LEMMA QueueAborted ==
  ASSUME TypeInv, ioQueue \in Seq(RunHandler), WriteQueued(ioQueue, wrOp, sock, wire),
         NEW w, w = IF wrOp.st = "flight" THEN [wrOp EXCEPT !.st = "done"] ELSE wrOp
  PROVE  WriteQueued(ioQueue \o Aborted, w, "closed", wire)
<1> DEFINE q == ioQueue
           t == Aborted
           r == q \o t
<1>1. /\ t \in Seq(RunHandler)
      /\ \A i \in 1..Len(t) : /\ t[i].er
                              /\ t[i].h = "handleWrite" => wrOp.st = "flight" /\ i = Len(t)
  BY AbortedFacts DEF TypeInv
<1> HIDE DEF RunHandler, t
<1>2. /\ Len(q) \in Nat /\ Len(t) \in Nat /\ Len(r) = Len(q) + Len(t)
      /\ \A i \in 1..Len(r) : r[i] = IF i <= Len(q) THEN q[i] ELSE t[i - Len(q)]
  BY <1>1, ConcatProperties, LenProperties
<1> HIDE DEF r
<1>3. \A i \in 1..Len(r) : \/ i \in 1..Len(q) /\ r[i] = q[i]
                           \/ i - Len(q) \in 1..Len(t) /\ r[i] = t[i - Len(q)]
  BY <1>2
<1>4. ~Carries("closed", wire) BY DEF Carries
<1>5. wrOp \in [st : {"none", "flight", "done"}, base : Nat, len : Nat, n : Nat]
  BY DEF TypeInv, TypeOK
<1>6. CASE wrOp.st = "flight"
  <2>1. w.st = "done" BY <1>5, <1>6
  <2>2. NoWriteIn(q) BY <1>6, QueueFrame
  <2>3. ASSUME NEW i \in 1..Len(r), r[i].h = "handleWrite" PROVE i = Len(r) /\ r[i].er
    <3>1. i - Len(q) \in 1..Len(t) /\ r[i] = t[i - Len(q)]
      BY <1>3, <2>2, <2>3 DEF NoWriteIn
    <3>2. i - Len(q) = Len(t) /\ r[i].er BY <1>1, <2>3, <3>1
    <3> QED BY <1>2, <3>2
  <2> QED BY <1>4, <2>1, <2>3 DEF WriteQueued, r, t
<1>7. CASE wrOp.st # "flight"
  <2>1. w = wrOp BY <1>7
  <2>2. ASSUME NEW i \in 1..Len(r), r[i].h = "handleWrite"
        PROVE  i \in 1..Len(q) /\ r[i] = q[i]
    BY <1>1, <1>3, <1>7, <2>2
  <2> QED BY <1>4, <2>1, <2>2 DEF WriteQueued, r, t
<1> QED BY <1>6, <1>7

(* Closing the socket aborts the write that was outstanding. *)
LEMMA DataClose ==
  ASSUME TypeInv, ControlInv, DataInv, CloseSocket
  PROVE  DataInv'
<1>1. ioQueue \in Seq(RunHandler) BY DEF ControlInv, HandlerInv
<1>2. /\ pc' = "idle" /\ sock' = "closed"
      /\ wrOp' = IF wrOp.st = "flight" THEN [wrOp EXCEPT !.st = "done"] ELSE wrOp
      /\ ioQueue' = ioQueue \o Aborted
      /\ UNCHANGED <<m_isSend, m_sendList, m_bufferSend, wire, sent, accepted>>
  BY DEF CloseSocket
<1>3. /\ wrOp \in [st : {"none", "flight", "done"}, base : Nat, len : Nat, n : Nat]
      /\ wrOp.n \in Nat /\ Front \in Int /\ Base \in Int /\ 0 <= Base
  BY DataFacts DEF DataInv, WireUpTo
<1>4. WriteQueued(ioQueue', wrOp', sock', wire')
  <2> HIDE DEF RunHandler
  <2> QED BY <1>1, <1>2, QueueAborted DEF DataInv
<1>5. /\ (wrOp'.st = "none" <=> wrOp.st = "none") /\ wrOp'.n = wrOp.n
      /\ wrOp'.base = wrOp.base /\ wrOp'.len = wrOp.len
  BY <1>2, <1>3
<1>6. WriteOwnsBuffer' BY <1>2, <1>5 DEF DataInv, WriteOwnsBuffer
<1>7. Front' = Front /\ Base' = Base BY <1>2 DEF Front, Base
<1>8. ListInOrder(m_sendList', accepted') /\ BufferUpTo(m_bufferSend', Front')
  BY <1>2, <1>7 DEF DataInv
<1>9. WireInOrder' /\ WireUpTo'
  <2>1. Front' \in Int /\ Base' \in Int /\ wrOp'.n \in Nat /\ 0 <= Base' /\ Front <= Front'
        /\ Base' + wrOp'.n <= Base + wrOp.n
    BY <1>3, <1>5, <1>7
  <2>2. ~Carries(sock', wire') BY <1>2 DEF Carries
  <2> QED BY <1>2, <2>1, <2>2, WireKeep
<1> QED BY <1>4, <1>6, <1>8, <1>9 DEF DataInv

(***************************************************************************)
(* The byte that async_write moves is the next of this connection, and     *)
(* none is left out before it.                                             *)
(***************************************************************************)
LEMMA TransferNext ==
  ASSUME TypeInv, DataInv, Transfer
  PROVE  LET byte == Base + wrOp.n + 1 IN
         /\ wire' = Append(wire, byte)
         /\ sent' = IF byte = sent + 1 THEN byte ELSE sent
         /\ byte \in 1..Front /\ byte <= sent + 1 /\ Front <= accepted
         /\ wire # << >> => byte = wire[Len(wire)] + 1
<1> DEFINE b == m_bufferSend
           i == wrOp.n + 1
           byte == Base + wrOp.n + 1
<1>1. /\ sock = "open" /\ wrOp.st = "flight" /\ wrOp.n < wrOp.len
      /\ wire' = Append(wire, Memory(wrOp.base + wrOp.n + 1))
      /\ sent' = IF Memory(wrOp.base + wrOp.n + 1) = sent + 1
                 THEN Memory(wrOp.base + wrOp.n + 1) ELSE sent
  BY DEF Transfer
<1>2. /\ accepted \in Nat /\ Front \in Int /\ Front <= accepted
      /\ length(b) \in Nat /\ wrOp.n \in Nat /\ sent \in Nat
      /\ Base \in Int /\ Base = Front - length(b)
      /\ 0 <= Base /\ Base + wrOp.n <= sent
  BY DataFacts DEF DataInv, WireUpTo
<1>3. wrOp.base = 0 /\ wrOp.len = length(b) BY <1>1 DEF DataInv, WriteOwnsBuffer
<1>4. i \in 1..length(b) /\ wrOp.base + wrOp.n + 1 = i BY <1>1, <1>2, <1>3
<1>5. b.buf[i] = Front - length(b) + i BY <1>4 DEF DataInv, BufferUpTo
<1>6. b.buf[i] = byte BY <1>2, <1>5
<1>7. Memory(wrOp.base + wrOp.n + 1) = byte BY <1>4, <1>6 DEF Memory
<1>8. byte \in 1..Front /\ byte <= sent + 1 BY <1>1, <1>2, <1>3
<1>9. wire # << >> => byte = wire[Len(wire)] + 1
  BY <1>1, <1>2 DEF DataInv, WireUpTo, Carries
<1> HIDE DEF byte
<1>10. /\ wire' = Append(wire, byte)
       /\ sent' = IF byte = sent + 1 THEN byte ELSE sent
  BY <1>1, <1>7
<1> QED BY <1>2, <1>8, <1>9, <1>10 DEF byte

(* One byte more is on the wire. *)
LEMMA DataTransfer ==
  ASSUME TypeInv, DataInv, Transfer
  PROVE  DataInv'
<1> DEFINE byte == Base + wrOp.n + 1
           m == Len(wire)
<1>1. /\ sock = "open" /\ wrOp.st = "flight" /\ wrOp.n < wrOp.len
      /\ wrOp' = [wrOp EXCEPT !.n = wrOp.n + 1]
      /\ UNCHANGED <<m_isSend, m_sendList, m_bufferSend, pc, accepted, sock, ioQueue>>
  BY DEF Transfer, kernelUnchanged, connVars
<1>2. /\ Front \in Int /\ Base \in Int /\ wrOp.n \in Nat /\ wrOp.len \in Nat /\ m \in Nat
      /\ wire \in Seq(Nat) /\ sent \in Nat
      /\ wrOp \in [st : {"none", "flight", "done"}, base : Nat, len : Nat, n : Nat]
      /\ WireInOrder /\ 0 <= Base /\ sent <= Front
  BY DataFacts DEF DataInv, WireUpTo
<1>3. /\ wrOp'.st = "flight" /\ wrOp'.base = wrOp.base /\ wrOp'.len = wrOp.len
      /\ wrOp'.n = wrOp.n + 1
  BY <1>1, <1>2
<1>4. /\ wire' = Append(wire, byte)
      /\ sent' = IF byte = sent + 1 THEN byte ELSE sent
      /\ byte \in 1..Front /\ byte <= sent + 1
      /\ wire # << >> => byte = wire[m] + 1
  BY TransferNext
<1>5. Front' = Front /\ Base' = Base BY <1>1 DEF Front, Base
<1>6. byte = Base' + wrOp'.n BY <1>2, <1>3, <1>5
<1> HIDE DEF byte
<1>7. /\ Len(wire') = m + 1 /\ \A i \in 1..m : wire'[i] = wire[i]
      /\ wire'[m + 1] = byte
  <2>1. byte \in Nat BY <1>2, <1>4
  <2> QED BY <1>2, <1>4, <2>1, AppendProperties
<1>8. byte \in 1..sent' /\ sent' \in Nat /\ sent <= sent' /\ sent' <= Front
  BY <1>2, <1>4
<1>9. WireInOrder'
  <2>1. ASSUME NEW i \in 1..(Len(wire') - 1) PROVE wire'[i + 1] = wire'[i] + 1
    <3>1. i \in 1..m BY <1>2, <1>7
    <3>2. CASE i < m
      <4>1. i \in 1..(Len(wire) - 1) /\ i + 1 \in 1..m BY <1>2, <3>1, <3>2
      <4> QED BY <1>2, <1>7, <3>1, <4>1 DEF WireInOrder
    <3>3. CASE i = m
      <4>1. wire # << >> BY <1>2, <3>1
      <4> QED BY <1>4, <1>7, <3>1, <3>3, <4>1
    <3> QED BY <1>2, <3>1, <3>2, <3>3
  <2>2. ASSUME NEW i \in 1..Len(wire') PROVE wire'[i] \in 1..sent'
    <3>1. CASE i \in 1..m
      <4>1. wire'[i] = wire[i] /\ wire[i] \in 1..sent BY <1>2, <1>7, <3>1 DEF WireInOrder
      <4> QED BY <1>2, <1>8, <4>1
    <3>2. CASE i = m + 1 BY <1>7, <1>8, <3>2
    <3>3. i \in 1..m \/ i = m + 1 BY <1>2, <1>7
    <3> QED BY <3>1, <3>2, <3>3
  <2> QED BY <2>1, <2>2 DEF WireInOrder
<1>10. WireUpTo'
  <2>1. 0 <= Base' /\ Base' + wrOp'.n <= sent' /\ sent' <= Front'
    BY <1>2, <1>5, <1>6, <1>8
  <2>2. wire'[Len(wire')] = Base' + wrOp'.n BY <1>6, <1>7
  <2> QED BY <2>1, <2>2 DEF WireUpTo
<1>11. wrOp'.n <= wrOp'.len BY <1>1, <1>2, <1>3
<1>12. WriteOwnsBuffer' BY <1>1, <1>3, <1>11 DEF DataInv, WriteOwnsBuffer
<1>13. WriteQueued(ioQueue', wrOp', sock', wire')
  <2>1. NoWriteIn(ioQueue) BY <1>1, QueueFrame DEF DataInv
  <2> QED BY <1>1, <2>1, QueueFrame
<1>14. ListInOrder(m_sendList', accepted') /\ BufferUpTo(m_bufferSend', Front')
  BY <1>1, <1>5 DEF DataInv
<1> QED BY <1>9, <1>10, <1>12, <1>13, <1>14 DEF DataInv

(* The write completes and handleWrite is queued, the only one of its kind. *)
LEMMA DataWriteOver ==
  ASSUME TypeInv, ControlInv, DataInv, WriteDone \/ WriteFail
  PROVE  DataInv'
<1>1. ioQueue \in Seq(RunHandler) BY DEF ControlInv, HandlerInv
<1>2. /\ wrOp.st = "flight" /\ wrOp' = [wrOp EXCEPT !.st = "done"]
      /\ UNCHANGED <<m_isSend, m_sendList, m_bufferSend, pc, accepted, sock, wire, sent>>
      /\ \/ wrOp.n = wrOp.len
            /\ ioQueue' = Append(ioQueue, Handler("handleWrite", FALSE, wrOp.len))
         \/ sock # "open"
            /\ ioQueue' = Append(ioQueue, Handler("handleWrite", TRUE, wrOp.n))
  BY DEF WriteDone, WriteFail, Unconnected, kernelUnchanged, connVars, mainVars
<1>3. /\ wrOp \in [st : {"none", "flight", "done"}, base : Nat, len : Nat, n : Nat]
      /\ wrOp.n \in Nat /\ wrOp.len \in Nat /\ Front \in Int /\ Base \in Int /\ 0 <= Base
  BY DataFacts DEF DataInv, WireUpTo
<1>4. /\ wrOp'.st = "done" /\ wrOp'.base = wrOp.base /\ wrOp'.len = wrOp.len
      /\ wrOp'.n = wrOp.n
  BY <1>2, <1>3
<1>5. NoWriteIn(ioQueue) BY <1>2, QueueFrame DEF DataInv
<1>6. WriteQueued(ioQueue', wrOp', sock', wire')
  <2> DEFINE x == Handler("handleWrite", FALSE, wrOp.len)
             z == Handler("handleWrite", TRUE, wrOp.n)
  <2>1. /\ x \in RunHandler /\ z \in RunHandler
        /\ x.er = FALSE /\ z.er = TRUE /\ x.size = wrOp.len
    <3>1. "handleWrite" \in RawHandlers \cup {"handlAccept", "handleClose"} BY DEF RawHandlers
    <3>2. x \in RunHandler /\ x.er = FALSE /\ x.size = wrOp.len
      <4>1. wrOp.len \in Nat /\ FALSE \in BOOLEAN BY <1>3
      <4> QED BY <4>1 DEF Handler, RunHandler, RawHandlers
    <3>3. z \in RunHandler /\ z.er = TRUE BY <1>3, <3>1, RunHandlers
    <3> QED BY <3>2, <3>3
  <2> HIDE DEF x, z, RunHandler
  <2>2. CASE wrOp.n = wrOp.len /\ ioQueue' = Append(ioQueue, x)
    BY <1>1, <1>4, <1>5, <2>1, <2>2, QueueAppend
  <2>3. CASE sock # "open" /\ ioQueue' = Append(ioQueue, z)
    <3>1. ~Carries(sock', wire') BY <1>2, <2>3 DEF Carries
    <3> QED BY <1>1, <1>4, <1>5, <2>1, <2>3, <3>1, QueueAppend
  <2> QED BY <1>2, <2>2, <2>3 DEF x, z
<1>7. WriteOwnsBuffer' BY <1>2, <1>4 DEF DataInv, WriteOwnsBuffer
<1>8. Front' = Front /\ Base' = Base BY <1>2 DEF Front, Base
<1>9. ListInOrder(m_sendList', accepted') /\ BufferUpTo(m_bufferSend', Front')
  BY <1>2, <1>8 DEF DataInv
<1>10. WireInOrder' /\ WireUpTo'
  <2>1. Front' \in Int /\ Base' \in Int /\ wrOp'.n \in Nat /\ 0 <= Base' /\ Front <= Front'
        /\ Base' + wrOp'.n <= Base + wrOp.n /\ Base' + wrOp'.n = Base + wrOp.n
    BY <1>3, <1>4, <1>8
  <2> QED BY <1>2, <2>1, WireKeep
<1> QED BY <1>6, <1>7, <1>9, <1>10 DEF DataInv

(* send() numbers the bytes of a block from the last one accepted. *)
LEMMA DataSend ==
  ASSUME TypeInv, ControlInv, DataInv, Send
  PROVE  DataInv'
<1>1. PICK len \in BlockLens :
        /\ m_sendList' = Append(m_sendList,
                           tailData(NewBuffer(len), [i \in 1..len |-> accepted + i]))
        /\ ioQueue' = Append(ioQueue, Handler("writeMessage", FALSE, 0))
        /\ accepted' = accepted + len
        /\ UNCHANGED <<m_isSend, m_bufferSend, wrOp, wire, sent, sock, pc>>
  BY DEF Send, kernVars
<1>2. len \in Nat \ {0} BY ConnectionAssumption
<1>3. accepted \in Nat /\ Front \in Int /\ Base \in Int /\ 0 <= Base /\ wrOp.n \in Nat
  BY DataFacts DEF DataInv, WireUpTo
<1> DEFINE blk == tailData(NewBuffer(len), [i \in 1..len |-> accepted + i])
<1>4. /\ blk \in Buffer(Nat) /\ InBounds(blk) /\ blk.readPos = 0 /\ length(blk) = len
      /\ \A i \in 1..len : blk.buf[i] = accepted + i
  BY <1>2, <1>3, BlockLemma
<1> HIDE DEF blk
<1>5. m_sendList' = Append(m_sendList, blk) BY <1>1 DEF blk
<1>6. /\ ListInOrder(m_sendList', accepted')
      /\ FrontOf(m_sendList', accepted') = FrontOf(m_sendList, accepted)
  <2>1. ListInOrder(m_sendList, accepted) BY DEF DataInv
  <2>2. /\ ListInOrder(Append(m_sendList, blk), accepted + len)
        /\ FrontOf(Append(m_sendList, blk), accepted + len) = FrontOf(m_sendList, accepted)
    BY <1>2, <1>3, <1>4, <2>1, ListAppend
  <2>3. accepted' = accepted + len BY <1>1
  <2> QED BY <1>5, <2>2, <2>3, Zenon
<1>7. Front' = Front BY <1>6 DEF Front
<1>8. Base' = Base BY <1>1, <1>7 DEF Base
<1>9. BufferUpTo(m_bufferSend', Front') BY <1>1, <1>7 DEF DataInv
<1>10. WriteOwnsBuffer' BY <1>1 DEF DataInv, WriteOwnsBuffer
<1>11. WriteQueued(ioQueue', wrOp', sock', wire')
  <2>1. ioQueue \in Seq(RunHandler) BY DEF ControlInv, HandlerInv
  <2>2. Handler("writeMessage", FALSE, 0) \in RunHandler
        /\ Handler("writeMessage", FALSE, 0).h # "handleWrite"
    BY RunHandlers
  <2> HIDE DEF RunHandler
  <2> QED BY <1>1, <2>1, <2>2, QueueAppend DEF DataInv
<1>12. WireInOrder' /\ WireUpTo'
  <2>1. Front' \in Int /\ Base' \in Int /\ wrOp'.n \in Nat /\ 0 <= Base' /\ Front <= Front'
        /\ Base' + wrOp'.n <= Base + wrOp.n /\ Base' + wrOp'.n = Base + wrOp.n
    BY <1>1, <1>3, <1>7, <1>8
  <2> QED BY <1>1, <2>1, WireKeep
<1> QED BY <1>6, <1>9, <1>10, <1>11, <1>12 DEF DataInv

(* The steps that only accept, connect, read, close or poll. *)
QuietIo == HandlAccept \/ HandleConnect \/ HandleReadSome \/ HandleClose \/ UseAfterFree

QuietKernel ==
  \/ Accepted \/ AcceptFails \/ ConnectDone \/ ConnectFail
  \/ ReadDone \/ PeerEof \/ PeerReset \/ ReadFail

QuietCalls == AcceptSocket \/ BeginAccept \/ CloseCurrent \/ Start \/ Poll \/ Kick

(* Such a step queues no handleWrite. *)
LEMMA QuietQueue ==
  ASSUME TypeInv, ControlInv, QuietIo \/ QuietKernel \/ QuietCalls,
         NEW w, NEW s, NEW v, WriteQueued(ioQueue, w, s, v)
  PROVE  WriteQueued(ioQueue', w, s, v)
<1> DEFINE Other == {x \in RunHandler : x.h # "handleWrite"}
<1>1. ioQueue \in Seq(RunHandler) /\ rdOps \in Nat
  BY DEF ControlInv, HandlerInv, TypeInv, TypeOK
<1>2. \A h \in {"handleReadSome", "handleConnect", "handlAccept", "handleClose"},
        er \in BOOLEAN, size \in Nat : Handler(h, er, size) \in Other
  <2> SUFFICES ASSUME NEW h \in {"handleReadSome", "handleConnect", "handlAccept", "handleClose"},
                      NEW er \in BOOLEAN, NEW size \in Nat
               PROVE  Handler(h, er, size) \in Other
    OBVIOUS
  <2>1. h \in RawHandlers \cup {"handlAccept", "handleClose"} BY DEF RawHandlers
  <2>2. Handler(h, er, size) \in RunHandler /\ Handler(h, er, size).h = h
    BY <2>1, RunHandlers
  <2> HIDE DEF RunHandler
  <2> QED BY <2>2
<1> HIDE DEF RunHandler
<1>3. ASSUME \/ ioQueue' = ioQueue
             \/ ioQueue # << >> /\ ioQueue' = Tail(ioQueue)
             \/ \E x \in Other : \/ ioQueue' = Append(ioQueue, x)
                                 \/ ioQueue # << >> /\ ioQueue' = Append(Tail(ioQueue), x)
      PROVE  WriteQueued(ioQueue', w, s, v)
  <2>1. CASE ioQueue' = ioQueue BY <2>1
  <2>2. CASE ioQueue # << >> /\ ioQueue' = Tail(ioQueue) BY <1>1, <2>2, QueueTail
  <2>3. ASSUME NEW x \in Other, ioQueue' = Append(ioQueue, x)
        PROVE  WriteQueued(ioQueue', w, s, v)
    BY <1>1, <2>3, QueueAppend
  <2>4. ASSUME NEW x \in Other, ioQueue # << >>, ioQueue' = Append(Tail(ioQueue), x)
        PROVE  WriteQueued(ioQueue', w, s, v)
    <3>1. Tail(ioQueue) \in Seq(RunHandler) /\ WriteQueued(Tail(ioQueue), w, s, v)
      BY <1>1, <2>4, QueueTail
    <3> QED BY <2>4, <3>1, QueueAppend
  <2> QED BY <1>3, <2>1, <2>2, <2>3, <2>4
<1> HIDE DEF Other
<1>4. ASSUME ioQueue # << >>, beginRead(Tail(ioQueue)) PROVE WriteQueued(ioQueue', w, s, v)
  <2> DEFINE x == Handler("handleReadSome", TRUE, 0)
  <2>1. x \in Other BY <1>2
  <2>2. ioQueue' = Tail(ioQueue) \/ ioQueue' = Append(Tail(ioQueue), x)
    BY <1>1, <1>4, BeginReadFacts
  <2> HIDE DEF x
  <2> QED BY <1>3, <1>4, <2>1, <2>2
<1>5. ASSUME connect PROVE WriteQueued(ioQueue', w, s, v)
  <2> DEFINE x == Handler("handleConnect", TRUE, 0)
  <2>1. x \in Other BY <1>2
  <2>2. ioQueue' = ioQueue \/ ioQueue' = Append(ioQueue, x) BY <1>5 DEF connect
  <2> HIDE DEF x
  <2> QED BY <1>3, <2>1, <2>2
<1>6. CASE HandlAccept \/ HandleConnect
  <2>1. /\ ioQueue # << >>
        /\ ioQueue' = Tail(ioQueue) \/ beginRead(Tail(ioQueue))
    BY <1>6 DEF HandlAccept, HandleConnect, Run
  <2> QED BY <1>3, <1>4, <2>1
<1>7. CASE HandleReadSome \/ HandleClose
  <2>1. PICK er \in BOOLEAN :
          /\ ioQueue # << >>
          /\ \/ ioQueue' = Tail(ioQueue)
             \/ ioQueue' = Append(Tail(ioQueue), Handler("handleClose", er, 0))
             \/ beginRead(Tail(ioQueue))
    BY <1>7 DEF HandleReadSome, HandleClose, Run, close
  <2> DEFINE x == Handler("handleClose", er, 0)
  <2>2. x \in Other BY <1>2
  <2>3. \/ ioQueue' = Tail(ioQueue) \/ ioQueue' = Append(Tail(ioQueue), x)
        \/ beginRead(Tail(ioQueue))
    BY <2>1
  <2> HIDE DEF x
  <2> QED BY <1>3, <1>4, <2>1, <2>2, <2>3
<1>8. CASE UseAfterFree \/ Accepted \/ AcceptFails \/ PeerReset \/ BeginAccept
  <2>1. ioQueue' = ioQueue
    BY <1>8 DEF UseAfterFree, Accepted, AcceptFails, PeerReset, BeginAccept
  <2> QED BY <1>3, <2>1
<1>9. CASE ConnectDone \/ ConnectFail \/ ReadDone \/ PeerEof \/ ReadFail \/ CloseCurrent
             \/ Kick \/ AcceptSocket
  <2>1. \/ ioQueue' = ioQueue
        \/ ioQueue' = Append(ioQueue, Handler("handleConnect", FALSE, 0))
        \/ ioQueue' = Append(ioQueue, Handler("handleConnect", TRUE, 0))
        \/ ioQueue' = Append(ioQueue, Handler("handleReadSome", FALSE, 1))
        \/ ioQueue' = Append(ioQueue, Handler("handleReadSome", TRUE, 0))
        \/ ioQueue' = Append(ioQueue, Handler("handlAccept", FALSE, 0))
        \/ ioQueue' = Append(ioQueue, Handler("handleClose", TRUE, 0))
        \/ ioQueue' = Append(ioQueue, Handler("handleClose", FALSE, 0))
    BY <1>9 DEF ConnectDone, ConnectFail, ReadDone, PeerEof, ReadFail, CloseCurrent, Kick,
                AcceptSocket, close
  <2>2. /\ Handler("handleConnect", FALSE, 0) \in Other
        /\ Handler("handleConnect", TRUE, 0) \in Other
        /\ Handler("handleReadSome", FALSE, 1) \in Other
        /\ Handler("handleReadSome", TRUE, 0) \in Other
        /\ Handler("handlAccept", FALSE, 0) \in Other
        /\ Handler("handleClose", TRUE, 0) \in Other
        /\ Handler("handleClose", FALSE, 0) \in Other
    BY <1>2
  <2>3. ioQueue' = ioQueue \/ \E x \in Other : ioQueue' = Append(ioQueue, x)
    BY <2>1, <2>2, Zenon
  <2> QED BY <1>3, <2>3
<1>10. CASE Start \/ Poll
  <2>1. connect \/ ioQueue' = ioQueue BY <1>10 DEF Start, Poll
  <2> QED BY <1>3, <1>5, <2>1
<1> QED BY <1>6, <1>7, <1>8, <1>9, <1>10 DEF QuietIo, QuietKernel, QuietCalls

(* They move no byte. *)
LEMMA DataQuiet ==
  ASSUME TypeInv, ControlInv, DataInv, QuietIo \/ QuietKernel \/ QuietCalls
  PROVE  DataInv'
<1> USE DEF kernelUnchanged, acceptUnchanged, connVars, kernVars, mainVars
<1>1. WriteQueued(ioQueue', wrOp, sock, wire) BY QuietQueue DEF DataInv
<1>2. CASE QuietIo
  <2>1. /\ UNCHANGED <<m_isSend, m_sendList, m_bufferSend, wrOp, accepted, sent, wire, sock>>
        /\ pc' \in {pc, "close"}
    BY <1>2 DEF QuietIo, HandlAccept, HandleConnect, HandleReadSome, HandleClose, UseAfterFree
  <2> QED BY <1>1, <2>1, DataKeep
<1>3. CASE QuietKernel
  <2>1. /\ UNCHANGED <<m_isSend, m_sendList, m_bufferSend, wrOp, accepted, sent, pc>>
        /\ \/ wire' = wire /\ (sock' = "open" => sock = "open")
           \/ wire' = << >>
    BY <1>3 DEF QuietKernel, Accepted, AcceptFails, ConnectDone, ConnectFail, ReadDone,
                PeerEof, PeerReset, ReadFail
  <2> QED BY <1>1, <2>1, DataKeep
<1>4. CASE QuietCalls
  <2>1. /\ UNCHANGED <<m_isSend, m_sendList, m_bufferSend, wrOp, accepted, sent, pc, wire>>
        /\ sock' = "open" => sock = "open"
    BY <1>4 DEF QuietCalls, AcceptSocket, BeginAccept, CloseCurrent, Start, Poll, Kick, connect
  <2> QED BY <1>1, <2>1, DataKeep
<1> QED BY <1>2, <1>3, <1>4

(* At the start there are no bytes. *)
LEMMA DataInit == Init => DataInv
<1> SUFFICES ASSUME Init PROVE DataInv OBVIOUS
<1>1. /\ m_sendList = << >> /\ wire = << >> /\ ioQueue = << >> /\ accepted = 0 /\ sent = 0
      /\ wrOp = NoWrite /\ m_isSend = FALSE
  BY DEF Init
<1>2. length(m_bufferSend) = 0 BY ConnectionAssumption, NewBufferLemma DEF Init
<1>3. /\ Len(m_sendList) = 0 /\ m_sendList \in Seq(Buffer(Nat)) /\ Len(wire) = 0
      /\ Len(ioQueue) = 0
  BY <1>1, EmptySeq
<1>4. ListInOrder(m_sendList, accepted) BY <1>1, <1>3 DEF ListInOrder
<1>5. Front = 0 /\ Base = 0 BY <1>1, <1>2 DEF Front, FrontOf, Base
<1>6. BufferUpTo(m_bufferSend, Front) BY <1>2 DEF BufferUpTo
<1>7. WriteOwnsBuffer BY <1>1 DEF WriteOwnsBuffer, NoWrite
<1>8. WriteQueued(ioQueue, wrOp, sock, wire) BY <1>3 DEF WriteQueued
<1>9. WireInOrder BY <1>3 DEF WireInOrder
<1>10. WireUpTo
  <2>1. wrOp.n = 0 BY <1>1 DEF NoWrite
  <2> QED BY <1>1, <1>5, <2>1 DEF WireUpTo, Carries
<1> QED BY <1>4, <1>6, <1>7, <1>8, <1>9, <1>10 DEF DataInv

(* Every action keeps DataInv. *)
LEMMA DataStep == TypeInv /\ ControlInv /\ DataInv /\ [Next]_vars => DataInv'
<1> SUFFICES ASSUME TypeInv, ControlInv, DataInv, [Next]_vars PROVE DataInv' OBVIOUS
<1>1. CASE UNCHANGED vars
  <2>1. UNCHANGED <<m_isSend, m_sendList, m_bufferSend, wrOp, accepted, wire, sent, pc, sock,
                    ioQueue>>
    BY <1>1 DEF vars, connVars, kernVars, mainVars
  <2> QED BY <2>1, DataKeep DEF DataInv
<1>2. CASE Next
  BY <1>2, DataQuiet, DataWriteMessage, DataFill, DataStartWrite, DataHandleWrite, DataClose,
     DataTransfer, DataWriteOver, DataSend
  DEF Next, Io, Kernel, Accepting, Main, QuietIo, QuietKernel, QuietCalls
<1> QED BY <1>1, <1>2

(* The bytes are where DataInv says in every state. *)
LEMMA DataInvariant == Spec => []DataInv
BY TypeInvariant, ControlInvariant, DataInit, DataStep, PTL DEF Spec

(***************************************************************************)
(* The bytes leave in the order of the send() calls and none is skipped,   *)
(* whatever the sizes of the send buffer and of the blocks and however     *)
(* often the connection is closed and made again: the m_isSend flag,       *)
(* clearReadBuffer and the partial readBuffer of a block larger than the   *)
(* buffer together keep what async_write reads in place.                   *)
(***************************************************************************)
THEOREM ConnectionWireInOrder == Spec => []WireInOrder
<1>1. DataInv => WireInOrder BY DEF DataInv
<1> QED BY <1>1, DataInvariant, PTL

(* With nothing left to send, all that was accepted has left. *)
LEMMA NothingUnsent ==
  ASSUME TypeInv, DataInv, ~Unsent
  PROVE  sent = accepted
<1> DEFINE n == length(m_bufferSend)
<1>1. ~m_isSend /\ m_sendList = << >> /\ ~hasRead(m_bufferSend) BY DEF Unsent
<1>2. /\ n \in Nat /\ needReadLength(m_bufferSend) = n /\ accepted \in Nat /\ sent \in Nat
      /\ Base = Front - n /\ wrOp.n \in Nat
  BY DataFacts
<1>3. n = 0 BY <1>1, <1>2 DEF hasRead
<1>4. Front = accepted BY <1>1 DEF Front, FrontOf
<1>5. Base + wrOp.n <= sent /\ sent <= Front BY DEF DataInv, WireUpTo
<1> QED BY <1>2, <1>3, <1>4, <1>5

(* handleClose goes ahead with the close only on an error, or with nothing unsent. *)
LEMMA CloseGoesAhead ==
  ASSUME Next, pc = "idle", pc' = "close"
  PROVE  HandleClose /\ (Head(ioQueue).er \/ ~Unsent)
BY DEF Next, Io, Kernel, Accepting, Main, HandlAccept, HandleConnect, HandleReadSome,
       WriteMessage, EnterWriteMessage, FillSendBuffer, StartWrite, HandleWrite, HandleClose,
       CloseSocket, UseAfterFree, Accepted, AcceptFails, ConnectDone, ConnectFail, Transfer,
       WriteDone, WriteFail, ReadDone, PeerEof, PeerReset, ReadFail, AcceptSocket,
       BeginAccept, CloseCurrent, Start, Poll, Send, Kick, kernelUnchanged, acceptUnchanged

(***************************************************************************)
(* "send all data  then close": a close without error that goes ahead      *)
(* finds that every accepted byte has left, however the posts of the       *)
(* close, the writes and the send() calls interleave.                      *)
(***************************************************************************)
THEOREM ConnectionFlushBeforeClose == Spec => FlushBeforeClose
<1>1. ASSUME TypeInv, DataInv, [Next]_vars,
             pc = "idle", pc' = "close", ~Head(ioQueue).er
      PROVE  sent = accepted
  <2>1. Next BY <1>1 DEF vars
  <2>2. ~Unsent BY <1>1, <2>1, CloseGoesAhead
  <2> QED BY <1>1, <2>2, NothingUnsent
<1>2. TypeInv /\ DataInv /\ [Next]_vars
        => [pc = "idle" /\ pc' = "close" /\ ~Head(ioQueue).er => sent = accepted]_vars
  BY <1>1
<1> QED BY <1>2, TypeInvariant, DataInvariant, PTL DEF Spec, FlushBeforeClose
-----------------------------------------------------------------------------
(* Layer 4, the refinement: each step is a step of ByteStream, or none. *)

(* A handler that carries an error on to handleClose; a read's only counts *)
(* while m_connect is c = TRUE.                                            *)
IsError(x, c) ==
  x.er /\ (x.h \in {"handleWrite", "handleClose"} \/ (x.h = "handleReadSome" /\ c))

ErrorIn(q, c) == \E i \in 1..Len(q) : IsError(q[i], c)

(* A handler is queued: failures stay queued. *)
LEMMA ErrorAppend ==
  ASSUME NEW q \in Seq(RunHandler), NEW x \in RunHandler, NEW c
  PROVE  ErrorIn(Append(q, x), c) <=> ErrorIn(q, c) \/ IsError(x, c)
<1> HIDE DEF RunHandler
<1> DEFINE a == Append(q, x)
           n == Len(q)
<1>1. /\ n \in Nat /\ Len(a) = n + 1
      /\ \A i \in 1..n : a[i] = q[i]
      /\ a[n + 1] = x
  BY AppendFacts
<1>2. \A i \in 1..Len(a) : i \in 1..n \/ i = n + 1 BY <1>1
<1>3. n + 1 \in 1..Len(a) /\ \A i \in 1..n : i \in 1..Len(a) BY <1>1
<1> HIDE DEF a, n
<1> QED BY <1>1, <1>2, <1>3 DEF ErrorIn, a, n

(* A handler is run: the other failures stay queued. *)
LEMMA ErrorTail ==
  ASSUME NEW q \in Seq(RunHandler), q # << >>, NEW c
  PROVE  /\ Tail(q) \in Seq(RunHandler)
         /\ ErrorIn(q, c) <=> IsError(Head(q), c) \/ ErrorIn(Tail(q), c)
<1> HIDE DEF RunHandler
<1> DEFINE t == Tail(q)
           n == Len(q)
<1>1. /\ n \in Nat \ {0} /\ t \in Seq(RunHandler) /\ Len(t) = n - 1
      /\ \A i \in 1..Len(t) : t[i] = q[i + 1]
      /\ Head(q) = q[1]
  BY HeadTailProperties, EmptySeq
<1>2. 1 \in 1..n /\ \A i \in 1..Len(t) : i + 1 \in 1..n BY <1>1
<1>3. \A i \in 1..n : i = 1 \/ (i - 1 \in 1..Len(t) /\ (i - 1) + 1 = i) BY <1>1
<1> HIDE DEF t
<1>4. ErrorIn(q, c) => IsError(Head(q), c) \/ ErrorIn(t, c)
  <2> SUFFICES ASSUME NEW i \in 1..n, IsError(q[i], c), i # 1 PROVE ErrorIn(t, c)
    BY <1>1 DEF ErrorIn
  <2>1. i - 1 \in 1..Len(t) /\ (i - 1) + 1 = i BY <1>3
  <2>2. t[i - 1] = q[i] BY <1>1, <2>1
  <2> QED BY <2>1, <2>2 DEF ErrorIn
<1>5. IsError(Head(q), c) \/ ErrorIn(t, c) => ErrorIn(q, c) BY <1>1, <1>2 DEF ErrorIn
<1> QED BY <1>1, <1>4, <1>5 DEF t

(* A queued failure is an element of the queue. *)
LEMMA ErrorQueuedIn ==
  /\ ErrorQueued <=> ErrorIn(ioQueue, m_connect)
  /\ ErrorQueued' <=> ErrorIn(ioQueue', m_connect')
BY DEF ErrorQueued, ErrorIn, IsError

(* No step but the close itself forgets a failure. *)
ErrorKept ==
  \/ ioQueue' = ioQueue
  \/ \E x \in RunHandler : ioQueue' = Append(ioQueue, x)
  \/ /\ ioQueue # << >> /\ ~IsError(Head(ioQueue), m_connect)
     /\ \/ ioQueue' = Tail(ioQueue)
        \/ \E x \in RunHandler : ioQueue' = Append(Tail(ioQueue), x)
  \/ ioQueue # << >> /\ ioQueue' = close(Tail(ioQueue), TRUE)

LEMMA ErrorStays ==
  ASSUME ioQueue \in Seq(RunHandler), m_connect => m_connect', ErrorKept, ErrorQueued
  PROVE  ErrorQueued'
<1> HIDE DEF RunHandler
<1>1. \A q : ErrorIn(q, m_connect) => ErrorIn(q, m_connect') BY DEF ErrorIn, IsError
<1>2. ErrorIn(ioQueue, m_connect) BY ErrorQueuedIn
<1>3. SUFFICES ErrorIn(ioQueue', m_connect) BY <1>1, ErrorQueuedIn
<1>4. CASE ioQueue' = ioQueue BY <1>2, <1>4
<1>5. ASSUME NEW x \in RunHandler, ioQueue' = Append(ioQueue, x)
      PROVE  ErrorIn(ioQueue', m_connect)
  BY <1>2, <1>5, ErrorAppend
<1>6. CASE /\ ioQueue # << >> /\ ~IsError(Head(ioQueue), m_connect)
           /\ \/ ioQueue' = Tail(ioQueue)
              \/ \E x \in RunHandler : ioQueue' = Append(Tail(ioQueue), x)
  <2>1. Tail(ioQueue) \in Seq(RunHandler) /\ ErrorIn(Tail(ioQueue), m_connect)
    BY <1>2, <1>6, ErrorTail
  <2>2. ASSUME NEW x \in RunHandler, ioQueue' = Append(Tail(ioQueue), x)
        PROVE  ErrorIn(ioQueue', m_connect)
    BY <2>1, <2>2, ErrorAppend
  <2> QED BY <1>6, <2>1, <2>2
<1>7. CASE ioQueue # << >> /\ ioQueue' = close(Tail(ioQueue), TRUE)
  <2> DEFINE x == Handler("handleClose", TRUE, 0)
  <2>1. x \in RunHandler /\ x.h = "handleClose" /\ x.er = TRUE BY RunHandlers
  <2>2. ioQueue' = Append(Tail(ioQueue), x) BY <1>7 DEF close
  <2>3. IsError(x, m_connect) BY <2>1 DEF IsError
  <2>4. Tail(ioQueue) \in Seq(RunHandler) BY <1>7, ErrorTail
  <2> HIDE DEF x
  <2> QED BY <2>1, <2>2, <2>3, <2>4, ErrorAppend
<1> QED BY <1>4, <1>5, <1>6, <1>7 DEF ErrorKept

Live == {"open", "broken"}

(* What the mapping tells apart. *)
LEMMA StateCases ==
  /\ sock \notin Live => StreamState = "closed"
  /\ sock \in Live /\ pc = "close" => StreamState = "closing"
  /\ sock \in Live /\ pc # "close" /\ (sock = "broken" \/ ErrorQueued)
       => StreamState = "faulty"
  /\ sock \in Live /\ pc # "close" /\ sock # "broken" /\ ~ErrorQueued
       => StreamState = "open"
BY DEF StreamState, Live

(* The same in the state after a step. *)
LEMMA StateCasesNext ==
  /\ sock' \notin Live => StreamState' = "closed"
  /\ sock' \in Live /\ pc' = "close" => StreamState' = "closing"
  /\ sock' \in Live /\ pc' # "close" /\ (sock' = "broken" \/ ErrorQueued')
       => StreamState' = "faulty"
  /\ sock' \in Live /\ pc' # "close" /\ sock' # "broken" /\ ~ErrorQueued'
       => StreamState' = "open"
BY DEF StreamState, Live

(* A step that carries no byte, opens no connection and closes none is at   *)
(* most a fault of the stream.                                              *)
LEMMA StreamQuiet ==
  ASSUME UNCHANGED <<accepted, wire, sent>>, pc' = "close" <=> pc = "close",
         \/ sock \notin Live /\ sock' \notin Live
         \/ /\ sock \in Live /\ sock' \in Live
            /\ sock = "broken" => sock' = "broken"
            /\ ErrorQueued => ErrorQueued'
  PROVE  [Stream!Next]_(Stream!vars)
<1>1. CASE StreamState' = StreamState BY <1>1 DEF Stream!vars
<1>2. CASE StreamState = "open" /\ StreamState' = "faulty"
  <2>1. Stream!Fault BY <1>2 DEF Stream!Fault
  <2> QED BY <2>1 DEF Stream!Next
<1>3. CASE sock \notin Live /\ sock' \notin Live
  BY <1>1, <1>3, StateCases, StateCasesNext
<1>4. CASE /\ sock \in Live /\ sock' \in Live
           /\ sock = "broken" => sock' = "broken"
           /\ ErrorQueued => ErrorQueued'
  <2>1. StreamState' = StreamState \/ (StreamState = "open" /\ StreamState' = "faulty")
    BY <1>4, StateCases, StateCasesNext
  <2> QED BY <1>1, <1>2, <2>1
<1> QED BY <1>3, <1>4

(* The first half of handleClose, and the second. *)
LEMMA StreamClose ==
  ASSUME TypeInv, ControlInv, DataInv, HandleClose \/ CloseSocket
  PROVE  [Stream!Next]_(Stream!vars)
<1>1. ioQueue \in Seq(RunHandler) /\ sock \in {"new", "connecting", "failed", "closed"} \cup Live
  BY DEF ControlInv, HandlerInv, TypeInv, TypeOK, Live
<1>2. CASE HandleClose
  <2>1. /\ ioQueue # << >> /\ Head(ioQueue).h = "handleClose" /\ pc = "idle"
        /\ UNCHANGED <<accepted, wire, sent, sock, m_connect>>
    BY <1>2 DEF HandleClose, Run, connVars, kernVars, mainVars
  <2>2. /\ Tail(ioQueue) \in Seq(RunHandler)
        /\ IsError(Head(ioQueue), m_connect) => ErrorIn(ioQueue, m_connect)
    BY <1>1, <2>1, ErrorTail
  <2>3. IsError(Head(ioQueue), m_connect) <=> Head(ioQueue).er BY <2>1 DEF IsError
  <2>4. CASE ~Head(ioQueue).er /\ ioQueue' = close(Tail(ioQueue), FALSE) /\ pc' = pc
    <3>1. Handler("handleClose", FALSE, 0) \in RunHandler BY RunHandlers
    <3>2. \E x \in RunHandler : ioQueue' = Append(Tail(ioQueue), x)
      BY <2>4, <3>1 DEF close
    <3>3. ErrorKept BY <2>1, <2>3, <2>4, <3>2 DEF ErrorKept
    <3>4. ErrorQueued => ErrorQueued' BY <1>1, <2>1, <3>3, ErrorStays
    <3> QED BY <2>1, <2>4, <3>4, StreamQuiet
  <2>5. CASE (Head(ioQueue).er \/ ~Unsent) /\ pc' = "close"
    <3>1. CASE sock \notin Live
      <4>1. StreamState' = StreamState BY <2>1, <3>1, StateCases, StateCasesNext
      <4> QED BY <2>1, <4>1 DEF Stream!vars
    <3>2. CASE sock \in Live
      <4>1. StreamState' = "closing" BY <2>1, <2>5, <3>2, StateCasesNext
      <4>2. Head(ioQueue).er => ErrorQueued BY <2>2, <2>3, ErrorQueuedIn
      <4>3. StreamState = "faulty" \/ (StreamState = "open" /\ ~Unsent)
        BY <2>1, <2>5, <3>2, <4>2, StateCases
      <4>4. StreamState = "faulty" \/ (StreamState = "open" /\ sent = accepted)
        BY <4>3, NothingUnsent
      <4>5. Stream!BeginClose BY <2>1, <4>1, <4>4 DEF Stream!BeginClose
      <4> QED BY <4>5 DEF Stream!Next
    <3> QED BY <3>1, <3>2
  <2> QED BY <1>2, <2>4, <2>5 DEF HandleClose
<1>3. CASE CloseSocket
  <2>1. pc = "close" /\ sock' = "closed" /\ UNCHANGED <<accepted, wire, sent>>
    BY <1>3 DEF CloseSocket
  <2>2. StreamState' = "closed" /\ StreamState \in {"closing", "closed"}
    BY <2>1, StateCases, StateCasesNext DEF Live
  <2>3. CASE StreamState = "closed" BY <2>1, <2>2, <2>3 DEF Stream!vars
  <2>4. CASE StreamState = "closing"
    <3>1. Stream!Close BY <2>1, <2>2, <2>4 DEF Stream!Close
    <3> QED BY <3>1 DEF Stream!Next
  <2> QED BY <2>2, <2>3, <2>4
<1> QED BY <1>2, <1>3

(* A socket is opened only when the stream is closed. *)
LEMMA StreamOpen ==
  ASSUME TypeInv, ControlInv, Accepted \/ ConnectDone
  PROVE  [Stream!Next]_(Stream!vars)
<1>1. /\ sock' = "open" /\ wire' = << >> /\ UNCHANGED <<accepted, sent>>
      /\ accept = "wait" \/ sock = "connecting"
  BY DEF Accepted, ConnectDone, kernelUnchanged
<1>2. owner \in {"server", "client"} BY DEF TypeInv, TypeOK
<1>3. sock \notin Live BY <1>1, <1>2 DEF ControlInv, AcceptInv, Live
<1>4. StreamState = "closed" /\ StreamState' \in {"open", "faulty", "closing"}
  BY <1>1, <1>3, StateCases, StateCasesNext DEF Live
<1>5. Stream!Open BY <1>1, <1>4 DEF Stream!Open
<1> QED BY <1>5 DEF Stream!Next

(* A byte is carried. *)
LEMMA StreamTransfer ==
  ASSUME TypeInv, DataInv, Transfer
  PROVE  [Stream!Next]_(Stream!vars)
<1> DEFINE byte == Base + wrOp.n + 1
<1>1. /\ wire' = Append(wire, byte)
      /\ sent' = IF byte = sent + 1 THEN byte ELSE sent
      /\ byte \in 1..Front /\ byte <= sent + 1 /\ Front <= accepted
      /\ wire # << >> => byte = wire[Len(wire)] + 1
  BY TransferNext
<1>2. Front \in Int /\ accepted \in Nat BY DataFacts
<1> HIDE DEF byte
<1>3. byte \in 1..accepted BY <1>1, <1>2
<1>4. sock = "open" /\ UNCHANGED <<sock, ioQueue, m_connect, pc, accepted>>
  BY DEF Transfer, kernelUnchanged, connVars
<1>5. ErrorQueued' <=> ErrorQueued BY <1>4, ErrorQueuedIn
<1>6. StreamState' = StreamState /\ StreamState # "closed"
  BY <1>4, <1>5, StateCases, StateCasesNext DEF Live
<1>7. Stream!Carry(byte) BY <1>1, <1>3, <1>4, <1>6 DEF Stream!Carry
<1> QED BY <1>3, <1>7 DEF Stream!Next

(* send() accepts bytes, whatever becomes of the stream. *)
LEMMA StreamSend ==
  ASSUME TypeInv, ControlInv, Send
  PROVE  [Stream!Next]_(Stream!vars)
<1> DEFINE x == Handler("writeMessage", FALSE, 0)
<1>1. ioQueue \in Seq(RunHandler) /\ accepted \in Nat
  BY DEF ControlInv, HandlerInv, TypeInv, TypeOK
<1>2. PICK len \in BlockLens :
        /\ accepted' = accepted + len /\ ioQueue' = Append(ioQueue, x)
        /\ UNCHANGED <<sock, wire, sent, pc, m_connect>>
  BY DEF Send, kernVars
<1>3. accepted' \in Nat /\ accepted' > accepted BY <1>1, <1>2, ConnectionAssumption
<1>4. x \in RunHandler /\ ~x.er BY DEF Handler, RunHandler
<1> HIDE DEF x, RunHandler
<1>5. ~IsError(x, m_connect) BY <1>4 DEF IsError
<1>6. ErrorIn(ioQueue', m_connect) <=> ErrorIn(ioQueue, m_connect)
  BY <1>1, <1>2, <1>4, <1>5, ErrorAppend
<1>7. ErrorQueued' <=> ErrorQueued BY <1>2, <1>6, ErrorQueuedIn
<1>8. StreamState' = StreamState BY <1>2, <1>7, StateCases, StateCasesNext
<1>9. Stream!Accept BY <1>2, <1>3, <1>8 DEF Stream!Accept
<1> QED BY <1>9 DEF Stream!Next

(* What the handlers queue, and what the others do. *)
LEMMA SomeHandlers ==
  /\ Handler("handleReadSome", TRUE, 0) \in RunHandler
  /\ Handler("handleReadSome", FALSE, 1) \in RunHandler
  /\ Handler("handleConnect", TRUE, 0) \in RunHandler
  /\ Handler("handlAccept", FALSE, 0) \in RunHandler
  /\ Handler("handleClose", TRUE, 0) \in RunHandler
  /\ Handler("handleClose", FALSE, 0) \in RunHandler
BY DEF Handler, RunHandler, RawHandlers

(* handleWrite is told of an error or of the whole length. *)
LEMMA WriteHandlers ==
  ASSUME TypeInv
  PROVE  /\ Handler("handleWrite", TRUE, 0) \in RunHandler
         /\ Handler("handleWrite", TRUE, wrOp.n) \in RunHandler
         /\ Handler("handleWrite", FALSE, wrOp.len) \in RunHandler
<1>1. wrOp.n \in Nat /\ wrOp.len \in Nat BY DEF TypeInv, TypeOK
<1> QED BY <1>1 DEF Handler, RunHandler, RawHandlers

(* A handler that finds an error passes it on to handleClose. *)
LEMMA StreamHandlers ==
  ASSUME TypeInv, ControlInv,
         HandlAccept \/ HandleConnect \/ HandleReadSome \/ WriteMessage \/ FillSendBuffer
           \/ StartWrite \/ HandleWrite \/ UseAfterFree
  PROVE  [Stream!Next]_(Stream!vars)
<1>1. ioQueue \in Seq(RunHandler) /\ rdOps \in Nat
  BY DEF ControlInv, HandlerInv, TypeInv, TypeOK
<1>2. UNCHANGED <<accepted, wire, sent, sock>> /\ (pc' = "close" <=> pc = "close")
  <2> USE DEF Run, EnterWriteMessage, connVars, kernVars, mainVars
  <2>1. CASE HandlAccept \/ HandleConnect \/ HandleReadSome
    BY <2>1 DEF HandlAccept, HandleConnect, HandleReadSome
  <2>2. CASE WriteMessage \/ HandleWrite BY <2>2 DEF WriteMessage, HandleWrite
  <2>3. CASE FillSendBuffer \/ StartWrite \/ UseAfterFree
    BY <2>3 DEF FillSendBuffer, StartWrite, UseAfterFree
  <2> QED BY <2>1, <2>2, <2>3
<1>3. m_connect => m_connect'
  <2>1. m_connect' = TRUE \/ m_connect' = m_connect
    BY DEF HandlAccept, HandleConnect, HandleReadSome, WriteMessage, FillSendBuffer, StartWrite,
           HandleWrite, UseAfterFree, connVars
  <2> QED BY <2>1
<1> HIDE DEF RunHandler
<1>4. SUFFICES ErrorKept
  <2>1. ErrorQueued => ErrorQueued' BY <1>1, <1>3, <1>4, ErrorStays
  <2> QED BY <1>2, <2>1, StreamQuiet
<1>5. ASSUME ioQueue # << >>, ~IsError(Head(ioQueue), m_connect),
             ioQueue' = Tail(ioQueue) \/ beginRead(Tail(ioQueue))
      PROVE  ErrorKept
  <2>1. \/ ioQueue' = Tail(ioQueue)
        \/ ioQueue' = Append(Tail(ioQueue), Handler("handleReadSome", TRUE, 0))
    BY <1>1, <1>5, BeginReadFacts
  <2>2. \/ ioQueue' = Tail(ioQueue) \/ \E x \in RunHandler : ioQueue' = Append(Tail(ioQueue), x)
    BY <2>1, SomeHandlers
  <2> QED BY <1>5, <2>2 DEF ErrorKept
<1>6. CASE HandlAccept \/ HandleConnect
  <2>1. /\ ioQueue # << >> /\ Head(ioQueue).h \in {"handlAccept", "handleConnect"}
        /\ ioQueue' = Tail(ioQueue) \/ beginRead(Tail(ioQueue))
    BY <1>6 DEF HandlAccept, HandleConnect, Run
  <2>2. ~IsError(Head(ioQueue), m_connect) BY <2>1 DEF IsError
  <2> QED BY <1>5, <2>1, <2>2
<1>7. CASE HandleReadSome
  <2>1. ioQueue # << >> /\ Head(ioQueue).h = "handleReadSome" BY <1>7 DEF HandleReadSome, Run
  <2>2. CASE ~m_connect /\ ioQueue' = Tail(ioQueue)
    <3>1. ~IsError(Head(ioQueue), m_connect) BY <2>1, <2>2 DEF IsError
    <3> QED BY <1>5, <2>1, <2>2, <3>1
  <2>3. CASE ioQueue' = close(Tail(ioQueue), TRUE) BY <2>1, <2>3 DEF ErrorKept
  <2>4. CASE ~Head(ioQueue).er /\ beginRead(Tail(ioQueue))
    <3>1. ~IsError(Head(ioQueue), m_connect) BY <2>4 DEF IsError
    <3> QED BY <1>5, <2>1, <2>4, <3>1
  <2> QED BY <1>7, <2>2, <2>3, <2>4 DEF HandleReadSome
<1>8. CASE WriteMessage
  <2>1. ioQueue # << >> /\ Head(ioQueue).h = "writeMessage" /\ ioQueue' = Tail(ioQueue)
    BY <1>8 DEF WriteMessage, Run
  <2>2. ~IsError(Head(ioQueue), m_connect) BY <2>1 DEF IsError
  <2> QED BY <1>5, <2>1, <2>2
<1>9. CASE HandleWrite
  <2>1. ioQueue # << >> BY <1>9 DEF HandleWrite, Run
  <2>2. CASE ioQueue' = close(Tail(ioQueue), TRUE) BY <2>1, <2>2 DEF ErrorKept
  <2>3. CASE ~Head(ioQueue).er /\ ioQueue' = Tail(ioQueue)
    <3>1. ~IsError(Head(ioQueue), m_connect) BY <2>3 DEF IsError
    <3> QED BY <1>5, <2>1, <2>3, <3>1
  <2> QED BY <1>9, <2>2, <2>3 DEF HandleWrite
<1>10. CASE FillSendBuffer \/ StartWrite \/ UseAfterFree
  <2>1. ioQueue' = ioQueue \/ ioQueue' = Append(ioQueue, Handler("handleWrite", TRUE, 0))
    BY <1>10 DEF FillSendBuffer, StartWrite, UseAfterFree
  <2>2. ioQueue' = ioQueue \/ \E x \in RunHandler : ioQueue' = Append(ioQueue, x)
    BY <2>1, WriteHandlers
  <2> QED BY <2>2 DEF ErrorKept
<1> QED BY <1>6, <1>7, <1>8, <1>9, <1>10

(* The kernel, the peer and the callers only add to the queue. *)
LEMMA StreamOthers ==
  ASSUME TypeInv, ControlInv,
         \/ AcceptFails \/ ConnectFail \/ WriteDone \/ WriteFail \/ ReadDone \/ PeerEof
         \/ PeerReset \/ ReadFail
         \/ AcceptSocket \/ BeginAccept \/ CloseCurrent \/ Start \/ Poll \/ Kick
  PROVE  [Stream!Next]_(Stream!vars)
<1> USE DEF kernelUnchanged, acceptUnchanged, connVars, kernVars
<1>1. ioQueue \in Seq(RunHandler) BY DEF ControlInv, HandlerInv
<1>2. UNCHANGED <<accepted, wire, sent, pc, m_connect>>
  BY DEF AcceptFails, ConnectFail, WriteDone, WriteFail, ReadDone, PeerEof, PeerReset, ReadFail,
         AcceptSocket, BeginAccept, CloseCurrent, Start, Poll, Kick
<1>3. \/ sock' = sock
      \/ sock = "open" /\ sock' = "broken"
      \/ sock \notin Live /\ sock' \notin Live
  <2>1. CASE Start \/ Poll BY <2>1 DEF Start, Poll, connect, Live
  <2>2. CASE AcceptFails \/ ConnectFail \/ WriteDone \/ WriteFail \/ ReadDone \/ PeerEof
               \/ PeerReset \/ ReadFail
    BY <2>2 DEF AcceptFails, ConnectFail, WriteDone, WriteFail, ReadDone, PeerEof, PeerReset,
                ReadFail, Live
  <2>3. CASE AcceptSocket \/ BeginAccept \/ CloseCurrent \/ Kick
    BY <2>3 DEF AcceptSocket, BeginAccept, CloseCurrent, Kick
  <2> QED BY <2>1, <2>2, <2>3
<1>4. \/ ioQueue' = ioQueue
      \/ ioQueue' = Append(ioQueue, Handler("handleConnect", TRUE, 0))
      \/ ioQueue' = Append(ioQueue, Handler("handleReadSome", FALSE, 1))
      \/ ioQueue' = Append(ioQueue, Handler("handleReadSome", TRUE, 0))
      \/ ioQueue' = Append(ioQueue, Handler("handlAccept", FALSE, 0))
      \/ ioQueue' = Append(ioQueue, Handler("handleClose", TRUE, 0))
      \/ ioQueue' = Append(ioQueue, Handler("handleClose", FALSE, 0))
      \/ ioQueue' = Append(ioQueue, Handler("handleWrite", TRUE, wrOp.n))
      \/ ioQueue' = Append(ioQueue, Handler("handleWrite", FALSE, wrOp.len))
  <2>1. CASE Start \/ Poll BY <2>1 DEF Start, Poll, connect
  <2>2. CASE AcceptFails \/ ConnectFail \/ WriteDone \/ WriteFail \/ ReadDone \/ PeerEof
               \/ PeerReset \/ ReadFail
    BY <2>2 DEF AcceptFails, ConnectFail, WriteDone, WriteFail, ReadDone, PeerEof, PeerReset,
                ReadFail
  <2>3. CASE AcceptSocket \/ BeginAccept \/ CloseCurrent \/ Kick
    BY <2>3 DEF AcceptSocket, BeginAccept, CloseCurrent, Kick, close
  <2> QED BY <2>1, <2>2, <2>3
<1> HIDE DEF RunHandler
<1>5. ioQueue' = ioQueue \/ \E x \in RunHandler : ioQueue' = Append(ioQueue, x)
  BY <1>4, SomeHandlers, WriteHandlers, Zenon
<1>6. ErrorQueued => ErrorQueued'
  <2>1. ErrorKept BY <1>5 DEF ErrorKept
  <2> QED BY <1>1, <1>2, <2>1, ErrorStays
<1>7. sock \notin Live \/ sock \in Live OBVIOUS
<1> QED BY <1>2, <1>3, <1>6, <1>7, StreamQuiet DEF Live

(* Initial states map to initial states of ByteStream. *)
LEMMA StreamInit == Init => Stream!Init
<1> SUFFICES ASSUME Init PROVE Stream!Init OBVIOUS
<1>1. accepted = 0 /\ wire = << >> /\ sent = 0 /\ sock = "new" BY DEF Init
<1>2. StreamState = "closed" BY <1>1, StateCases DEF Live
<1> QED BY <1>1, <1>2 DEF Stream!Init

(* Every action is a step of ByteStream or a stutter. *)
LEMMA StreamStep ==
  TypeInv /\ ControlInv /\ DataInv /\ [Next]_vars => [Stream!Next]_(Stream!vars)
<1> SUFFICES ASSUME TypeInv, ControlInv, DataInv, [Next]_vars
             PROVE  [Stream!Next]_(Stream!vars)
  OBVIOUS
<1>1. CASE UNCHANGED vars
  <2>1. UNCHANGED <<accepted, wire, sent, sock, pc, ioQueue, m_connect>>
    BY <1>1 DEF vars, connVars, kernVars, mainVars
  <2>2. ErrorQueued' <=> ErrorQueued BY <2>1, ErrorQueuedIn
  <2> QED BY <2>1, <2>2, StreamQuiet
<1>2. CASE Io BY <1>2, StreamHandlers, StreamClose DEF Io
<1>3. CASE Kernel BY <1>3, StreamOpen, StreamTransfer, StreamOthers DEF Kernel
<1>4. CASE Accepting \/ Main BY <1>4, StreamSend, StreamOthers DEF Accepting, Main
<1> QED BY <1>1, <1>2, <1>3, <1>4 DEF Next

(***************************************************************************)
(* A Connection is a byte stream: with the mapping that reads the state of *)
(* the stream off the socket, the io thread and the queued errors, each of *)
(* its steps is a step of ByteStream, or none.                             *)
(***************************************************************************)
THEOREM ConnectionImplementsStream == Spec => ImplementsStream
BY TypeInvariant, ControlInvariant, DataInvariant, StreamInit, StreamStep, PTL
DEF Spec, ImplementsStream, Stream!Spec
=============================================================================
