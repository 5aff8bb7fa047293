--------------------------- MODULE MessagesProofs ---------------------------
(***************************************************************************)
(* Proofs about ConnectionRecv, for every header size, receive buffer that *)
(* holds a header, stream length and frame length; and, on top of them,    *)
(* about Messages: what one end pushes the other is given, for any session *)
(* id, number of messages and of calls of push(), header size, receive     *)
(* buffer and way of cutting the stream. The first part uses nothing of    *)
(* Messages but what it takes from ConnectionRecv.                         *)
(*                                                                         *)
(* The bytes are numbered, so "no byte is lost, repeated or moved" is that *)
(* the receive buffer, the body under construction and the blocks already  *)
(* delivered hold consecutive numbers; RecvInv says where each run starts. *)
(*                                                                         *)
(* What the sender writes is defined by recursion; RecursionLemma says     *)
(* that such a definition has a solution, and IntervalInduction what it    *)
(* computes.                                                               *)
(***************************************************************************)
EXTENDS Messages, CommonLemmas

-----------------------------------------------------------------------------
(***************************************************************************)
(* The receive path: proofs about ConnectionRecv                           *)
(***************************************************************************)

(* The buffer holds the bytes q + 1, q + 2, ... and none of them was read. *)
Holds(b, q) ==
  /\ InBounds(b)
  /\ b.readPos = 0
  /\ \A i \in 1..length(b) : b.buf[i] = q + i

BufferInv ==
  /\ m_bufferRecv.maxLen = RecvBufSize
  /\ length(m_bufferRecv) <= arrived /\ arrived <= StreamLen
  /\ Holds(m_bufferRecv, arrived - length(m_bufferRecv))

(* Before its header is read the block is as constructed, and the buffer    *)
(* starts with that header.                                                 *)
HeadInv ==
  m_waitMessage.state = "INIT" =>
    /\ m_waitMessage = NewBlock
    /\ arrived - length(m_bufferRecv) = NextHead - 1
    /\ pc = "read" => length(m_bufferRecv) < HeadLen

(* After that the body has the length the header says and holds the bytes   *)
(* that follow it; the buffer continues where the body ends.                *)
BodyInv ==
  m_waitMessage.state = "BODY" =>
    /\ NextHead \in 1..StreamLen
    /\ Len(m_waitMessage.m_head) = HeadLen
    /\ \A i \in 1..HeadLen : m_waitMessage.m_head[i] = NextHead + i - 1
    /\ m_waitMessage.alloc
    /\ ~m_waitMessage.data.lock
    /\ m_waitMessage.data.maxLen = frameLen[NextHead] - HeadLen
    /\ length(m_waitMessage.data) < m_waitMessage.data.maxLen
    /\ Holds(m_waitMessage.data, NextHead - 1 + HeadLen)
    /\ arrived - length(m_bufferRecv) = NextHead - 1 + HeadLen + length(m_waitMessage.data)
    /\ pc = "read" => length(m_bufferRecv) = 0

RecvInv ==
  /\ TypeOK
  /\ BufferInv
  /\ m_waitMessage.state # "DONE"
  /\ HeadInv
  /\ BodyInv
  /\ FramesIntact
  /\ \A k \in 1..Len(delivered) : delivered[k].m_head[1] \in 1..StreamLen
-----------------------------------------------------------------------------
(***************************************************************************)
(* recvBody (block.cpp:73): the bytes move from the front of the buffer to *)
(* the end of the body, and either the body is complete or the buffer is   *)
(* empty.                                                                  *)
(***************************************************************************)
LEMMA RecvBodyLemma ==
  ASSUME NEW m \in Block, NEW buf \in Buffer(Nat), NEW f, NEW data \in Buffer(Nat),
         NEW c \in Nat,
         m.state = "BODY",
         data = IF m.alloc THEN m.data ELSE NewBuffer(f[m.m_head[1]] - HeadLen),
         ~data.lock,
         Holds(data, c), Holds(buf, c + length(data))
  PROVE  LET w == recvBody([m |-> m, buf |-> buf], f) IN
         /\ w.m \in Block /\ w.buf \in Buffer(Nat)
         /\ w.m.m_head = m.m_head /\ w.m.alloc
         /\ Holds(w.m.data, c)
         /\ w.m.data.maxLen = data.maxLen
         /\ Holds(w.buf, c + length(w.m.data))
         /\ w.buf.maxLen = buf.maxLen
         /\ length(w.m.data) + length(w.buf) = length(data) + length(buf)
         /\ \/ w.m.state = "DONE" /\ length(w.m.data) = data.maxLen
            \/ w.m.state = "BODY" /\ length(w.m.data) < data.maxLen
               /\ length(w.buf) = 0 /\ ~w.m.data.lock
<1> DEFINE into == readBufferInto(buf, data)
           from == readBufferFrom(buf, data)
           len  == readBufferLen(buf, data)
           done == isFull(into)
           rest == clearReadBuffer(from)
           mm   == [m EXCEPT !.alloc = TRUE,
                             !.data  = IF done THEN setLock(into) ELSE into,
                             !.state = IF done THEN "DONE" ELSE "BODY"]
<1>1. recvBody([m |-> m, buf |-> buf], f) = [m |-> mm, buf |-> rest]
  BY DEF recvBody
<1>2. InBounds(buf) /\ InBounds(data) /\ buf.readPos = 0 /\ data.readPos = 0
  BY DEF Holds
<1>3. /\ length(buf) \in Nat /\ length(data) \in Nat /\ data.maxLen \in Nat
      /\ length(data) <= data.maxLen
  BY <1>2, LenProperties DEF length, Buffer, InBounds
<1>4. /\ len \in Nat
      /\ len <= needReadLength(buf)
      /\ len <= data.maxLen - length(data)
      /\ len = needReadLength(buf) \/ len = data.maxLen - length(data)
      /\ from \in Buffer(Nat) /\ InBounds(from)
      /\ from.buf = buf.buf /\ from.maxLen = buf.maxLen
      /\ from.readPos = len
      /\ into \in Buffer(Nat) /\ InBounds(into)
      /\ into.readPos = 0 /\ into.maxLen = data.maxLen /\ ~into.lock
      /\ length(into) = length(data) + len
      /\ \A i \in 1..length(data) : into.buf[i] = data.buf[i]
      /\ \A i \in 1..len : into.buf[length(data) + i] = buf.buf[i]
  <2> HIDE DEF into, from, len
  <2>1. \A i \in Nat : buf.readPos + i = i BY <1>2
  <2> QED BY <1>2, <2>1, ReadBufferLemma DEF into, from, len
<1>5. needReadLength(buf) = length(buf) BY <1>2, <1>3 DEF needReadLength
<1> HIDE DEF into, from, len
<1>6. /\ rest \in Buffer(Nat) /\ InBounds(rest)
      /\ rest.readPos = 0 /\ rest.maxLen = buf.maxLen
      /\ length(rest) = length(buf) - len
      /\ \A i \in 1..length(rest) : rest.buf[i] = buf.buf[len + i]
  <2>1. /\ rest \in Buffer(Nat) /\ InBounds(rest)
        /\ rest.readPos = 0 /\ rest.maxLen = from.maxLen
        /\ length(rest) = needReadLength(from)
        /\ \A i \in 1..length(rest) : rest.buf[i] = from.buf[from.readPos + i]
    BY <1>4, ClearReadBufferLemma
  <2>2. needReadLength(from) = length(buf) - len BY <1>4 DEF needReadLength, length
  <2> QED BY <2>1, <2>2, <1>4
<1> HIDE DEF rest
<1>7. Holds(into, c)
  <2> SUFFICES ASSUME NEW i \in 1..length(into) PROVE into.buf[i] = c + i
    BY <1>4 DEF Holds
  <2>1. CASE i <= length(data)
    BY <2>1, <1>3, <1>4 DEF Holds
  <2>2. CASE i > length(data)
    <3>1. PICK j \in 1..len : i = length(data) + j
      <4>1. i - length(data) \in 1..len /\ i = length(data) + (i - length(data))
        BY <2>2, <1>3, <1>4
      <4> QED BY <4>1
    <3>2. into.buf[i] = buf.buf[j] BY <3>1, <1>4
    <3>3. buf.buf[j] = c + length(data) + j BY <1>3, <1>4, <1>5 DEF Holds
    <3> QED BY <3>1, <3>2, <3>3, <1>3
  <2> QED BY <2>1, <2>2, <1>3, <1>4
<1>8. Holds(rest, c + length(into))
  <2> SUFFICES ASSUME NEW i \in 1..length(rest) PROVE rest.buf[i] = c + length(into) + i
    BY <1>6 DEF Holds
  <2>1. len + i \in 1..length(buf) BY <1>3, <1>4, <1>5, <1>6
  <2>2. rest.buf[i] = buf.buf[len + i] BY <1>6
  <2>3. buf.buf[len + i] = c + length(data) + (len + i) BY <2>1 DEF Holds
  <2> QED BY <2>2, <2>3, <1>3, <1>4
<1>9. length(into) + length(rest) = length(data) + length(buf)
  BY <1>3, <1>4, <1>6
<1>10. CASE done
  <2> DEFINE d == setLock(into)
  <2>1. d \in Buffer(Nat) BY <1>4 DEF setLock, Buffer
  <2>2. d.buf = into.buf /\ d.readPos = into.readPos /\ d.maxLen = into.maxLen
    BY <1>4 DEF setLock, Buffer
  <2>3. length(d) = length(into) BY <2>2 DEF length
  <2>4. Holds(d, c) BY <1>7, <2>2 DEF Holds, InBounds, length
  <2>5. length(into) = data.maxLen BY <1>3, <1>4, <1>10 DEF isFull
  <2>6. mm = [m EXCEPT !.alloc = TRUE, !.data = d, !.state = "DONE"] BY <1>10
  <2> HIDE DEF d, mm
  <2>7. mm \in Block /\ mm.m_head = m.m_head /\ mm.alloc /\ mm.data = d /\ mm.state = "DONE"
    BY <2>1, <2>6 DEF Block
  <2> QED BY <1>1, <1>4, <1>6, <1>8, <1>9, <2>2, <2>3, <2>4, <2>5, <2>7
<1>11. CASE ~done
  <2>1. mm = [m EXCEPT !.alloc = TRUE, !.data = into, !.state = "BODY"] BY <1>11
  <2> HIDE DEF mm
  <2>2. mm \in Block /\ mm.m_head = m.m_head /\ mm.alloc /\ mm.data = into
        /\ mm.state = "BODY"
    BY <2>1, <1>4 DEF Block
  <2>3. length(into) < data.maxLen BY <1>3, <1>4, <1>11 DEF isFull
  <2>4. length(rest) = 0 BY <2>3, <1>3, <1>4, <1>5, <1>6
  <2> QED BY <1>1, <1>4, <1>6, <1>7, <1>8, <1>9, <2>2, <2>3, <2>4
<1> QED BY <1>10, <1>11

(* The header of m is the one that starts at byte p. *)
HeadAt(m, p) ==
  /\ Len(m.m_head) = HeadLen
  /\ \A i \in 1..HeadLen : m.m_head[i] = p + i - 1

(***************************************************************************)
(* recv (block.cpp:45) on a buffer that starts q bytes into the stream,    *)
(* for the block whose header is at byte p: either the header is not       *)
(* complete and nothing happens, or the header is as sent and recvBody did *)
(* its work.                                                               *)
(***************************************************************************)
LEMMA RecvLemma ==
  ASSUME NEW m \in Block, NEW buf \in Buffer(Nat), NEW p \in Nat \ {0}, NEW q \in Nat,
         NEW f,
         HeadLen <= length(buf) \/ m.state = "BODY" => f[p] \in Nat /\ f[p] >= HeadLen,
         Holds(buf, q),
         \/ m = NewBlock /\ q = p - 1
         \/ /\ m.state = "BODY"
            /\ HeadAt(m, p)
            /\ m.alloc /\ ~m.data.lock
            /\ m.data.maxLen = f[p] - HeadLen
            /\ Holds(m.data, p - 1 + HeadLen)
            /\ q = p - 1 + HeadLen + length(m.data)
  PROVE  LET w == recv(m, buf, f) IN
         \/ /\ w.m = m /\ w.buf = buf
            /\ m = NewBlock /\ length(buf) < HeadLen
         \/ /\ m.state = "BODY" \/ HeadLen <= length(buf)
            /\ w.m \in Block /\ w.buf \in Buffer(Nat) /\ w.buf.maxLen = buf.maxLen
            /\ HeadAt(w.m, p)
            /\ w.m.alloc
            /\ w.m.data.maxLen = f[p] - HeadLen
            /\ Holds(w.m.data, p - 1 + HeadLen)
            /\ Holds(w.buf, p - 1 + HeadLen + length(w.m.data))
            /\ p - 1 + HeadLen + length(w.m.data) = q + length(buf) - length(w.buf)
            /\ \/ w.m.state = "DONE" /\ length(w.m.data) = f[p] - HeadLen
               \/ w.m.state = "BODY" /\ length(w.m.data) < f[p] - HeadLen
                  /\ length(w.buf) = 0 /\ ~w.m.data.lock
<1> USE HeadAssumption
<1> DEFINE c == p - 1 + HeadLen
<1>0. c \in Nat /\ HeadLen \in Nat OBVIOUS
<1>1. length(buf) \in Nat /\ InBounds(buf) /\ buf.readPos = 0 /\ buf.buf \in Seq(Nat)
  BY LenProperties DEF Buffer, length, Holds
<1>2. CASE m = NewBlock /\ q = p - 1
  <2>1. m.state = "INIT" /\ ~m.alloc /\ m.state # "BODY" BY <1>2 DEF NewBlock
  <2>2. canRead(buf, HeadLen) <=> HeadLen <= length(buf)
    BY <1>1 DEF canRead, needReadLength
  <2>3. CASE ~canRead(buf, HeadLen)
    <3>1. recv(m, buf, f) = [m |-> m, buf |-> buf] BY <2>1, <2>3 DEF recv, recvHead
    <3> QED BY <3>1, <2>2, <2>3, <1>1, <1>2
  <2>4. CASE canRead(buf, HeadLen)
    <3> DEFINE h    == peek(buf, HeadLen)
               m1   == [m EXCEPT !.m_head = h, !.state = "BODY"]
               buf1 == clearReadBuffer(readData(buf, HeadLen))
               data == NewBuffer(f[m1.m_head[1]] - HeadLen)
    <3>1. recv(m, buf, f) = recvBody([m |-> m1, buf |-> buf1], f)
      BY <2>1, <2>4 DEF recv, recvHead
    <3> HIDE DEF h, m1, buf1
    <3>2. h \in Seq(Nat) /\ Len(h) = HeadLen /\ \A i \in 1..HeadLen : h[i] = buf.buf[i]
      <4>1. /\ h \in Seq(Nat) /\ Len(h) = HeadLen
            /\ \A i \in 1..HeadLen : h[i] = buf.buf[buf.readPos + i]
        BY <1>0, <1>1, <2>4, PeekLemma DEF h
      <4>2. \A i \in 1..HeadLen : buf.readPos + i = i BY <1>1
      <4> QED BY <4>1, <4>2
    <3>3. \A i \in 1..HeadLen : h[i] = p + i - 1
      <4> SUFFICES ASSUME NEW i \in 1..HeadLen PROVE buf.buf[i] = p + i - 1
        BY <3>2
      <4>1. i \in 1..length(buf) BY <1>1, <2>2, <2>4
      <4> QED BY <4>1, <1>2 DEF Holds
    <3>4. h[1] = p BY <3>3
    <3>5. m1 \in Block /\ m1.state = "BODY" /\ m1.m_head = h /\ ~m1.alloc
      BY <2>1, <3>2 DEF Block, m1
    <3>7. /\ buf1 \in Buffer(Nat) /\ InBounds(buf1)
          /\ buf1.readPos = 0 /\ buf1.maxLen = buf.maxLen
          /\ length(buf1) = length(buf) - HeadLen
          /\ \A i \in 1..length(buf1) : buf1.buf[i] = buf.buf[HeadLen + i]
      <4>1. /\ buf1 \in Buffer(Nat) /\ InBounds(buf1)
            /\ buf1.readPos = 0 /\ buf1.maxLen = buf.maxLen
            /\ length(buf1) = needReadLength(buf) - HeadLen
            /\ \A i \in 1..length(buf1) : buf1.buf[i] = buf.buf[buf.readPos + HeadLen + i]
        BY <1>0, <1>1, <2>4, ConsumeLemma DEF buf1
      <4>2. needReadLength(buf) = length(buf) /\ buf.readPos + HeadLen = HeadLen
        BY <1>0, <1>1 DEF needReadLength
      <4> QED BY <4>1, <4>2
    <3>8. f[p] - HeadLen \in Nat /\ m1.m_head[1] = p BY <2>2, <2>4, <3>4, <3>5
    <3>9. /\ data \in Buffer(Nat) /\ InBounds(data) /\ length(data) = 0
          /\ data.readPos = 0 /\ data.maxLen = f[p] - HeadLen /\ ~data.lock
      BY <3>8, NewBufferLemma
    <3>10. data = IF m1.alloc THEN m1.data ELSE NewBuffer(f[m1.m_head[1]] - HeadLen)
      BY <3>5
    <3> HIDE DEF data
    <3>11. Holds(data, c) BY <3>9 DEF Holds
    <3>12. Holds(buf1, c + length(data))
      <4> SUFFICES ASSUME NEW i \in 1..length(buf1) PROVE buf1.buf[i] = c + i
        BY <3>7, <3>9, <1>0 DEF Holds
      <4>1. HeadLen + i \in 1..length(buf) BY <1>1, <3>7
      <4>2. buf.buf[HeadLen + i] = q + (HeadLen + i) BY <4>1 DEF Holds
      <4> QED BY <4>2, <3>7, <1>2
    <3> DEFINE w == recvBody([m |-> m1, buf |-> buf1], f)
    <3>13. /\ w.m \in Block /\ w.buf \in Buffer(Nat)
           /\ w.m.m_head = m1.m_head /\ w.m.alloc
           /\ Holds(w.m.data, c)
           /\ w.m.data.maxLen = data.maxLen
           /\ Holds(w.buf, c + length(w.m.data))
           /\ w.buf.maxLen = buf1.maxLen
           /\ length(w.m.data) + length(w.buf) = length(data) + length(buf1)
           /\ \/ w.m.state = "DONE" /\ length(w.m.data) = data.maxLen
              \/ w.m.state = "BODY" /\ length(w.m.data) < data.maxLen
                 /\ length(w.buf) = 0 /\ ~w.m.data.lock
      <4> HIDE DEF c
      <4> QED BY <1>0, <3>5, <3>7, <3>9, <3>10, <3>11, <3>12, RecvBodyLemma
    <3> HIDE DEF w
    <3>14. HeadAt(w.m, p) BY <3>13, <3>5, <3>2, <3>3 DEF HeadAt
    <3>15. length(w.m.data) \in Nat /\ length(w.buf) \in Nat
      BY <3>13, LenProperties DEF Block, Buffer, length
    <3>16. c + length(w.m.data) = q + length(buf) - length(w.buf)
      <4>1. length(w.m.data) + length(w.buf) = length(buf) - HeadLen
        <5>1. length(w.m.data) + length(w.buf) = length(data) + length(buf1) BY <3>13
        <5>2. length(data) = 0 /\ length(buf1) = length(buf) - HeadLen BY <3>7, <3>9
        <5> QED BY <5>1, <5>2, <1>0, <1>1
      <4>2. \A x, y, z \in Nat : x + y = z - HeadLen => c + x = (p - 1) + z - y
        BY <1>0
      <4> QED BY <4>1, <4>2, <3>15, <1>1, <1>2
    <3>17. recv(m, buf, f) = w BY <3>1 DEF w
    <3> QED BY <3>13, <3>14, <3>16, <3>17, <3>7, <3>9, <2>2, <2>4
  <2> QED BY <2>3, <2>4
<1>3. CASE /\ m.state = "BODY"
           /\ HeadAt(m, p)
           /\ m.alloc /\ ~m.data.lock
           /\ m.data.maxLen = f[p] - HeadLen
           /\ Holds(m.data, c)
           /\ q = c + length(m.data)
  <2> DEFINE w == recvBody([m |-> m, buf |-> buf], f)
  <2>1. recv(m, buf, f) = w BY <1>3 DEF recv, recvHead
  <2>2. m.data \in Buffer(Nat) BY DEF Block
  <2>3. m.data = IF m.alloc THEN m.data ELSE NewBuffer(f[m.m_head[1]] - HeadLen)
    BY <1>3
  <2>4. /\ w.m \in Block /\ w.buf \in Buffer(Nat)
        /\ w.m.m_head = m.m_head /\ w.m.alloc
        /\ Holds(w.m.data, c)
        /\ w.m.data.maxLen = m.data.maxLen
        /\ Holds(w.buf, c + length(w.m.data))
        /\ w.buf.maxLen = buf.maxLen
        /\ length(w.m.data) + length(w.buf) = length(m.data) + length(buf)
        /\ \/ w.m.state = "DONE" /\ length(w.m.data) = m.data.maxLen
           \/ w.m.state = "BODY" /\ length(w.m.data) < m.data.maxLen
              /\ length(w.buf) = 0 /\ ~w.m.data.lock
    <3> HIDE DEF c
    <3> QED BY <1>0, <1>3, <2>2, <2>3, RecvBodyLemma
  <2> HIDE DEF w
  <2>5. HeadAt(w.m, p) BY <2>4, <1>3 DEF HeadAt
  <2>6. length(w.m.data) \in Nat /\ length(w.buf) \in Nat /\ length(m.data) \in Nat
    BY <2>2, <2>4, LenProperties DEF Block, Buffer, length
  <2>7. c + length(w.m.data) = q + length(buf) - length(w.buf)
    <3>1. length(w.m.data) + length(w.buf) = length(m.data) + length(buf) BY <2>4
    <3>2. q = c + length(m.data) BY <1>3
    <3> DEFINE x == length(w.m.data)
               y == length(w.buf)
               a == length(m.data)
               z == length(buf)
    <3>3. x \in Nat /\ y \in Nat /\ a \in Nat /\ z \in Nat /\ x + y = a + z /\ q = c + a
      BY <3>1, <3>2, <2>6, <1>1
    <3> HIDE DEF x, y, a, z, c
    <3>4. c + x = q + z - y BY <3>3, <1>0
    <3> QED BY <3>4 DEF x, y, z
  <2> QED BY <1>3, <2>1, <2>4, <2>5, <2>7
<1> QED BY <1>2, <1>3
-----------------------------------------------------------------------------
(* The next frame starts at a byte of the stream, or right after it. *)
LEMMA NextHeadType == RecvInv => NextHead \in Nat \ {0}
<1> SUFFICES ASSUME RecvInv PROVE NextHead \in Nat \ {0} OBVIOUS
<1> USE HeadAssumption, RecvAssumption
<1>1. CASE delivered = << >> BY <1>1 DEF NextHead
<1>2. CASE delivered # << >>
  <2> DEFINE k == Len(delivered)
  <2>1. k \in 1..Len(delivered)
    <3>1. delivered \in Seq(Block) BY DEF RecvInv, TypeOK
    <3> QED BY <3>1, <1>2, EmptySeq, LenProperties
  <2> HIDE DEF k
  <2>2. delivered[k].m_head[1] \in 1..StreamLen BY <2>1 DEF RecvInv
  <2>3. frameLen[delivered[k].m_head[1]] \in HeadLen..MaxFrame
    BY <2>2 DEF RecvInv, TypeOK
  <2>4. NextHead = FrameEnd(k) BY <1>2 DEF NextHead, k
  <2> QED BY <2>2, <2>3, <2>4 DEF FrameEnd
<1> QED BY <1>1, <1>2

(* The connection starts with an empty buffer, waiting for the first header. *)
LEMMA InitInv == Init => RecvInv
<1> SUFFICES ASSUME Init PROVE RecvInv OBVIOUS
<1> USE HeadAssumption, RecvAssumption
<1>1. /\ m_bufferRecv \in Buffer(Nat) /\ InBounds(m_bufferRecv)
      /\ length(m_bufferRecv) = 0 /\ m_bufferRecv.readPos = 0
      /\ m_bufferRecv.maxLen = RecvBufSize
  BY NewBufferLemma DEF Init
<1>2. NewBuffer(0) \in Buffer(Nat) BY NewBufferLemma
<1>3. m_waitMessage \in Block /\ m_waitMessage.state = "INIT"
  BY <1>2, EmptySeq DEF Init, NewBlock, Block
<1>4. delivered = << >> /\ Len(delivered) = 0 /\ delivered \in Seq(Block) /\ NextHead = 1
  BY EmptySeq DEF Init, NextHead
<1>5. TypeOK BY <1>1, <1>3, <1>4 DEF Init, TypeOK
<1>6. BufferInv BY <1>1 DEF Init, BufferInv, Holds
<1>7. HeadInv BY <1>1, <1>4 DEF Init, HeadInv
<1>8. BodyInv BY <1>3 DEF BodyInv
<1>9. FramesIntact BY <1>4 DEF FramesIntact
<1> QED BY <1>3, <1>4, <1>5, <1>6, <1>7, <1>8, <1>9 DEF RecvInv

(* What stays true of the delivered blocks while none is added. *)
LEMMA SameDelivered ==
  ASSUME RecvInv, UNCHANGED <<frameLen, delivered>>
  PROVE  /\ FramesIntact'
         /\ NextHead' = NextHead
         /\ \A k \in 1..Len(delivered') : delivered'[k].m_head[1] \in 1..StreamLen
BY DEF RecvInv, FramesIntact, IsFrame, FrameEnd, NextHead

(* A completed read appends the next bytes of the stream (connection.cpp:80). *)
LEMMA ReadSomeInv == RecvInv /\ ReadSome => RecvInv'
<1> SUFFICES ASSUME RecvInv, ReadSome PROVE RecvInv' OBVIOUS
<1> USE HeadAssumption, RecvAssumption
<1> DEFINE b == m_bufferRecv
<1>1. PICK n \in 1..(b.maxLen - length(b)) :
        /\ arrived + n <= StreamLen
        /\ b' = writeData(b, [i \in 1..n |-> arrived + i])
        /\ arrived' = arrived + n
  BY DEF ReadSome
<1> DEFINE bytes == [i \in 1..n |-> arrived + i]
<1>2. /\ arrived \in Nat /\ b \in Buffer(Nat) /\ b.maxLen \in Nat /\ length(b) \in Nat
      /\ n \in Nat
  BY LenProperties DEF RecvInv, TypeOK, Buffer, length
<1>3. bytes \in Seq(Nat) /\ Len(bytes) = n BY <1>2
<1>4. \A i \in 1..n : bytes[i] = arrived + i OBVIOUS
<1>5. InBounds(b) /\ b.readPos = 0 /\ b.maxLen = RecvBufSize
      /\ length(b) <= arrived
      /\ \A i \in 1..length(b) : b.buf[i] = arrived - length(b) + i
  BY DEF RecvInv, BufferInv, Holds
<1> HIDE DEF bytes
<1>6. /\ b' \in Buffer(Nat) /\ InBounds(b')
      /\ b'.readPos = 0 /\ b'.maxLen = RecvBufSize
      /\ length(b') = length(b) + n
      /\ \A i \in 1..length(b) : b'.buf[i] = b.buf[i]
      /\ \A i \in 1..n : b'.buf[length(b) + i] = bytes[i]
  <2> DEFINE w == writeData(b, bytes)
  <2>1. length(b) + Len(bytes) <= b.maxLen BY <1>1, <1>2, <1>3
  <2>2. /\ w \in Buffer(Nat)
        /\ InBounds(w)
        /\ w.readPos = b.readPos /\ w.maxLen = b.maxLen
        /\ length(w) = length(b) + Len(bytes)
        /\ \A i \in 1..length(b) : w.buf[i] = b.buf[i]
        /\ \A i \in 1..Len(bytes) : w.buf[length(b) + i] = bytes[i]
    <3>1. b \in Buffer(Nat) /\ bytes \in Seq(Nat) /\ InBounds(b) BY <1>2, <1>3, <1>5
    <3> HIDE DEF b
    <3> QED BY <2>1, <3>1, WriteDataLemma
  <2>3. m_bufferRecv' = w BY <1>1 DEF bytes
  <2> HIDE DEF w
  <2> QED BY <2>2, <2>3, <1>3, <1>5 DEF length
<1>7. /\ pc' = "parse" /\ frameLen' = frameLen /\ m_waitMessage' = m_waitMessage
      /\ delivered' = delivered
  BY DEF ReadSome
<1>8. /\ FramesIntact' /\ NextHead' = NextHead
      /\ \A k \in 1..Len(delivered') : delivered'[k].m_head[1] \in 1..StreamLen
  BY <1>7, SameDelivered
<1>9. arrived' - length(b') = arrived - length(b) BY <1>1, <1>2, <1>6
<1>10. TypeOK'
  <2>1. m_bufferRecv' \in Buffer(Nat) BY <1>6
  <2>2. arrived' \in Nat BY <1>1, <1>2
  <2> QED BY <2>1, <2>2, <1>7 DEF RecvInv, TypeOK
<1>11. BufferInv'
  <2>1. \A i \in 1..length(b') : b'.buf[i] = arrived - length(b) + i
    <3> TAKE i \in 1..length(b')
    <3>1. CASE i <= length(b) BY <3>1, <1>2, <1>5, <1>6
    <3>2. CASE i > length(b)
      <4>1. i - length(b) \in 1..n /\ i = length(b) + (i - length(b)) BY <3>2, <1>2, <1>6
      <4>2. b'.buf[i] = bytes[i - length(b)] BY <4>1, <1>6
      <4>3. bytes[i - length(b)] = arrived + (i - length(b)) BY <4>1, <1>4
      <4> QED BY <4>1, <4>2, <4>3, <1>2
    <3> QED BY <3>1, <3>2, <1>2, <1>6
  <2>2. length(b') <= arrived' /\ arrived' <= StreamLen BY <1>1, <1>2, <1>5, <1>6
  <2> QED BY <2>1, <2>2, <1>6, <1>9 DEF BufferInv, Holds, InBounds, length
<1>12. HeadInv'
  BY <1>7, <1>8, <1>9 DEF RecvInv, HeadInv
<1>13. BodyInv'
  BY <1>7, <1>8, <1>9 DEF RecvInv, BodyInv, Holds, InBounds, length
<1> QED BY <1>7, <1>8, <1>10, <1>11, <1>12, <1>13 DEF RecvInv

(* The loop of handleReadSome ends on an empty buffer (connection.cpp:93, 101). *)
LEMMA ReadAgainInv == RecvInv /\ ReadAgain => RecvInv'
<1> SUFFICES ASSUME RecvInv, ReadAgain PROVE RecvInv' OBVIOUS
<1> USE HeadAssumption, RecvAssumption
<1>1. /\ ~hasWrite(m_bufferRecv) /\ pc' = "read"
      /\ UNCHANGED <<frameLen, m_bufferRecv, m_waitMessage, arrived, delivered>>
  BY DEF ReadAgain
<1>2. length(m_bufferRecv) \in Nat BY LenProperties DEF RecvInv, TypeOK, Buffer, length
<1>3. length(m_bufferRecv) = 0 BY <1>1, <1>2 DEF hasWrite
<1>4. /\ FramesIntact' /\ NextHead' = NextHead
      /\ \A k \in 1..Len(delivered') : delivered'[k].m_head[1] \in 1..StreamLen
  BY <1>1, SameDelivered
<1>5. TypeOK' BY <1>1 DEF RecvInv, TypeOK
<1>6. BufferInv' BY <1>1 DEF RecvInv, BufferInv, Holds, InBounds, length
<1>7. HeadInv' BY <1>1, <1>3, <1>4 DEF RecvInv, HeadInv, length
<1>8. BodyInv' BY <1>1, <1>3, <1>4 DEF RecvInv, BodyInv, Holds, InBounds, length
<1> QED BY <1>1, <1>4, <1>5, <1>6, <1>7, <1>8 DEF RecvInv

(* One iteration of the loop: a frame is delivered, or the buffer is used up. *)
LEMMA ReadMessageInv == RecvInv /\ ReadMessage => RecvInv'
<1> SUFFICES ASSUME RecvInv, ReadMessage PROVE RecvInv' OBVIOUS
<1> USE HeadAssumption, RecvAssumption
<1> DEFINE p == NextHead
           b == m_bufferRecv
           q == arrived - length(b)
           w == recv(m_waitMessage, b, frameLen)
<1>1. /\ pc = "parse" /\ m_bufferRecv' = w.buf
      /\ frameLen' = frameLen /\ arrived' = arrived
      /\ \/ /\ w.m.state = "DONE"
            /\ delivered' = Append(delivered, w.m)
            /\ m_waitMessage' = NewBlock
            /\ pc' = pc
         \/ /\ w.m.state # "DONE"
            /\ m_waitMessage' = w.m
            /\ pc' = "read"
            /\ delivered' = delivered
  BY DEF ReadMessage, bodyDone
<1>2. /\ arrived \in Nat /\ b \in Buffer(Nat) /\ m_waitMessage \in Block
      /\ length(b) \in Nat /\ delivered \in Seq(Block)
  BY LenProperties DEF RecvInv, TypeOK, Buffer, length
<1>3. p \in Nat \ {0} BY NextHeadType
<1>4. length(b) <= arrived /\ arrived <= StreamLen /\ Holds(b, q) /\ b.maxLen = RecvBufSize
  BY DEF RecvInv, BufferInv
<1>5. q \in Nat BY <1>2, <1>4
<1>6. \/ m_waitMessage = NewBlock /\ q = p - 1
      \/ /\ m_waitMessage.state = "BODY"
         /\ HeadAt(m_waitMessage, p)
         /\ m_waitMessage.alloc /\ ~m_waitMessage.data.lock
         /\ m_waitMessage.data.maxLen = frameLen[p] - HeadLen
         /\ Holds(m_waitMessage.data, p - 1 + HeadLen)
         /\ q = p - 1 + HeadLen + length(m_waitMessage.data)
  <2>1. m_waitMessage.state \in {"INIT", "BODY"} BY <1>2 DEF RecvInv, Block
  <2>2. CASE m_waitMessage.state = "INIT" BY <2>2 DEF RecvInv, HeadInv
  <2>3. CASE m_waitMessage.state = "BODY" BY <2>3 DEF RecvInv, BodyInv, HeadAt
  <2> QED BY <2>1, <2>2, <2>3
<1>7. HeadLen <= length(b) \/ m_waitMessage.state = "BODY" => p \in 1..StreamLen
  <2>1. CASE m_waitMessage.state = "BODY" BY <2>1 DEF RecvInv, BodyInv
  <2>2. CASE m_waitMessage.state # "BODY" /\ HeadLen <= length(b)
    <3>1. arrived - length(b) = p - 1 BY <2>2, <1>6
    <3> HIDE DEF p, b
    <3> QED BY <3>1, <2>2, <1>2, <1>3, <1>4
  <2> QED BY <2>1, <2>2
<1>8. p \in 1..StreamLen => frameLen[p] \in Nat /\ frameLen[p] >= HeadLen
  BY DEF RecvInv, TypeOK
<1> HIDE DEF p, b, q, w
<1>9. \/ /\ w.m = m_waitMessage /\ w.buf = b
         /\ m_waitMessage = NewBlock /\ length(b) < HeadLen
      \/ /\ m_waitMessage.state = "BODY" \/ HeadLen <= length(b)
         /\ w.m \in Block /\ w.buf \in Buffer(Nat) /\ w.buf.maxLen = b.maxLen
         /\ HeadAt(w.m, p)
         /\ w.m.alloc
         /\ w.m.data.maxLen = frameLen[p] - HeadLen
         /\ Holds(w.m.data, p - 1 + HeadLen)
         /\ Holds(w.buf, p - 1 + HeadLen + length(w.m.data))
         /\ p - 1 + HeadLen + length(w.m.data) = q + length(b) - length(w.buf)
         /\ \/ w.m.state = "DONE" /\ length(w.m.data) = frameLen[p] - HeadLen
            \/ w.m.state = "BODY" /\ length(w.m.data) < frameLen[p] - HeadLen
               /\ length(w.buf) = 0 /\ ~w.m.data.lock
  <2>1. HeadLen <= length(b) \/ m_waitMessage.state = "BODY" =>
          frameLen[p] \in Nat /\ frameLen[p] >= HeadLen
    BY <1>7, <1>8
  <2> QED BY <1>2, <1>3, <1>4, <1>5, <1>6, <2>1, RecvLemma DEF w
<1>10. CASE /\ w.m = m_waitMessage /\ w.buf = b
            /\ m_waitMessage = NewBlock /\ length(b) < HeadLen
  <2>1. w.m.state = "INIT" BY <1>10 DEF NewBlock
  <2>2. /\ m_waitMessage' = m_waitMessage /\ pc' = "read" /\ delivered' = delivered
        /\ m_bufferRecv' = m_bufferRecv
    BY <1>1, <1>10, <2>1 DEF b
  <2>3. /\ FramesIntact' /\ NextHead' = NextHead
        /\ \A k \in 1..Len(delivered') : delivered'[k].m_head[1] \in 1..StreamLen
    BY <1>1, <2>2, SameDelivered
  <2>4. TypeOK' BY <1>1, <2>2 DEF RecvInv, TypeOK
  <2>5. BufferInv' BY <1>1, <2>2 DEF RecvInv, BufferInv, Holds, InBounds, length
  <2>6. HeadInv' BY <1>1, <1>10, <2>2, <2>3 DEF RecvInv, HeadInv, length, b
  <2>7. m_waitMessage'.state = "INIT" BY <1>10, <2>1, <2>2
  <2>8. BodyInv' BY <2>7 DEF BodyInv
  <2> QED BY <2>3, <2>4, <2>5, <2>6, <2>7, <2>8 DEF RecvInv
<1>11. CASE /\ m_waitMessage.state = "BODY" \/ HeadLen <= length(b)
            /\ w.m \in Block /\ w.buf \in Buffer(Nat) /\ w.buf.maxLen = b.maxLen
            /\ HeadAt(w.m, p)
            /\ w.m.alloc
            /\ w.m.data.maxLen = frameLen[p] - HeadLen
            /\ Holds(w.m.data, p - 1 + HeadLen)
            /\ Holds(w.buf, p - 1 + HeadLen + length(w.m.data))
            /\ p - 1 + HeadLen + length(w.m.data) = q + length(b) - length(w.buf)
            /\ \/ w.m.state = "DONE" /\ length(w.m.data) = frameLen[p] - HeadLen
               \/ w.m.state = "BODY" /\ length(w.m.data) < frameLen[p] - HeadLen
                  /\ length(w.buf) = 0 /\ ~w.m.data.lock
  <2>1. p \in 1..StreamLen /\ frameLen[p] \in Nat /\ frameLen[p] >= HeadLen
    BY <1>7, <1>8, <1>11
  <2>2. length(w.buf) \in Nat /\ length(w.m.data) \in Nat
    BY <1>11, LenProperties DEF Block, Buffer, length
  <2>3. p - 1 + HeadLen + length(w.m.data) = arrived - length(w.buf)
    <3>1. p - 1 + HeadLen + length(w.m.data) = q + length(b) - length(w.buf) BY <1>11
    <3> DEFINE x == length(w.buf)
               y == length(b)
    <3>2. x \in Nat /\ y \in Nat /\ q = arrived - y BY <1>2, <2>2 DEF q
    <3> HIDE DEF x, y
    <3>3. q + y - x = arrived - x BY <3>2, <1>2
    <3> QED BY <3>1, <3>3 DEF x, y
  <2>4. w.m.m_head[1] = p
    <3>1. \A i \in 1..HeadLen : w.m.m_head[i] = p + i - 1 BY <1>11, Zenon DEF HeadAt
    <3> QED BY <3>1, <1>3
  <2>5. BufferInv'
    <3>1. length(w.buf) <= arrived
      <4> DEFINE x == length(w.buf)
                 y == length(w.m.data)
      <4>1. x \in Nat /\ y \in Nat /\ p - 1 + HeadLen + y = arrived - x BY <2>2, <2>3
      <4> HIDE DEF x, y
      <4>2. x <= arrived BY <4>1, <1>2, <1>3
      <4> QED BY <4>2 DEF x
    <3>2. Holds(w.buf, arrived - length(w.buf)) BY <1>11, <2>3
    <3>3. m_bufferRecv' = w.buf /\ arrived' = arrived /\ w.buf.maxLen = RecvBufSize
      BY <1>1, <1>4, <1>11
    <3> QED BY <3>1, <3>2, <3>3, <1>4 DEF BufferInv, Holds, InBounds, length
  <2>6. CASE w.m.state = "DONE"
    <3>1. /\ delivered' = Append(delivered, w.m) /\ m_waitMessage' = NewBlock
          /\ pc' = "parse"
      BY <1>1, <2>6
    <3>2. /\ delivered' \in Seq(Block)
          /\ Len(delivered') = Len(delivered) + 1
          /\ \A i \in 1..Len(delivered) : delivered'[i] = delivered[i]
          /\ delivered'[Len(delivered) + 1] = w.m
      BY <1>2, <1>11, <3>1, AppendProperties
    <3>3. Len(delivered) \in Nat BY <1>2, LenProperties
    <3>4. delivered' # << >>
      BY <3>2, <3>3, EmptySeq
    <3>5. NextHead' = p + frameLen[p]
      BY <1>1, <2>4, <3>2, <3>4 DEF NextHead, FrameEnd
    <3>6. NewBlock \in Block /\ NewBlock.state = "INIT"
      <4>1. NewBuffer(0) \in Buffer(Nat) BY NewBufferLemma
      <4> QED BY <4>1, EmptySeq DEF NewBlock, Block
    <3>7. TypeOK'
      BY <1>1, <1>11, <3>1, <3>2, <3>6 DEF RecvInv, TypeOK
    <3>8. HeadInv'
      <4>1. length(w.m.data) = frameLen[p] - HeadLen BY <1>11, <2>6
      <4>2. arrived - length(w.buf) = p + frameLen[p] - 1
        <5> DEFINE x == length(w.buf)
                   y == length(w.m.data)
        <5>1. /\ x \in Nat /\ y \in Nat /\ p - 1 + HeadLen + y = arrived - x
              /\ y = frameLen[p] - HeadLen
          BY <2>2, <2>3, <4>1
        <5> HIDE DEF x, y
        <5>2. arrived - x = p + frameLen[p] - 1 BY <5>1, <1>2, <1>3, <2>1
        <5> QED BY <5>2 DEF x
      <4>3. (arrived - length(m_bufferRecv))' = arrived - length(w.buf) BY <1>1 DEF length
      <4>4. (arrived - length(m_bufferRecv))' = (NextHead - 1)'
        BY <1>3, <2>1, <3>5, <4>2, <4>3
      <4>5. m_waitMessage' = NewBlock /\ pc' # "read" BY <3>1
      <4> QED BY <4>4, <4>5, Zenon DEF HeadInv
    <3>9. BodyInv' BY <3>1, <3>6 DEF BodyInv
    <3>10. FramesIntact'
      <4> SUFFICES ASSUME NEW k \in 1..Len(delivered')
                   PROVE  IsFrame(k, IF k = 1 THEN 1 ELSE FrameEnd(k - 1))'
        BY DEF FramesIntact
      <4>1. CASE k <= Len(delivered)
        <5>1. k \in 1..Len(delivered) BY <4>1, <3>3
        <5>2. IsFrame(k, IF k = 1 THEN 1 ELSE FrameEnd(k - 1)) BY <5>1 DEF RecvInv, FramesIntact
        <5>3. delivered'[k] = delivered[k] BY <5>1, <3>2
        <5>4. k # 1 => delivered'[k - 1] = delivered[k - 1] BY <5>1, <3>2, <3>3
        <5> QED BY <5>2, <5>3, <5>4, <1>1 DEF IsFrame, FrameEnd
      <4>2. CASE k = Len(delivered) + 1
        <5>1. (IF k = 1 THEN 1 ELSE FrameEnd(k - 1)') = p
          <6>1. CASE delivered = << >>
            BY <6>1, <4>2, EmptySeq DEF p, NextHead
          <6>2. CASE delivered # << >>
            <7>1. Len(delivered) \in 1..Len(delivered) /\ k # 1 /\ k - 1 = Len(delivered)
              BY <6>2, <4>2, <1>2, <3>3, EmptySeq
            <7>2. delivered'[k - 1] = delivered[k - 1] BY <7>1, <3>2
            <7> QED BY <6>2, <7>1, <7>2, <1>1 DEF p, NextHead, FrameEnd
          <6> QED BY <6>1, <6>2
        <5>2. delivered'[k] = w.m BY <4>2, <3>2
        <5>3. /\ Len(w.m.data.buf) = frameLen[p] - HeadLen
              /\ \A i \in 1..(frameLen[p] - HeadLen) : w.m.data.buf[i] = p + HeadLen + i - 1
          <6>1. length(w.m.data) = frameLen[p] - HeadLen BY <1>11, <2>6
          <6>2. \A i \in 1..length(w.m.data) : w.m.data.buf[i] = p - 1 + HeadLen + i
            BY <1>11 DEF Holds
          <6> QED BY <6>1, <6>2, <1>3 DEF length
        <5>4. /\ Len(delivered'[k].m_head) = HeadLen
              /\ \A i \in 1..HeadLen : delivered'[k].m_head[i] = p + i - 1
          BY <5>2, <1>11 DEF HeadAt
        <5> QED BY <1>1, <5>1, <5>2, <5>3, <5>4 DEF IsFrame
      <4> QED BY <4>1, <4>2, <3>2, <3>3
    <3>11. \A k \in 1..Len(delivered') : delivered'[k].m_head[1] \in 1..StreamLen
      <4> TAKE k \in 1..Len(delivered')
      <4>1. CASE k <= Len(delivered)
        <5>1. k \in 1..Len(delivered) BY <4>1, <3>3
        <5> QED BY <5>1, <3>2 DEF RecvInv
      <4>2. CASE k = Len(delivered) + 1 BY <4>2, <3>2, <2>1, <2>4
      <4> QED BY <4>1, <4>2, <3>2, <3>3
    <3> QED BY <2>5, <3>1, <3>6, <3>7, <3>8, <3>9, <3>10, <3>11 DEF RecvInv
  <2>7. CASE w.m.state = "BODY"
    <3>1. m_waitMessage' = w.m /\ pc' = "read" /\ delivered' = delivered
      BY <1>1, <2>7
    <3>2. /\ FramesIntact' /\ NextHead' = NextHead
          /\ \A k \in 1..Len(delivered') : delivered'[k].m_head[1] \in 1..StreamLen
      BY <1>1, <3>1, SameDelivered
    <3>3. TypeOK' BY <1>1, <1>11, <3>1 DEF RecvInv, TypeOK
    <3>4. HeadInv' BY <2>7, <3>1 DEF HeadInv
    <3>5. length(w.m.data) < w.m.data.maxLen /\ length(w.buf) = 0 /\ ~w.m.data.lock
      BY <1>11, <2>7
    <3>6. NextHead' = p BY <3>2 DEF p
    <3>7. BodyInv'
      BY <1>1, <1>11, <2>1, <2>3, <3>1, <3>5, <3>6 DEF BodyInv, HeadAt, Holds, InBounds, length
    <3> QED BY <2>5, <2>7, <3>1, <3>2, <3>3, <3>4, <3>7 DEF RecvInv
  <2> QED BY <1>11, <2>6, <2>7
<1> QED BY <1>9, <1>10, <1>11
-----------------------------------------------------------------------------
(* Every step of the receive path preserves the invariant. *)
LEMMA StepInv == RecvInv /\ [Next]_vars => RecvInv'
<1> SUFFICES ASSUME RecvInv, [Next]_vars PROVE RecvInv' OBVIOUS
<1>1. CASE ReadSome BY <1>1, ReadSomeInv
<1>2. CASE ReadMessage BY <1>2, ReadMessageInv
<1>3. CASE ReadAgain BY <1>3, ReadAgainInv
<1>4. CASE UNCHANGED vars
  <2>1. UNCHANGED <<frameLen, m_bufferRecv, m_waitMessage, arrived, pc, delivered>>
    BY <1>4 DEF vars
  <2>2. /\ FramesIntact' /\ NextHead' = NextHead
        /\ \A k \in 1..Len(delivered') : delivered'[k].m_head[1] \in 1..StreamLen
    BY <2>1, SameDelivered
  <2>3. TypeOK' /\ BufferInv' BY <2>1 DEF RecvInv, TypeOK, BufferInv, Holds, InBounds, length
  <2>4. HeadInv' BY <2>1, <2>2 DEF RecvInv, HeadInv, length
  <2>5. BodyInv' BY <2>1, <2>2 DEF RecvInv, BodyInv, Holds, InBounds, length
  <2> QED BY <2>1, <2>2, <2>3, <2>4, <2>5 DEF RecvInv
<1> QED BY <1>1, <1>2, <1>3, <1>4 DEF Next

(***************************************************************************)
(* RecvInv is an invariant of the receive path: whatever pieces TCP cuts   *)
(* the stream into, the buffer, the block under construction and the       *)
(* delivered blocks stay aligned with the frames of the stream.            *)
(***************************************************************************)
THEOREM RecvInvariant == Spec => []RecvInv
BY InitInv, StepInv, PTL DEF Spec

(* The variables of the receive path keep their types. *)
THEOREM RecvTypeCorrect == Spec => []TypeOK
<1>1. RecvInv => TypeOK BY DEF RecvInv
<1> QED BY <1>1, RecvInvariant, PTL

(***************************************************************************)
(* handleReadSome delivers exactly the frames of the peer's stream, in     *)
(* order and complete, for every way of cutting the stream into reads.     *)
(***************************************************************************)
THEOREM RecvFramesIntact == Spec => []FramesIntact
<1>1. RecvInv => FramesIntact BY DEF RecvInv
<1> QED BY <1>1, RecvInvariant, PTL

(* RecvInv says why a frame that waits for more bytes is not complete. *)
LEMMA InvNothingHeldBack == RecvInv => NothingHeldBack
<1> SUFFICES ASSUME RecvInv, pc = "read", NextHead <= arrived
             PROVE  arrived < NextHead + frameLen[NextHead] - 1
  BY DEF NothingHeldBack
<1> USE HeadAssumption, RecvAssumption
<1> DEFINE p == NextHead
           x == length(m_bufferRecv)
           y == length(m_waitMessage.data)
<1>1. p \in Nat \ {0} BY NextHeadType
<1>2. arrived \in Nat /\ x \in Nat /\ arrived <= StreamLen
  BY LenProperties DEF RecvInv, TypeOK, BufferInv, Buffer, length
<1>3. frameLen[p] \in Nat /\ frameLen[p] >= HeadLen
  <2>1. p \in 1..StreamLen BY <1>1, <1>2
  <2> QED BY <2>1 DEF RecvInv, TypeOK
<1>4. CASE m_waitMessage.state = "INIT"
  <2>1. arrived - x = p - 1 /\ x < HeadLen BY <1>4 DEF RecvInv, HeadInv
  <2> HIDE DEF p, x
  <2>2. arrived < p + frameLen[p] - 1 BY <2>1, <1>1, <1>2, <1>3
  <2> QED BY <2>2 DEF p
<1>5. CASE m_waitMessage.state = "BODY"
  <2>1. /\ x = 0 /\ y < m_waitMessage.data.maxLen
        /\ m_waitMessage.data.maxLen = frameLen[p] - HeadLen
        /\ arrived - x = p - 1 + HeadLen + y
    BY <1>5 DEF RecvInv, BodyInv
  <2>2. y \in Nat BY LenProperties DEF RecvInv, TypeOK, Block, Buffer, length
  <2>3. y < frameLen[p] - HeadLen BY <2>1
  <2>4. arrived - x = p - 1 + HeadLen + y /\ x = 0 BY <2>1
  <2> HIDE DEF p, x, y
  <2>5. arrived < p + frameLen[p] - 1 BY <2>2, <2>3, <2>4, <1>1, <1>2, <1>3
  <2> QED BY <2>5 DEF p
<1>6. m_waitMessage.state \in {"INIT", "BODY"} BY DEF RecvInv, TypeOK, Block
<1> QED BY <1>4, <1>5, <1>6

(***************************************************************************)
(* When handleReadSome asks for more bytes, the frame under construction   *)
(* is not complete: no message waits for the one after it.                 *)
(***************************************************************************)
THEOREM RecvNothingHeldBack == Spec => []NothingHeldBack
BY InvNothingHeldBack, RecvInvariant, PTL

(***************************************************************************)
(* async_read_some always has room, also for frames larger than the        *)
(* receive buffer, because the buffer holds a whole header.                *)
(***************************************************************************)
THEOREM RecvRoomToRead == Spec => []RoomToRead
<1>1. RecvInv => RoomToRead
  <2> SUFFICES ASSUME RecvInv, pc = "read" PROVE ~isFull(m_bufferRecv)
    BY DEF RoomToRead
  <2> USE HeadAssumption, RecvAssumption
  <2>1. length(m_bufferRecv) \in Nat
    BY LenProperties DEF RecvInv, TypeOK, Buffer, length
  <2>2. m_waitMessage.state \in {"INIT", "BODY"} BY DEF RecvInv, TypeOK, Block
  <2>3. length(m_bufferRecv) < HeadLen
    BY <2>1, <2>2 DEF RecvInv, HeadInv, BodyInv
  <2>4. m_bufferRecv.maxLen = RecvBufSize BY DEF RecvInv, BufferInv
  <2> QED BY <2>1, <2>3, <2>4 DEF isFull
<1> QED BY <1>1, RecvInvariant, PTL
-----------------------------------------------------------------------------
(* ConnectionRecv implements FrameStream *)

(* The value of FrameStream's got: what the delivered blocks hold. *)
contents == [k \in 1..Len(delivered) |-> Content(delivered[k])]

(* A sequence is a function on its indices. *)
LEMMA SeqIsFunction ==
  ASSUME NEW S, NEW s \in Seq(S) PROVE s = [i \in 1..Len(s) |-> s[i]]
OBVIOUS

(* Both specifications agree on where the next frame starts. *)
LEMMA SameNext == RecvInv => Frames!next = NextHead
<1> SUFFICES ASSUME RecvInv PROVE Frames!next = NextHead OBVIOUS
<1>1. delivered \in Seq(Block) /\ Len(delivered) \in Nat
  BY LenProperties DEF RecvInv, TypeOK
<1>2. contents \in Seq(Range(contents)) /\ Len(contents) = Len(delivered)
  BY <1>1 DEF contents, Range
<1>3. contents = << >> <=> delivered = << >>
  BY <1>1, <1>2, EmptySeq
<1>4. CASE delivered = << >>
  BY <1>3, <1>4 DEF Frames!next, NextHead, contents
<1>5. CASE delivered # << >>
  <2>1. Len(delivered) \in 1..Len(delivered)
    BY <1>1, <1>5, EmptySeq
  <2>2. contents[Len(contents)].head[1] = delivered[Len(delivered)].m_head[1]
    BY <1>2, <2>1 DEF contents, Content
  <2>3. Frames!next = contents[Len(contents)].head[1] + frameLen[contents[Len(contents)].head[1]]
    BY <1>3, <1>5 DEF Frames!next, contents
  <2> QED
    BY <1>5, <2>2, <2>3 DEF NextHead, FrameEnd
<1> QED BY <1>4, <1>5

(* A completed read is taken only when no complete frame is left behind. *)
LEMMA ReadSomeArrives == RecvInv /\ ReadSome => Frames!Arrive
<1> SUFFICES ASSUME RecvInv, ReadSome PROVE Frames!Arrive OBVIOUS
<1>1. pc = "read" /\ delivered' = delivered /\ frameLen' = frameLen
  BY DEF ReadSome
<1>2. arrived \in Nat /\ NextHead \in Nat \ {0}
  BY NextHeadType DEF RecvInv, TypeOK
<1>3. arrived' \in (arrived + 1)..StreamLen
  <2>1. PICK n \in 1..(m_bufferRecv.maxLen - length(m_bufferRecv)) :
          arrived + n <= StreamLen /\ arrived' = arrived + n
    BY DEF ReadSome
  <2>2. m_bufferRecv.maxLen \in Nat /\ length(m_bufferRecv) \in Nat
    BY LenProperties DEF RecvInv, TypeOK, Buffer, length
  <2> QED
    BY <1>2, <2>1, <2>2, RecvAssumption
<1>4. ~Frames!Complete
  <2>1. NextHead <= arrived => arrived < NextHead + frameLen[NextHead] - 1
    BY <1>1, InvNothingHeldBack DEF NothingHeldBack
  <2>2. NextHead <= arrived => frameLen[NextHead] \in Nat
    <3>1. arrived <= StreamLen BY DEF RecvInv, BufferInv
    <3>2. NextHead <= arrived => NextHead \in 1..StreamLen BY <1>2, <3>1, RecvAssumption
    <3> QED BY <3>2, HeadAssumption, RecvAssumption DEF RecvInv, TypeOK
  <2>3. Frames!Complete <=> NextHead <= arrived /\ NextHead + frameLen[NextHead] - 1 <= arrived
    BY SameNext DEF Frames!Complete
  <2> QED
    BY <1>2, <2>1, <2>2, <2>3
<1> QED
  BY <1>1, <1>3, <1>4 DEF Frames!Arrive

(***************************************************************************)
(* An iteration of the loop delivers the next frame, which has arrived, or *)
(* delivers nothing.                                                       *)
(***************************************************************************)
LEMMA ReadMessageDelivers ==
  RecvInv /\ ReadMessage => Frames!Deliver \/ UNCHANGED <<frameLen, arrived, delivered>>
<1> SUFFICES ASSUME RecvInv, ReadMessage, delivered' # delivered PROVE Frames!Deliver
  BY DEF ReadMessage
<1> USE HeadAssumption, RecvAssumption
<1> DEFINE p == NextHead
           n == Len(delivered)
<1>1. RecvInv'
  BY ReadMessageInv
<1>2. PICK m : delivered' = Append(delivered, m) /\ m_waitMessage' = NewBlock
  BY DEF ReadMessage
<1>3. frameLen' = frameLen /\ arrived' = arrived
  BY DEF ReadMessage
<1>4. delivered \in Seq(Block) /\ delivered' \in Seq(Block) /\ n \in Nat /\ p \in Nat \ {0}
  BY <1>1, NextHeadType, LenProperties DEF RecvInv, TypeOK
<1>5. m \in Block
  <2>1. delivered \in Seq(Block \cup {m})
    BY <1>4, SeqMonotonic
  <2>2. Len(delivered') = n + 1 /\ delivered'[n + 1] = m
    BY <1>2, <2>1, AppendProperties
  <2> QED
    BY <1>4, <2>2, ElementOfSeq
<1>6. /\ Len(delivered') = n + 1
      /\ \A k \in 1..n : delivered'[k] = delivered[k]
      /\ delivered'[n + 1] = m
  BY <1>2, <1>4, <1>5, AppendProperties
<1>7. /\ Len(m.m_head) = HeadLen
      /\ \A i \in 1..HeadLen : m.m_head[i] = p + i - 1
      /\ Len(m.data.buf) = frameLen[p] - HeadLen
      /\ \A i \in 1..(frameLen[p] - HeadLen) : m.data.buf[i] = p + HeadLen + i - 1
  <2> DEFINE start(k) ==
        IF k = 1 THEN 1
        ELSE delivered'[k - 1].m_head[1] + frameLen[delivered'[k - 1].m_head[1]]
  <2>1. \A k \in 1..Len(delivered') :
          /\ Len(delivered'[k].m_head) = HeadLen
          /\ \A i \in 1..HeadLen : delivered'[k].m_head[i] = start(k) + i - 1
          /\ Len(delivered'[k].data.buf) = frameLen[start(k)] - HeadLen
          /\ \A i \in 1..(frameLen[start(k)] - HeadLen) :
               delivered'[k].data.buf[i] = start(k) + HeadLen + i - 1
    BY <1>1, <1>3 DEF RecvInv, FramesIntact, IsFrame, FrameEnd
  <2>2. start(n + 1) = p
    <3>1. CASE delivered = << >>
      BY <3>1, EmptySeq DEF NextHead
    <3>2. CASE delivered # << >>
      <4>1. n \in 1..n /\ n + 1 # 1 /\ (n + 1) - 1 = n
        BY <1>4, <3>2, EmptySeq
      <4>2. delivered'[n] = delivered[n]
        BY <1>6, <4>1
      <4> QED
        BY <3>2, <4>1, <4>2 DEF NextHead, FrameEnd
    <3> QED BY <3>1, <3>2
  <2>3. n + 1 \in 1..Len(delivered')
    BY <1>4, <1>6
  <2> HIDE DEF start, p, n
  <2> QED
    BY <1>6, <2>1, <2>2, <2>3
<1>8. m.m_head[1] = p /\ NextHead' = p + frameLen[p]
  <2>1. m.m_head[1] = p
    BY <1>4, <1>7
  <2>2. delivered' # << >>
    BY <1>4, <1>6, EmptySeq
  <2> QED
    BY <1>3, <1>6, <2>1, <2>2 DEF NextHead, FrameEnd
<1>9. p \in 1..StreamLen
  <2>1. n + 1 \in 1..Len(delivered')
    BY <1>4, <1>6
  <2>2. delivered'[n + 1].m_head[1] \in 1..StreamLen
    BY <1>1, <2>1 DEF RecvInv
  <2> QED BY <1>6, <1>8, <2>2
<1>10. Frames!Complete
  <2>1. arrived - length(m_bufferRecv)' = NextHead' - 1
    BY <1>1, <1>2, <1>3 DEF RecvInv, HeadInv, NewBlock
  <2>2. length(m_bufferRecv)' \in Nat /\ arrived \in Nat
    BY <1>1, LenProperties DEF RecvInv, TypeOK, Buffer, length
  <2>3. frameLen[p] \in Nat /\ frameLen[p] >= HeadLen
    BY <1>9 DEF RecvInv, TypeOK
  <2>4. p <= arrived /\ p + frameLen[p] - 1 <= arrived
    <3> HIDE DEF p
    <3> QED BY <1>4, <1>8, <2>1, <2>2, <2>3
  <2> QED
    BY <2>4, SameNext DEF Frames!Complete
<1>11. Content(m) = Frames!frame(p)
  <2>1. m.m_head \in Seq(Nat) /\ m.data.buf \in Seq(Nat)
    BY <1>5 DEF Block, Buffer
  <2>2. m.m_head = [i \in 1..HeadLen |-> p + i - 1]
    <3>1. m.m_head = [i \in 1..Len(m.m_head) |-> m.m_head[i]]
      BY <2>1, SeqIsFunction
    <3> HIDE DEF p
    <3> QED BY <1>7, <3>1
  <2>3. m.data.buf = [i \in 1..(frameLen[p] - HeadLen) |-> p + HeadLen + i - 1]
    <3>1. m.data.buf = [i \in 1..Len(m.data.buf) |-> m.data.buf[i]]
      BY <2>1, SeqIsFunction
    <3> HIDE DEF p
    <3> QED BY <1>7, <3>1
  <2> QED
    BY <2>2, <2>3 DEF Content, Frames!frame
<1>12. contents' = Append(contents, Content(m))
  <2> DEFINE S == Range(contents) \cup {Content(m)}
  <2>1. contents \in Seq(S) /\ Len(contents) = n
    BY <1>4 DEF contents, Range
  <2>2. Content(m) \in S
    OBVIOUS
  <2>3. /\ Append(contents, Content(m)) \in Seq(S)
        /\ Len(Append(contents, Content(m))) = n + 1
        /\ \A k \in 1..n : Append(contents, Content(m))[k] = contents[k]
        /\ Append(contents, Content(m))[n + 1] = Content(m)
    <3> HIDE DEF S
    <3> QED BY <2>1, <2>2, AppendProperties
  <2>4. contents' = [k \in 1..(n + 1) |-> Content(delivered'[k])]
    BY <1>6 DEF contents, Content
  <2>5. \A k \in 1..(n + 1) : Append(contents, Content(m))[k] = Content(delivered'[k])
    <3>1. \A k \in 1..n : contents[k] = Content(delivered'[k])
      BY <1>6 DEF contents
    <3>2. \A k \in 1..(n + 1) : k \in 1..n \/ k = n + 1
      BY <1>4
    <3> HIDE DEF n
    <3> QED BY <1>6, <2>3, <3>1, <3>2
  <2>6. Append(contents, Content(m))
          = [k \in 1..Len(Append(contents, Content(m))) |-> Append(contents, Content(m))[k]]
    <3> HIDE DEF S
    <3> QED BY <2>3, SeqIsFunction, Zenon
  <2> HIDE DEF n
  <2> QED
    BY <2>3, <2>4, <2>5, <2>6
<1> QED
  BY <1>3, <1>10, <1>11, <1>12, SameNext DEF Frames!Deliver, contents
-----------------------------------------------------------------------------
(***************************************************************************)
(* handleReadSome implements FrameStream, for every way of cutting the     *)
(* stream into reads: each step is the arrival of bytes when no complete   *)
(* frame is left behind, the delivery of the next frame, or neither.       *)
(***************************************************************************)
THEOREM RecvImplementsFrames == Spec => ImplementsFrames
<1>1. Init => Frames!Init
  <2> SUFFICES ASSUME Init PROVE arrived = 0 /\ contents = << >>
    BY DEF Frames!Init, contents
  <2>1. arrived = 0 /\ delivered = << >> /\ Len(delivered) = 0
    BY DEF Init
  <2>2. contents = [k \in 1..0 |-> Content(delivered[k])]
    BY <2>1 DEF contents
  <2> QED
    BY <2>1, <2>2
<1>2. RecvInv /\ [Next]_vars => [Frames!Next]_(Frames!vars)
  <2> SUFFICES ASSUME RecvInv, [Next]_vars
               PROVE  Frames!Next \/ UNCHANGED <<frameLen, arrived, delivered>>
    BY DEF Frames!vars
  <2>1. CASE ReadSome
    BY <2>1, ReadSomeArrives DEF Frames!Next
  <2>2. CASE ReadMessage
    BY <2>2, ReadMessageDelivers DEF Frames!Next
  <2>3. CASE ReadAgain
    BY <2>3 DEF ReadAgain
  <2>4. CASE UNCHANGED vars
    BY <2>4 DEF vars
  <2> QED
    BY <2>1, <2>2, <2>3, <2>4 DEF Next
<1> QED
  BY <1>1, <1>2, RecvInvariant, PTL DEF Spec, ImplementsFrames, Frames!Spec

-----------------------------------------------------------------------------
(***************************************************************************)
(* Both ends: proofs about Messages                                        *)
(***************************************************************************)

-----------------------------------------------------------------------------
(* The sender *)

(* A byte of the stream. *)
Byte == Nat \X Nat

(* A message is a sequence of the bytes pushed. *)
LEMMA MessageType ==
  ASSUME NEW msg \in Message
  PROVE  /\ msg.pushes \in Seq(PushLens) /\ msg.pushes \in Seq(Nat)
         /\ Len(msg.pushes) \in Nat \ {0}
         /\ \A n \in 1..Len(msg.pushes) : msg.pushes[n] \in Nat
<1>1. PICK l \in 1..MaxPushes : msg.pushes \in [1..l -> PushLens] BY DEF Message
<1>2. l \in Nat \ {0} BY <1>1, MessagesAssumption
<1>3. msg.pushes \in Seq(PushLens) /\ Len(msg.pushes) = l BY <1>1, <1>2
<1>4. \A n \in 1..l : msg.pushes[n] \in PushLens BY <1>1
<1>5. PushLens \subseteq Nat BY MessagesAssumption
<1>6. msg.pushes \in Seq(Nat)
  <2>1. msg.pushes \in [1..l -> Nat] BY <1>1, <1>5
  <2> QED BY <1>2, <2>1
<1> QED BY <1>2, <1>3, <1>4, <1>5, <1>6

(* What pushed adds up. *)
LEMMA PushedLemma ==
  ASSUME NEW msg \in Message
  PROVE  /\ pushed(msg) \in [0..Len(msg.pushes) -> Nat]
         /\ pushed(msg)[0] = 0
         /\ \A n \in 1..Len(msg.pushes) :
              pushed(msg)[n] = pushed(msg)[n - 1] + msg.pushes[n]
<1> DEFINE N == Len(msg.pushes)
           V == Nat
           c == 0
           F == [p \in V \X (1..N) |-> p[1] + msg.pushes[p[2]]]
           Is(g) == g = [n \in 0..N |-> IF n = 0 THEN c ELSE g[n - 1] + msg.pushes[n]]
<1>1. N \in Nat /\ c \in V /\ \A n \in 1..N : msg.pushes[n] \in Nat BY MessageType
<1>2. \A v \in V, n \in 1..N : F[<<v, n>>] = v + msg.pushes[n] BY <1>1
<1>3. Steps(F, V, N)
  <2> HIDE DEF F, N
  <2>1. \A v \in V, n \in 1..N : v + msg.pushes[n] \in V BY <1>1
  <2> QED BY <1>2, <2>1 DEF Steps
<1> HIDE DEF N, F, V, c
<1>4. PICK g : Recursive(g, V, c, F, N) BY <1>1, <1>3, RecursionLemma
<1>5. \A n \in 1..N : n - 1 \in 0..N /\ g[n - 1] \in V BY <1>1, <1>4 DEF Recursive
<1>6. \A n \in 1..N : g[n] = g[n - 1] + msg.pushes[n] BY <1>2, <1>4, <1>5 DEF Recursive
<1>7. Is(g)
  <2>1. \A n \in 0..N : g[n] = IF n = 0 THEN c ELSE g[n - 1] + msg.pushes[n]
    BY <1>1, <1>4, <1>6 DEF Recursive
  <2> QED BY <1>4, <2>1 DEF Recursive
<1> DEFINE q == pushed(msg)
<1>8. Is(q)
  <2>1. pushed(msg) = CHOOSE x : Is(x) BY DEF pushed, N, c
  <2> QED BY <1>7, <2>1
<1> HIDE DEF q
<1>9. /\ DOMAIN q = 0..N
      /\ q[0] = c
      /\ \A n \in 1..N : q[n] = q[n - 1] + msg.pushes[n]
  <2>1. DOMAIN q = 0..N BY <1>8
  <2>2. \A n \in 0..N : q[n] = IF n = 0 THEN c ELSE q[n - 1] + msg.pushes[n] BY <1>8
  <2>3. 0 \in 0..N /\ \A n \in 1..N : n \in 0..N /\ n # 0 BY <1>1
  <2> QED BY <2>1, <2>2, <2>3
<1>10. \A n \in 0..N : q[n] \in Nat
  <2> DEFINE A == {n \in 0..N : q[n] \in Nat}
  <2>1. 0 \in A BY <1>1, <1>9 DEF V
  <2>2. ASSUME NEW n \in 1..N, n - 1 \in A PROVE n \in A
    <3>1. q[n] = q[n - 1] + msg.pushes[n] /\ q[n - 1] \in Nat /\ msg.pushes[n] \in Nat
      BY <1>1, <1>9, <2>2
    <3>2. n \in 0..N BY <1>1
    <3> QED BY <3>1, <3>2
  <2> HIDE DEF A
  <2>3. \A n \in 0..N : n \in A BY <1>1, <2>1, <2>2, IntervalInduction
  <2> QED BY <2>3 DEF A
<1>11. q = [n \in 0..N |-> q[n]] BY <1>8, <1>9
<1>12. q \in [0..N -> Nat] BY <1>10, <1>11
<1> QED BY <1>9, <1>12 DEF q, N, c
-----------------------------------------------------------------------------
(* The blocks of the sender *)

(* A header has HeadSize bytes. *)
LEMMA HeadPodLemma ==
  ASSUME NEW x \in Nat
  PROVE  /\ headPod(x) \in Seq(Byte)
         /\ Len(headPod(x)) = HeadLen
         /\ \A i \in 1..HeadLen : headPod(x)[i] = <<0, x>>
<1>1. HeadLen \in Nat /\ <<0, x>> \in Byte BY HeadAssumption DEF Byte
<1> HIDE DEF Byte
<1> QED BY <1>1 DEF headPod

(* The blocks that a sender can hold: they have room for a header. *)
SendBlock ==
  {m \in [state : {"INIT"}, m_head : Seq(Byte), alloc : {TRUE}, data : Buffer(Byte)] :
     InBounds(m.data) /\ ~m.data.lock /\ HeadLen <= length(m.data)}

(* The block that the constructor makes for a sender holds its header only. *)
LEMMA NewSendBlockLemma ==
  ASSUME NEW s \in Nat
  PROVE  /\ NewSendBlock(s) \in SendBlock
         /\ length(NewSendBlock(s).data) = HeadLen
<1> DEFINE b == NewBuffer(s)
           t == tailData(b, headPod(0))
<1>1. b \in Buffer(Byte) /\ InBounds(b) /\ length(b) = 0 /\ ~b.lock BY NewBufferLemma
<1>2. headPod(0) \in Seq(Byte) /\ Len(headPod(0)) = HeadLen BY HeadPodLemma
<1> HIDE DEF b
<1>3. /\ t \in Buffer(Byte) /\ InBounds(t) /\ t.lock = b.lock
      /\ ~b.lock => length(t) = length(b) + Len(headPod(0))
  BY <1>1, <1>2, TailDataLemma
<1>4. NewSendBlock(s) = [state |-> "INIT", m_head |-> << >>, alloc |-> TRUE, data |-> t]
  <2>1. NewSendBlock(s) = [NewBlock EXCEPT !.alloc = TRUE, !.data = t] BY Zenon DEF NewSendBlock, b
  <2> HIDE DEF t
  <2> QED BY <2>1 DEF NewBlock
<1> HIDE DEF t
<1>5. length(t) = HeadLen /\ HeadLen \in Nat BY <1>1, <1>2, <1>3, HeadAssumption
<1>6. << >> \in Seq(Byte) BY EmptySeq
<1> QED BY <1>1, <1>3, <1>4, <1>5, <1>6 DEF SendBlock

(***************************************************************************)
(* push (block.cpp) appends the bytes and writes the new length into the   *)
(* header.                                                                 *)
(***************************************************************************)
LEMMA PushLemma ==
  ASSUME NEW m \in SendBlock, NEW bytes \in Seq(Byte)
  PROVE  LET w == push(m, bytes) IN
         /\ w \in SendBlock
         /\ length(w.data) = length(m.data) + Len(bytes)
         /\ \A i \in 1..HeadLen : w.data.buf[i] = <<0, length(w.data)>>
         /\ \A i \in (HeadLen + 1)..length(m.data) : w.data.buf[i] = m.data.buf[i]
         /\ \A i \in 1..Len(bytes) : w.data.buf[length(m.data) + i] = bytes[i]
<1> DEFINE d == m.data
           t == tailData(d, bytes)
           L == length(t)
           p == headPod(L)
           h == setHead(t, p)
           w == push(m, bytes)
<1>1. /\ m.state = "INIT" /\ m.m_head \in Seq(Byte) /\ m.alloc
      /\ d \in Buffer(Byte) /\ InBounds(d) /\ ~d.lock
      /\ HeadLen <= length(d)
      /\ m = [state |-> "INIT", m_head |-> m.m_head, alloc |-> TRUE, data |-> d]
  BY DEF SendBlock
<1>2. length(d) \in Nat /\ Len(bytes) \in Nat BY <1>1, LenProperties DEF length, Buffer
<1> HIDE DEF d
<1>3. /\ t \in Buffer(Byte) /\ InBounds(t) /\ t.lock = d.lock
      /\ ~d.lock =>
           /\ length(t) = length(d) + Len(bytes)
           /\ \A i \in 1..length(d) : t.buf[i] = d.buf[i]
           /\ \A i \in 1..Len(bytes) : t.buf[length(d) + i] = bytes[i]
  BY <1>1, TailDataLemma
<1>4. L = length(d) + Len(bytes) /\ L \in Nat /\ HeadLen <= L /\ ~t.lock
  BY <1>1, <1>2, <1>3, HeadAssumption
<1> HIDE DEF t
<1>5. p \in Seq(Byte) /\ Len(p) = HeadLen /\ \A i \in 1..HeadLen : p[i] = <<0, L>>
  BY <1>4, HeadPodLemma
<1>6. w = [state |-> "INIT", m_head |-> p, alloc |-> TRUE, data |-> h]
  BY <1>1 DEF push, encrypt, t, d
<1> HIDE DEF p
<1>7. /\ h \in Buffer(Byte) /\ InBounds(h) /\ ~h.lock /\ length(h) = length(t)
      /\ \A i \in 1..HeadLen : h.buf[i] = p[i]
      /\ \A i \in (HeadLen + 1)..length(t) : h.buf[i] = t.buf[i]
  <2>1. Len(p) <= length(t) BY <1>4, <1>5
  <2>2. /\ h \in Buffer(Byte) /\ InBounds(h) /\ ~h.lock /\ length(h) = length(t)
        /\ \A i \in 1..Len(p) : h.buf[i] = p[i]
        /\ \A i \in (Len(p) + 1)..length(t) : h.buf[i] = t.buf[i]
    BY <1>3, <1>4, <1>5, <2>1, SetHeadLemma
  <2> QED BY <1>5, <2>2
<1> HIDE DEF h, w
<1>8. w \in SendBlock /\ w.data = h BY <1>4, <1>5, <1>6, <1>7 DEF SendBlock
<1>9. \A i \in (HeadLen + 1)..length(d) : h.buf[i] = d.buf[i]
  <2> SUFFICES ASSUME NEW i \in (HeadLen + 1)..length(d) PROVE h.buf[i] = d.buf[i] OBVIOUS
  <2>1. i \in (HeadLen + 1)..length(t) /\ i \in 1..length(d) BY <1>2, <1>4, HeadAssumption
  <2> QED BY <1>1, <1>3, <1>7, <2>1
<1>10. \A i \in 1..Len(bytes) : h.buf[length(d) + i] = bytes[i]
  <2> SUFFICES ASSUME NEW i \in 1..Len(bytes) PROVE h.buf[length(d) + i] = bytes[i] OBVIOUS
  <2>1. length(d) + i \in (HeadLen + 1)..length(t) BY <1>1, <1>2, <1>4, HeadAssumption
  <2> QED BY <1>1, <1>3, <1>7, <2>1
<1>11. \A i \in 1..HeadLen : h.buf[i] = <<0, length(h)>> BY <1>5, <1>7
<1> QED BY <1>4, <1>7, <1>8, <1>9, <1>10, <1>11 DEF w, d

(* clone (block.cpp) copies the bytes into a buffer of its own. *)
LEMMA CloneLemma ==
  ASSUME NEW m \in SendBlock
  PROVE  /\ length(clone(m).data) = length(m.data)
         /\ clone(m).data.buf \in Seq(Byte)
         /\ \A i \in 1..length(m.data) : clone(m).data.buf[i] = m.data.buf[i]
<1> DEFINE d == m.data
           b == NewBuffer(d.maxLen)
           t == tailData(b, d.buf)
<1>1. m \in [state : {"INIT"}, m_head : Seq(Byte), alloc : {TRUE}, data : Buffer(Byte)]
      /\ d.maxLen \in Nat /\ d.buf \in Seq(Byte)
  BY DEF SendBlock, Buffer
<1>2. b \in Buffer(Byte) /\ InBounds(b) /\ length(b) = 0 /\ ~b.lock BY <1>1, NewBufferLemma
<1>3. clone(m).data = t BY <1>1 DEF clone
<1> HIDE DEF b
<1>4. /\ t \in Buffer(Byte)
      /\ ~b.lock => /\ length(t) = length(b) + Len(d.buf)
                    /\ \A i \in 1..Len(d.buf) : t.buf[length(b) + i] = d.buf[i]
  BY <1>1, <1>2, TailDataLemma
<1> HIDE DEF t
<1>5. length(t) = length(d) BY <1>1, <1>2, <1>4, LenProperties DEF length
<1>6. \A i \in 1..length(d) : t.buf[i] = d.buf[i]
  <2> SUFFICES ASSUME NEW i \in 1..length(d) PROVE t.buf[i] = d.buf[i] OBVIOUS
  <2>1. length(b) + i = i /\ i \in 1..Len(d.buf) BY <1>2 DEF length
  <2> QED BY <1>2, <1>4, <2>1
<1>7. t.buf \in Seq(Byte) BY <1>4 DEF Buffer
<1> QED BY <1>3, <1>5, <1>6, <1>7


(* m holds a message of n bytes whose header, if it has one, says how long it is. *)
Holding(m, k, n, encrypted) ==
  /\ m \in SendBlock
  /\ length(m.data) = HeadLen + n
  /\ encrypted => \A i \in 1..HeadLen : m.data.buf[i] = <<0, HeadLen + n>>
  /\ \A j \in 1..n : m.data.buf[HeadLen + j] = <<k, j>>

(* push() adds its bytes to the body. *)
LEMMA HoldingPush ==
  ASSUME NEW k \in Nat, NEW n \in Nat, NEW l \in Nat, NEW e, NEW m, Holding(m, k, n, e)
  PROVE  Holding(push(m, [j \in 1..l |-> <<k, n + j>>]), k, n + l, TRUE)
<1> DEFINE bytes == [j \in 1..l |-> <<k, n + j>>]
           w == push(m, bytes)
<1>1. bytes \in Seq(Byte) /\ Len(bytes) = l /\ \A j \in 1..l : bytes[j] = <<k, n + j>>
  <2>1. \A j \in 1..l : <<k, n + j>> \in Byte BY DEF Byte
  <2> HIDE DEF Byte
  <2> QED BY <2>1
<1>2. m \in SendBlock /\ length(m.data) = HeadLen + n /\ HeadLen \in Nat
  BY HeadAssumption DEF Holding
<1> HIDE DEF bytes
<1>3. /\ w \in SendBlock
      /\ length(w.data) = length(m.data) + Len(bytes)
      /\ \A i \in 1..HeadLen : w.data.buf[i] = <<0, length(w.data)>>
      /\ \A i \in (HeadLen + 1)..length(m.data) : w.data.buf[i] = m.data.buf[i]
      /\ \A i \in 1..Len(bytes) : w.data.buf[length(m.data) + i] = bytes[i]
  BY <1>1, <1>2, PushLemma
<1> HIDE DEF w
<1>4. length(w.data) = HeadLen + (n + l) BY <1>1, <1>2, <1>3
<1>5. ASSUME NEW j \in 1..(n + l) PROVE w.data.buf[HeadLen + j] = <<k, j>>
  <2>1. CASE j <= n
    <3>1. HeadLen + j \in (HeadLen + 1)..length(m.data) /\ j \in 1..n BY <1>2, <2>1
    <3> QED BY <1>3, <3>1 DEF Holding
  <2>2. CASE ~(j <= n)
    <3> DEFINE i == j - n
    <3>1. i \in 1..l /\ length(m.data) + i = HeadLen + j /\ n + i = j BY <1>2, <2>2
    <3> HIDE DEF i
    <3>2. w.data.buf[length(m.data) + i] = <<k, n + i>> BY <1>1, <1>3, <3>1
    <3> QED BY <3>1, <3>2
  <2> QED BY <2>1, <2>2
<1> QED BY <1>3, <1>4, <1>5 DEF Holding, w, bytes

(* What the calls of push build. *)
LEMMA BuildingLemma ==
  ASSUME NEW id \in Nat, NEW msg \in Message, NEW k \in Nat
  PROVE  \A n \in 0..Len(msg.pushes) :
           Holding(building(id, msg, k)[n], k, pushed(msg)[n], n > 0)
<1> DEFINE N == Len(msg.pushes)
           V == SendBlock
           c == NewSendBlock(id)
           chunk == [n \in 1..N |-> [j \in 1..msg.pushes[n] |-> <<k, pushed(msg)[n - 1] + j>>]]
           F == [p \in V \X (1..N) |-> push(p[1], chunk[p[2]])]
           Is(g) == g = [n \in 0..N |-> IF n = 0 THEN c ELSE push(g[n - 1],
                           [j \in 1..msg.pushes[n] |-> <<k, pushed(msg)[n - 1] + j>>])]
<1>1. /\ N \in Nat /\ \A n \in 1..N : msg.pushes[n] \in Nat
      /\ c \in V /\ length(c.data) = HeadLen
  BY MessageType, NewSendBlockLemma
<1>2. /\ \A n \in 0..N : pushed(msg)[n] \in Nat
      /\ pushed(msg)[0] = 0
      /\ \A n \in 1..N : pushed(msg)[n] = pushed(msg)[n - 1] + msg.pushes[n]
  BY PushedLemma
<1>3. \A n \in 1..N : n - 1 \in 0..N /\ n \in 0..N /\ pushed(msg)[n - 1] \in Nat
  BY <1>1, <1>2
<1> HIDE DEF N, V, c
<1>4. \A n \in 1..N : chunk[n] \in Seq(Byte)
  <2> SUFFICES ASSUME NEW n \in 1..N PROVE chunk[n] \in Seq(Byte) OBVIOUS
  <2> DEFINE x == pushed(msg)[n - 1]
             l == msg.pushes[n]
  <2>1. x \in Nat /\ l \in Nat BY <1>1, <1>3
  <2>2. chunk[n] = [j \in 1..l |-> <<k, x + j>>] OBVIOUS
  <2> HIDE DEF x, l, chunk
  <2>3. \A j \in 1..l : <<k, x + j>> \in Byte BY <2>1 DEF Byte
  <2> HIDE DEF Byte
  <2> QED BY <2>1, <2>2, <2>3
<1>5. \A v \in V, n \in 1..N : F[<<v, n>>] = push(v, chunk[n])
  <2> HIDE DEF chunk
  <2> QED OBVIOUS
<1>6. Steps(F, V, N)
  <2> HIDE DEF F, chunk
  <2>1. \A v \in V, n \in 1..N : push(v, chunk[n]) \in V BY <1>4, PushLemma DEF V
  <2> QED BY <1>5, <2>1 DEF Steps
<1>7. \A n \in 1..N : chunk[n] = [j \in 1..msg.pushes[n] |-> <<k, pushed(msg)[n - 1] + j>>]
  OBVIOUS
<1> HIDE DEF F, chunk
<1>8. PICK g : Recursive(g, V, c, F, N) BY <1>1, <1>6, RecursionLemma
<1>9. \A n \in 1..N : g[n] = push(g[n - 1], chunk[n]) BY <1>3, <1>5, <1>8 DEF Recursive
<1>10. Is(g)
  <2>1. \A n \in 0..N : g[n] = IF n = 0 THEN c ELSE push(g[n - 1],
                           [j \in 1..msg.pushes[n] |-> <<k, pushed(msg)[n - 1] + j>>])
    BY <1>1, <1>7, <1>8, <1>9 DEF Recursive
  <2> QED BY <1>8, <2>1 DEF Recursive
<1> DEFINE q == building(id, msg, k)
<1>11. Is(q)
  <2>1. building(id, msg, k) = CHOOSE x : Is(x) BY DEF building, N, c
  <2> QED BY <1>10, <2>1
<1> HIDE DEF q
<1>12. q[0] = c /\ \A n \in 1..N : q[n] = push(q[n - 1],
                           [j \in 1..msg.pushes[n] |-> <<k, pushed(msg)[n - 1] + j>>])
  <2>1. \A n \in 0..N : q[n] = IF n = 0 THEN c ELSE push(q[n - 1],
                           [j \in 1..msg.pushes[n] |-> <<k, pushed(msg)[n - 1] + j>>])
    BY <1>11
  <2>2. 0 \in 0..N /\ \A n \in 1..N : n \in 0..N /\ n # 0 BY <1>1
  <2> QED BY <2>1, <2>2
<1> DEFINE A == {n \in 0..N : Holding(q[n], k, pushed(msg)[n], n > 0)}
<1>13. 0 \in A
  <2>1. length(c.data) = HeadLen + 0 BY <1>1, HeadAssumption
  <2>2. Holding(c, k, 0, 0 > 0) BY <1>1, <2>1 DEF Holding, V
  <2>3. 0 \in 0..N BY <1>1
  <2> QED BY <1>2, <1>12, <2>2, <2>3
<1>14. ASSUME NEW n \in 1..N, n - 1 \in A PROVE n \in A
  <2> DEFINE x == pushed(msg)[n - 1]
             l == msg.pushes[n]
             e == (n - 1) > 0
             m == q[n - 1]
  <2>1. x \in Nat /\ l \in Nat /\ Holding(m, k, x, e) BY <1>1, <1>3, <1>14
  <2>2. q[n] = push(m, [j \in 1..l |-> <<k, x + j>>]) /\ pushed(msg)[n] = x + l
    BY <1>2, <1>12
  <2> HIDE DEF x, l, e, m
  <2>3. Holding(q[n], k, x + l, TRUE) BY <2>1, <2>2, HoldingPush
  <2>4. n \in 0..N /\ (n > 0) = TRUE BY <1>1
  <2>5. Holding(q[n], k, pushed(msg)[n], n > 0) BY <2>2, <2>3, <2>4
  <2> QED BY <2>4, <2>5
<1> HIDE DEF A
<1>15. \A n \in 0..N : n \in A BY <1>1, <1>13, <1>14, IntervalInduction
<1> QED BY <1>15 DEF A, q, N

(* What is sent of message k: a header that says how long it is, and its bytes. *)
LEMMA SentLemma ==
  ASSUME NEW id \in Nat, NEW msg \in Message, NEW k \in Nat
  PROVE  LET n == pushed(msg)[Len(msg.pushes)]
             s == sent(id, msg, k).data.buf
         IN  /\ n \in Nat
             /\ s \in Seq(Byte)
             /\ Len(s) = HeadLen + n
             /\ \A i \in 1..HeadLen : s[i] = <<0, HeadLen + n>>
             /\ \A j \in 1..n : s[HeadLen + j] = <<k, j>>
<1> DEFINE N == Len(msg.pushes)
           n == pushed(msg)[N]
           b == building(id, msg, k)[N]
           s == sent(id, msg, k).data.buf
<1>1. N \in 0..N /\ N > 0 BY MessageType
<1>2. n \in Nat BY <1>1, PushedLemma
<1>3. Holding(b, k, n, N > 0) BY <1>1, BuildingLemma
<1>4. sent(id, msg, k) = b \/ sent(id, msg, k) = clone(b) BY DEF sent
<1> HIDE DEF N, n, b
<1>5. /\ b \in SendBlock
      /\ length(b.data) = HeadLen + n
      /\ \A i \in 1..HeadLen : b.data.buf[i] = <<0, HeadLen + n>>
      /\ \A j \in 1..n : b.data.buf[HeadLen + j] = <<k, j>>
  BY <1>1, <1>3 DEF Holding
<1>6. /\ s \in Seq(Byte) /\ Len(s) = HeadLen + n
      /\ \A i \in 1..(HeadLen + n) : s[i] = b.data.buf[i]
  <2>1. CASE s = b.data.buf
    <3>1. b.data.buf \in Seq(Byte) BY <1>5 DEF SendBlock, Buffer
    <3> HIDE DEF s
    <3> QED BY <1>5, <2>1, <3>1 DEF length
  <2>2. CASE s = clone(b).data.buf
    <3> HIDE DEF s
    <3>1. /\ length(clone(b).data) = length(b.data)
          /\ clone(b).data.buf \in Seq(Byte)
          /\ \A i \in 1..length(b.data) : clone(b).data.buf[i] = b.data.buf[i]
      BY <1>5, CloneLemma
    <3>2. Len(clone(b).data.buf) = length(b.data) BY <3>1 DEF length
    <3> QED BY <1>5, <2>2, <3>1, <3>2
  <2> QED BY <1>4, <2>1, <2>2
<1> HIDE DEF s
<1>7. \A i \in 1..HeadLen : s[i] = <<0, HeadLen + n>>
  <2>1. \A i \in 1..HeadLen : i \in 1..(HeadLen + n) BY <1>2, HeadAssumption
  <2> QED BY <1>5, <1>6, <2>1
<1>8. \A j \in 1..n : s[HeadLen + j] = <<k, j>>
  <2>1. \A j \in 1..n : HeadLen + j \in 1..(HeadLen + n) BY <1>2, HeadAssumption
  <2> QED BY <1>5, <1>6, <2>1
<1> QED BY <1>2, <1>6, <1>7, <1>8 DEF s, n, N
-----------------------------------------------------------------------------
(* What the sender writes *)

MessageList == [1..MaxMessages -> Message]

(* The number of bytes pushed to msg. *)
Size(msg) == pushed(msg)[Len(msg.pushes)]

(* s is what a sender writes for message k, msg. *)
Encoded(s, msg, k) ==
  /\ s \in Seq(Byte)
  /\ Len(s) = HeadLen + Size(msg)
  /\ \A i \in 1..HeadLen : s[i] = <<0, HeadLen + Size(msg)>>
  /\ \A j \in 1..Size(msg) : s[HeadLen + j] = <<k, j>>

(* What is sent of a message: a header that tells the length, and the body. *)
LEMMA SentEncoded ==
  ASSUME NEW id \in Nat, NEW ms \in MessageList, NEW k \in 1..MaxMessages
  PROVE  /\ Size(ms[k]) \in Nat
         /\ Encoded(sent(id, ms[k], k).data.buf, ms[k], k)
<1>1. ms[k] \in Message /\ k \in Nat BY MessagesAssumption DEF MessageList
<1> DEFINE msg == ms[k]
<1> HIDE DEF msg
<1> QED BY <1>1, SentLemma DEF Encoded, Size, msg

(* What is written: the blocks sent, one after the other. *)
blocks(id, ms) == [k \in 1..MaxMessages |-> sent(id, ms[k], k).data.buf]

(* The sender writes the blocks one after the other. *)
LEMMA WrittenLemma ==
  ASSUME NEW id \in Nat, NEW ms \in MessageList
  PROVE  /\ << >> \in Seq(Byte) /\ MaxMessages \in Nat
         /\ Pieces(blocks(id, ms), Byte, MaxMessages)
         /\ Concat(written(id, ms), << >>, blocks(id, ms), MaxMessages)
<1> DEFINE N == MaxMessages
           c == << >>
           e == blocks(id, ms)
           Is(g) == g = [k \in 0..N |-> IF k = 0 THEN c
                                        ELSE g[k - 1] \o sent(id, ms[k], k).data.buf]
<1>1. N \in Nat /\ c \in Seq(Byte) BY MessagesAssumption, EmptySeq
<1>2. \A k \in 1..N : e[k] = sent(id, ms[k], k).data.buf BY DEF blocks
<1> HIDE DEF N, c, e
<1>3. Pieces(e, Byte, N) BY <1>2, SentEncoded DEF Encoded, Pieces, N
<1>4. \A g : Is(g) <=> Concat(g, c, e, N)
  <2>1. \A k \in 0..N : k = 0 \/ k \in 1..N BY <1>1
  <2> QED BY <1>2, <2>1 DEF Concat
<1>5. PICK g : Concat(g, c, e, N) BY <1>1, <1>3, ConcatExists
<1>6. written(id, ms) = CHOOSE x : Is(x) BY DEF written, N, c
<1>7. Is(written(id, ms)) BY <1>4, <1>5, <1>6
<1> QED BY <1>1, <1>3, <1>4, <1>7 DEF N, c, e

(* Every prefix of the stream is a sequence of bytes. *)
LEMMA WrittenTypes ==
  ASSUME NEW id \in Nat, NEW ms \in MessageList
  PROVE  /\ written(id, ms)[0] = << >>
         /\ \A k \in 0..MaxMessages : written(id, ms)[k] \in Seq(Byte)
         /\ \A m \in 0..MaxMessages : \A k \in 0..m :
              Begins(written(id, ms)[m], written(id, ms)[k])
<1> DEFINE w == written(id, ms)
           e == blocks(id, ms)
<1>1. /\ << >> \in Seq(Byte) /\ MaxMessages \in Nat
      /\ Pieces(e, Byte, MaxMessages)
      /\ Concat(w, << >>, e, MaxMessages)
  BY WrittenLemma
<1> HIDE DEF w, e
<1>2. /\ w[0] = << >>
      /\ \A k \in 1..MaxMessages : w[k] = w[k - 1] \o e[k]
      /\ \A k \in 0..MaxMessages : w[k] \in Seq(Byte)
  BY <1>1, ConcatLemma, Zenon
<1>3. \A m \in 0..MaxMessages : \A k \in 0..m : Begins(w[m], w[k])
  BY <1>1, ConcatPrefix, Zenon
<1> QED BY <1>2, <1>3 DEF w

(***************************************************************************)
(* Message k in the bytes of all messages: after those of the messages     *)
(* before it, a header that says how long it is, then what was pushed.     *)
(***************************************************************************)
LEMMA MessageBytes ==
  ASSUME NEW id \in Nat, NEW ms \in MessageList, NEW k \in 1..MaxMessages
  PROVE  LET w == written(id, ms)
             W == w[MaxMessages]
             q == Len(w[k - 1])
             n == Size(ms[k])
         IN  /\ q \in Nat /\ n \in Nat
             /\ Len(w[k]) = q + HeadLen + n
             /\ Len(w[k]) <= Len(W)
             /\ \A i \in 1..HeadLen : W[q + i] = <<0, HeadLen + n>>
             /\ \A j \in 1..n : W[q + HeadLen + j] = <<k, j>>
<1> DEFINE w == written(id, ms)
           W == w[MaxMessages]
           e == blocks(id, ms)
           q == Len(w[k - 1])
           n == Size(ms[k])
           s == e[k]
<1>1. /\ << >> \in Seq(Byte) /\ MaxMessages \in Nat
      /\ Pieces(e, Byte, MaxMessages)
      /\ Concat(w, << >>, e, MaxMessages)
  BY WrittenLemma
<1>2. n \in Nat /\ Encoded(s, ms[k], k) BY SentEncoded DEF blocks
<1> HIDE DEF w, e
<1>3. /\ q \in Nat
      /\ Len(w[k]) = q + Len(s)
      /\ Len(w[k]) <= Len(W)
      /\ \A i \in 1..Len(s) : W[q + i] = s[i]
  <2>1. PieceAt(w, e, MaxMessages, k) BY <1>1, ConcatPiece
  <2> QED BY <2>1 DEF PieceAt
<1>4. HeadLen \in Nat BY HeadAssumption
<1> HIDE DEF W, q, s
<1>5. /\ Len(s) = HeadLen + n
      /\ \A i \in 1..HeadLen : s[i] = <<0, HeadLen + n>>
      /\ \A j \in 1..n : s[HeadLen + j] = <<k, j>>
  BY <1>2 DEF Encoded
<1> HIDE DEF n
<1>6. Len(w[k]) = q + HeadLen + n BY <1>2, <1>3, <1>4, <1>5
<1>7. \A i \in 1..HeadLen : W[q + i] = <<0, HeadLen + n>>
  <2>1. \A i \in 1..HeadLen : i \in 1..Len(s) BY <1>2, <1>4, <1>5
  <2> QED BY <1>3, <1>5, <2>1
<1>8. \A j \in 1..n : W[q + HeadLen + j] = <<k, j>>
  <2> SUFFICES ASSUME NEW j \in 1..n PROVE W[q + HeadLen + j] = <<k, j>> OBVIOUS
  <2>1. HeadLen + j \in 1..Len(s) /\ q + (HeadLen + j) = q + HeadLen + j
    BY <1>2, <1>3, <1>4, <1>5
  <2>2. W[q + (HeadLen + j)] = s[HeadLen + j] BY <1>3, <2>1
  <2> QED BY <1>5, <2>1, <2>2
<1> QED BY <1>2, <1>3, <1>6, <1>7, <1>8 DEF w, W, q, n
-----------------------------------------------------------------------------
(* Both ends *)

(* The stream is what the sender wrote, and stays it. *)
StreamInv ==
  /\ session \in Nat
  /\ messages \in MessageList
  /\ Len(written(session, messages)[MaxMessages]) >= StreamLen
  /\ stream = SubSeq(written(session, messages)[MaxMessages], 1, StreamLen)
  /\ frameLen = [i \in 1..StreamLen |-> lenAt(i)]

(* The bytes of message k in the stream. *)
LEMMA StreamBytes ==
  ASSUME StreamInv
  PROVE  LET W == written(session, messages)[MaxMessages] IN
         /\ W \in Seq(Byte) /\ Len(W) \in Nat
         /\ StreamLen \in Nat /\ StreamLen <= Len(W)
         /\ \A i \in 1..StreamLen : stream[i] = W[i]
         /\ \A i \in 1..StreamLen :
              frameLen[i] = IF W[i][1] = 0 THEN W[i][2] ELSE HeadLen
<1> DEFINE W == written(session, messages)[MaxMessages]
<1>1. MaxMessages \in 0..MaxMessages /\ StreamLen \in Nat
  BY MessagesAssumption, RecvAssumption
<1>2. W \in Seq(Byte) BY <1>1, WrittenTypes DEF StreamInv
<1>3. Len(W) \in Nat BY <1>2, LenProperties
<1>4. StreamLen <= Len(W) BY <1>1, <1>3 DEF StreamInv
<1>5. stream = SubSeq(W, 1, StreamLen) BY DEF StreamInv
<1>6. \A i \in 1..StreamLen : frameLen[i] = IF stream[i][1] = 0 THEN stream[i][2] ELSE HeadLen
  BY DEF StreamInv, lenAt
<1> HIDE DEF W
<1>7. \A i \in 1..StreamLen : stream[i] = W[i]
  <2>1. 0 + StreamLen <= Len(W) /\ 0 + 1 = 1 /\ 0 + StreamLen = StreamLen BY <1>1, <1>4
  <2>2. \A i \in 1..StreamLen : SubSeq(W, 0 + 1, 0 + StreamLen)[i] = W[0 + i]
    BY <1>1, <1>2, <2>1, WindowLemma
  <2>3. \A i \in 1..StreamLen : 0 + i = i BY <1>1
  <2> QED BY <1>5, <2>1, <2>2, <2>3
<1> QED BY <1>1, <1>2, <1>3, <1>4, <1>6, <1>7 DEF W

(* The byte after message k, and after the k-th block delivered. *)
Written(k) == Len(written(session, messages)[k])
After(k)   == IF k = 0 THEN 1 ELSE FrameEnd(k)

(* A header that starts where message k + 1 starts says how long it is. *)
LEMMA HeaderRead ==
  ASSUME StreamInv, NEW k \in 1..MaxMessages, Written(k - 1) + 1 <= StreamLen
  PROVE  /\ Written(k - 1) \in Nat /\ Written(k) \in Nat
         /\ Written(k) = Written(k - 1) + frameLen[Written(k - 1) + 1]
         /\ Size(messages[k]) \in Nat
         /\ frameLen[Written(k - 1) + 1] = HeadLen + Size(messages[k])
<1> DEFINE W == written(session, messages)[MaxMessages]
           q == Written(k - 1)
           n == Size(messages[k])
<1>1. /\ q \in Nat /\ n \in Nat
      /\ Written(k) = q + HeadLen + n
      /\ \A i \in 1..HeadLen : W[q + i] = <<0, HeadLen + n>>
  BY MessageBytes DEF StreamInv, Written
<1>2. HeadLen \in Nat \ {0} BY HeadAssumption
<1>3. StreamLen \in Nat
      /\ \A i \in 1..StreamLen : frameLen[i] = IF W[i][1] = 0 THEN W[i][2] ELSE HeadLen
  BY StreamBytes
<1> HIDE DEF W, q, n
<1>4. q + 1 \in 1..StreamLen /\ 1 \in 1..HeadLen BY <1>1, <1>2, <1>3 DEF q
<1>5. W[q + 1] = <<0, HeadLen + n>> BY <1>1, <1>4
<1>6. W[q + 1][1] = 0 /\ W[q + 1][2] = HeadLen + n BY <1>5
<1>7. frameLen[q + 1] = HeadLen + n BY <1>3, <1>4, <1>6
<1>8. Written(k) \in Nat /\ Written(k) = q + frameLen[q + 1] BY <1>1, <1>2, <1>7
<1> QED BY <1>1, <1>7, <1>8 DEF q, n

(* More messages are more bytes. *)
LEMMA WrittenGrows ==
  ASSUME StreamInv, NEW m \in 0..MaxMessages, NEW k \in 0..m
  PROVE  Written(k) <= Written(m) /\ Written(k) \in Nat /\ Written(m) \in Nat
<1>1. k \in 0..MaxMessages BY MessagesAssumption
<1>2. Begins(written(session, messages)[m], written(session, messages)[k])
  BY WrittenTypes DEF StreamInv
<1>3. /\ written(session, messages)[m] \in Seq(Byte)
      /\ written(session, messages)[k] \in Seq(Byte)
  BY <1>1, WrittenTypes DEF StreamInv
<1> QED BY <1>2, <1>3, LenProperties DEF Begins, Written

(* The blocks delivered are the messages, byte for byte where they lie. *)
LEMMA Aligned ==
  ASSUME StreamInv, RecvInv
  PROVE  \A k \in 0..Len(delivered) : k <= MaxMessages /\ After(k) = Written(k) + 1
<1> DEFINE D == Len(delivered)
           A == {k \in 0..D : k <= MaxMessages /\ After(k) = Written(k) + 1}
<1>1. D \in Nat /\ MaxMessages \in Nat
  BY MessagesAssumption, LenProperties DEF RecvInv, TypeOK
<1>2. 0 \in A
  <2>1. Written(0) = 0
    <3>1. written(session, messages)[0] = << >> BY WrittenTypes DEF StreamInv
    <3> QED BY <3>1 DEF Written
  <2>2. After(0) = Written(0) + 1 BY <2>1 DEF After
  <2>3. 0 \in 0..D /\ 0 <= MaxMessages BY <1>1
  <2> QED BY <2>2, <2>3
<1>3. ASSUME NEW k \in 1..D, k - 1 \in A PROVE k \in A
  <2> DEFINE p == Written(k - 1) + 1
  <2>1. /\ k - 1 \in Nat /\ k - 1 <= MaxMessages /\ k \in 0..D /\ k # 0
        /\ After(k - 1) = p
    BY <1>1, <1>3
  <2>2. delivered[k].m_head[1] = p
    <3>1. IsFrame(k, IF k = 1 THEN 1 ELSE FrameEnd(k - 1)) BY DEF RecvInv, FramesIntact
    <3>2. (IF k = 1 THEN 1 ELSE FrameEnd(k - 1)) = p
      <4>1. CASE k = 1
        <5>1. After(0) = p BY <2>1, <4>1
        <5> QED BY <4>1, <5>1 DEF After
      <4>2. CASE k # 1
        <5>1. k - 1 # 0 BY <1>1, <4>2
        <5> QED BY <2>1, <4>2, <5>1 DEF After
      <4> QED BY <4>1, <4>2
    <3>3. IsFrame(k, p) BY <3>1, <3>2
    <3>4. Written(k - 1) \in Nat
      <4>1. k - 1 \in 0..MaxMessages /\ k - 1 \in 0..(k - 1) BY <1>1, <2>1
      <4> QED BY <4>1, WrittenGrows
    <3>5. 1 \in 1..HeadLen /\ p + 1 - 1 = p BY <3>4, HeadAssumption
    <3> HIDE DEF p
    <3>6. delivered[k].m_head[1] = p + 1 - 1 BY <3>3, <3>5 DEF IsFrame
    <3> QED BY <3>5, <3>6
  <2>3. p \in 1..StreamLen BY <2>2 DEF RecvInv
  <2>4. k \in 1..MaxMessages
    <3>1. CASE k - 1 = MaxMessages
      <4>1. Written(MaxMessages) \in Nat /\ StreamLen <= Written(MaxMessages) /\ StreamLen \in Nat
        BY StreamBytes DEF Written
      <4>2. Written(MaxMessages) + 1 <= StreamLen BY <2>3, <3>1
      <4> QED BY <4>1, <4>2
    <3>2. CASE k - 1 # MaxMessages BY <1>1, <2>1, <3>2
    <3> QED BY <3>1, <3>2
  <2>5. Written(k - 1) + 1 <= StreamLen BY <2>3
  <2>6. /\ Written(k - 1) \in Nat /\ Written(k) \in Nat
        /\ Written(k) = Written(k - 1) + frameLen[Written(k - 1) + 1]
        /\ Size(messages[k]) \in Nat
        /\ frameLen[Written(k - 1) + 1] = HeadLen + Size(messages[k])
    BY <2>4, <2>5, HeaderRead
  <2>7. After(k) = p + frameLen[p]
    <3> HIDE DEF p
    <3> QED BY <2>1, <2>2 DEF After, FrameEnd
  <2>8. frameLen[p] \in Nat BY <2>6, HeadAssumption
  <2>9. After(k) = Written(k) + 1
    <3> DEFINE q == Written(k - 1)
    <3>1. q \in Nat /\ After(k) = q + 1 + frameLen[q + 1] /\ Written(k) = q + frameLen[q + 1]
          /\ frameLen[q + 1] \in Nat
      BY <2>6, <2>7, <2>8
    <3> HIDE DEF q
    <3> QED BY <3>1
  <2>10. k <= MaxMessages BY <2>4
  <2> QED BY <2>1, <2>9, <2>10
<1> HIDE DEF A
<1>4. \A k \in 0..D : k \in A BY <1>1, <1>2, <1>3, IntervalInduction
<1> QED BY <1>4 DEF A


(* All bytes of the blocks delivered have arrived. *)
LEMMA NextHeadArrived ==
  ASSUME RecvInv
  PROVE  /\ NextHead = After(Len(delivered))
         /\ arrived \in Nat /\ arrived <= StreamLen
         /\ NextHead \in Nat \ {0}
         /\ NextHead - 1 <= arrived
<1> DEFINE y == length(m_bufferRecv)
           z == length(m_waitMessage.data)
<1>1. delivered \in Seq(Block) /\ Len(delivered) \in Nat
  BY LenProperties DEF RecvInv, TypeOK
<1>2. NextHead = After(Len(delivered))
  <2>1. delivered = << >> <=> Len(delivered) = 0 BY <1>1
  <2> QED BY <2>1 DEF NextHead, After
<1>3. NextHead \in Nat \ {0} BY NextHeadType
<1>4. arrived \in Nat /\ arrived <= StreamLen BY DEF RecvInv, TypeOK, BufferInv
<1>5. y \in Nat /\ z \in Nat
  BY LenProperties DEF RecvInv, TypeOK, Block, Buffer, length
<1>6. NextHead - 1 <= arrived
  <2>1. CASE m_waitMessage.state = "INIT"
    <3>1. arrived - y = NextHead - 1 BY <2>1 DEF RecvInv, HeadInv
    <3> HIDE DEF y
    <3> QED BY <1>3, <1>4, <1>5, <3>1
  <2>2. CASE m_waitMessage.state = "BODY"
    <3>1. arrived - y = NextHead - 1 + HeadLen + z BY <2>2 DEF RecvInv, BodyInv
    <3> HIDE DEF y, z
    <3> QED BY <1>3, <1>4, <1>5, <3>1, HeadAssumption
  <2>3. m_waitMessage.state \in {"INIT", "BODY"} BY DEF RecvInv, TypeOK, Block
  <2> QED BY <2>1, <2>2, <2>3
<1> QED BY <1>2, <1>3, <1>4, <1>6

(* A block that was delivered holds the body of its message. *)
LEMMA BodiesDelivered ==
  ASSUME StreamInv, RecvInv, NEW k \in 1..Len(delivered)
  PROVE  [i \in 1..length(delivered[k].data) |-> stream[delivered[k].data.buf[i]]]
           = payload(messages[k], k)
<1> DEFINE D == Len(delivered)
           W == written(session, messages)[MaxMessages]
           q == Written(k - 1)
           p == q + 1
           n == Size(messages[k])
           b == delivered[k].data.buf
<1>1. D \in Nat /\ MaxMessages \in Nat /\ HeadLen \in Nat \ {0}
  BY MessagesAssumption, HeadAssumption, LenProperties DEF RecvInv, TypeOK
<1>2. /\ k - 1 \in 0..D /\ k \in 0..D /\ D \in 0..D /\ k # 0 BY <1>1
<1>3. /\ k <= MaxMessages /\ After(k - 1) = Written(k - 1) + 1
      /\ After(k) = Written(k) + 1
      /\ D <= MaxMessages /\ After(D) = Written(D) + 1
  BY <1>2, Aligned
<1>4. k \in 1..MaxMessages /\ D \in 0..MaxMessages /\ k \in 0..D BY <1>1, <1>2, <1>3
<1>5. /\ q \in Nat /\ n \in Nat
      /\ Written(k) = q + HeadLen + n
      /\ \A j \in 1..n : W[q + HeadLen + j] = <<k, j>>
  BY <1>4, MessageBytes DEF StreamInv, Written
<1>6. Written(k) <= StreamLen
  <2>1. Written(k) <= Written(D) /\ Written(D) \in Nat /\ Written(k) \in Nat BY <1>4, WrittenGrows
  <2>2. /\ arrived \in Nat /\ arrived <= StreamLen /\ NextHead = After(D)
        /\ NextHead - 1 <= arrived
    BY NextHeadArrived
  <2>3. StreamLen \in Nat BY RecvAssumption
  <2> QED BY <1>3, <2>1, <2>2, <2>3
<1>7. q + 1 <= StreamLen /\ StreamLen \in Nat BY <1>1, <1>5, <1>6, RecvAssumption
<1>8. frameLen[p] = HeadLen + n BY <1>4, <1>7, HeaderRead
<1>9. Len(b) = n /\ \A i \in 1..n : b[i] = q + HeadLen + i
  <2>1. IsFrame(k, IF k = 1 THEN 1 ELSE FrameEnd(k - 1)) BY DEF RecvInv, FramesIntact
  <2>2. (IF k = 1 THEN 1 ELSE FrameEnd(k - 1)) = p
    <3>1. CASE k = 1
      <4>1. After(0) = p BY <1>3, <3>1
      <4> QED BY <3>1, <4>1 DEF After
    <3>2. CASE k # 1
      <4>1. k - 1 # 0 BY <1>1, <3>2
      <4> QED BY <1>3, <3>2, <4>1 DEF After
    <3> QED BY <3>1, <3>2
  <2>3. IsFrame(k, p) BY <2>1, <2>2
  <2> HIDE DEF p
  <2>4. /\ Len(b) = frameLen[p] - HeadLen
        /\ \A i \in 1..(frameLen[p] - HeadLen) : b[i] = p + HeadLen + i - 1
    BY <2>3 DEF IsFrame
  <2>5. frameLen[p] - HeadLen = n BY <1>1, <1>5, <1>8
  <2>6. \A i \in 1..n : p + HeadLen + i - 1 = q + HeadLen + i BY <1>1, <1>5 DEF p
  <2> QED BY <2>4, <2>5, <2>6
<1>10. /\ StreamLen <= Len(W) /\ \A i \in 1..StreamLen : stream[i] = W[i]
  BY StreamBytes
<1>11. length(delivered[k].data) = n BY <1>9 DEF length
<1>12. payload(messages[k], k) = [j \in 1..n |-> <<k, j>>] BY DEF payload, Size
<1> HIDE DEF W, q, p, n
<1>13. \A i \in 1..n : stream[b[i]] = <<k, i>>
  <2> SUFFICES ASSUME NEW i \in 1..n PROVE stream[b[i]] = <<k, i>> OBVIOUS
  <2>1. q + HeadLen + i \in 1..StreamLen BY <1>1, <1>5, <1>6, <1>7
  <2>2. W[q + HeadLen + i] = <<k, i>> BY <1>5
  <2>3. stream[q + HeadLen + i] = W[q + HeadLen + i] BY <1>10, <2>1
  <2> QED BY <1>9, <2>2, <2>3
<1> QED BY <1>11, <1>12, <1>13

(* Where a read is started, the messages that arrived were delivered. *)
LEMMA ArrivedDelivered ==
  ASSUME StreamInv, RecvInv, pc = "read", NEW k \in 1..MaxMessages
  PROVE  Written(k) <= arrived <=> k <= Len(delivered)
<1> DEFINE D == Len(delivered)
<1>1. D \in Nat /\ MaxMessages \in Nat /\ HeadLen \in Nat \ {0}
  BY MessagesAssumption, HeadAssumption, LenProperties DEF RecvInv, TypeOK
<1>2. D \in 0..D BY <1>1
<1>3. D <= MaxMessages /\ After(D) = Written(D) + 1 BY <1>2, Aligned
<1>4. /\ arrived \in Nat /\ arrived <= StreamLen /\ NextHead = After(D)
      /\ NextHead - 1 <= arrived
  BY NextHeadArrived
<1>5. D \in 0..MaxMessages /\ k \in 0..MaxMessages /\ k \in Nat BY <1>1, <1>3
<1> HIDE DEF D
<1>6. ASSUME k <= D PROVE Written(k) <= arrived
  <2>1. k \in 0..D BY <1>1, <1>5, <1>6
  <2>2. Written(k) <= Written(D) /\ Written(k) \in Nat /\ Written(D) \in Nat
    BY <1>5, <2>1, WrittenGrows
  <2> QED BY <1>3, <1>4, <2>2
<1>7. ASSUME ~(k <= D), Written(k) <= arrived PROVE FALSE
  <2> DEFINE m == D + 1
  <2>1. m \in 1..MaxMessages /\ m \in 0..k /\ m - 1 = D BY <1>1, <1>5, <1>7
  <2> HIDE DEF m
  <2>2. Written(m) <= Written(k) /\ Written(m) \in Nat /\ Written(k) \in Nat
    BY <1>5, <2>1, WrittenGrows
  <2>3. Written(m) <= arrived BY <1>4, <1>7, <2>2
  <2>4. Written(D) \in Nat /\ Written(D) + 1 <= Written(m)
    <3>1. /\ Written(D) \in Nat /\ Size(messages[m]) \in Nat
          /\ Written(m) = Written(D) + HeadLen + Size(messages[m])
      BY <2>1, MessageBytes DEF StreamInv, Written
    <3> QED BY <1>1, <3>1
  <2>5. StreamLen \in Nat BY RecvAssumption
  <2>6. NextHead = Written(D) + 1 /\ NextHead <= arrived /\ NextHead <= StreamLen
    BY <1>3, <1>4, <2>2, <2>3, <2>4, <2>5
  <2>7. arrived < NextHead + frameLen[NextHead] - 1
    BY <2>6, InvNothingHeldBack DEF NothingHeldBack
  <2>8. Written(m - 1) + 1 <= StreamLen BY <2>1, <2>6
  <2>9. /\ Written(m) = Written(m - 1) + frameLen[Written(m - 1) + 1]
        /\ Size(messages[m]) \in Nat
        /\ frameLen[Written(m - 1) + 1] = HeadLen + Size(messages[m])
    BY <2>1, <2>8, HeaderRead
  <2>10. Written(m) = Written(D) + frameLen[NextHead] /\ frameLen[NextHead] \in Nat
    BY <1>1, <2>1, <2>6, <2>9
  <2> QED BY <1>4, <2>2, <2>3, <2>4, <2>6, <2>7, <2>10
<1> QED BY <1>6, <1>7 DEF D

(* RecvInv and the stream of the sender imply MessagesDelivered. *)
LEMMA InvMessagesDelivered == StreamInv /\ RecvInv => MessagesDelivered
BY BodiesDelivered, ArrivedDelivered DEF MessagesDelivered, Written

(***************************************************************************)
(* What the sender writes does not change while it is received.            *)
(***************************************************************************)
LEMMA MessagesInvariant == MessagesSpec => [](StreamInv /\ RecvInv)
<1>1. MessagesInit => StreamInv /\ RecvInv
  <2> SUFFICES ASSUME MessagesInit PROVE StreamInv /\ RecvInv OBVIOUS
  <2>1. session \in Nat BY MessagesAssumption DEF MessagesInit
  <2> QED BY <2>1, InitInv DEF MessagesInit, StreamInv, MessageList
<1>2. StreamInv /\ RecvInv /\ [MessagesNext]_allVars => StreamInv' /\ RecvInv'
  <2> SUFFICES ASSUME StreamInv, RecvInv, [MessagesNext]_allVars
               PROVE  StreamInv' /\ RecvInv'
    OBVIOUS
  <2>1. [Next]_vars /\ UNCHANGED sendVars BY DEF MessagesNext, allVars
  <2>2. RecvInv' BY <2>1, StepInv
  <2>3. frameLen' = frameLen
    BY <2>1 DEF Next, ReadSome, ReadMessage, ReadAgain, vars
  <2>4. session' = session /\ messages' = messages /\ stream' = stream BY <2>1 DEF sendVars
  <2>5. \A i : lenAt(i)' = lenAt(i) BY <2>4 DEF lenAt
  <2>6. StreamInv' BY <2>3, <2>4, <2>5 DEF StreamInv, lenAt
  <2> QED BY <2>2, <2>6
<1> QED BY <1>1, <1>2, PTL DEF MessagesSpec

(***************************************************************************)
(* Whatever one end pushes to its messages and sends, the other end is     *)
(* given those messages, byte for byte and in order, and is given each one *)
(* as soon as its last byte has arrived: NetBlock::encrypt and             *)
(* NetBlock::recv agree on the length of a frame, for any number and       *)
(* length of calls of push(), of messages, and of pieces that TCP makes of *)
(* them.                                                                   *)
(***************************************************************************)
THEOREM MessagesAreDelivered == MessagesSpec => []MessagesDelivered
BY InvMessagesDelivered, MessagesInvariant, PTL
=============================================================================
