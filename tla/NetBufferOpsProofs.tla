------------------------- MODULE NetBufferOpsProofs -------------------------
(***************************************************************************)
(* Proofs about NetBufferOps, for every capacity and every sequence of     *)
(* calls of any size.                                                      *)
(***************************************************************************)
EXTENDS NetBufferOps, CommonLemmas

(* The inductive invariant.  Without HeadAfterRead a prepended byte is the  *)
(* next one to be read, which is when the buffer is a queue.                *)
OpsInv ==
  /\ TypeOK
  /\ Bounds
  /\ ~peer.lock
  /\ ~HeadAfterRead => Fifo

(* A run of n numbered bytes is a sequence. *)
LEMMA BytesLemma ==
  ASSUME NEW from \in Int, NEW n \in Nat
  PROVE  /\ Bytes(from, n) \in Seq(Int)
         /\ Len(Bytes(from, n)) = n
         /\ \A i \in 1..n : Bytes(from, n)[i] = from + i
BY DEF Bytes

(* Facts that every step uses. *)
LEMMA OpsFacts ==
  ASSUME OpsInv
  PROVE  /\ b \in Buffer(Int) /\ peer \in Buffer(Int) /\ given \in Int /\ taken \in Int
         /\ InBounds(b) /\ InBounds(peer)
         /\ length(b) \in Nat /\ b.readPos \in Nat /\ needReadLength(b) \in Nat
         /\ ~peer.lock
         /\ b.readPos <= length(b)
<1>1. b \in Buffer(Int) /\ peer \in Buffer(Int) /\ given \in Int /\ taken \in Int
  BY DEF OpsInv, TypeOK
<1>2. InBounds(b) /\ InBounds(peer) BY DEF OpsInv, Bounds, InBounds
<1>3. length(b) \in Nat /\ b.readPos \in Nat BY <1>1, LenProperties DEF Buffer, length
<1>4. b.readPos <= length(b) BY <1>2 DEF InBounds
<1>5. needReadLength(b) \in Nat BY <1>3, <1>4 DEF needReadLength
<1> QED BY <1>1, <1>2, <1>3, <1>4, <1>5 DEF OpsInv

(* What has to be shown of a step that leaves peer alone. *)
LEMMA OpsStep ==
  ASSUME OpsInv, peer' = peer, b' \in Buffer(Int), InBounds(b'),
         given' \in Int, taken' \in Int, ~HeadAfterRead => Fifo'
  PROVE  OpsInv'
<1>1. TypeOK' BY DEF OpsInv, TypeOK
<1>2. Bounds' BY DEF OpsInv, Bounds, InBounds, length
<1> QED BY <1>1, <1>2 DEF OpsInv

(* Both buffers are constructed empty (net_buffer.cpp:21). *)
LEMMA OpsInit == Init => OpsInv
<1> SUFFICES ASSUME Init PROVE OpsInv OBVIOUS
<1> USE BufferAssumption
<1>1. /\ b \in Buffer(Int) /\ InBounds(b) /\ length(b) = 0 /\ b.readPos = 0
      /\ peer \in Buffer(Int) /\ InBounds(peer) /\ ~peer.lock
  BY NewBufferLemma DEF Init
<1>2. TypeOK BY <1>1 DEF Init, TypeOK
<1>3. Bounds BY <1>1 DEF Bounds, InBounds
<1>4. Fifo BY <1>1 DEF Init, Fifo, needReadLength
<1> QED BY <1>1, <1>2, <1>3, <1>4 DEF OpsInv

(* Appending the next n bytes of the stream keeps the queue. *)
LEMMA AppendFifo ==
  ASSUME OpsInv, Fifo, NEW n \in Nat, taken' = taken, given' = given + n,
         b'.readPos = b.readPos,
         length(b') = length(b) + n,
         \A i \in 1..length(b) : b'.buf[i] = b.buf[i],
         \A i \in 1..n : b'.buf[length(b) + i] = given + i
  PROVE  Fifo'
<1> DEFINE r == b.readPos
           l == length(b)
<1>1. r \in Nat /\ l \in Nat /\ r <= l /\ given \in Int /\ taken \in Int BY OpsFacts
<1>2. /\ taken + (l - r) = given
      /\ \A i \in 1..(l - r) : b.buf[r + i] = taken + i
  BY DEF Fifo, needReadLength
<1>3. needReadLength(b') = l + n - r BY <1>1 DEF needReadLength
<1>4. \A i \in 1..(l + n - r) : b'.buf[r + i] = taken + i
  <2> HIDE DEF r, l
  <2> TAKE i \in 1..(l + n - r)
  <2>1. CASE r + i <= l
    <3>1. r + i \in 1..l /\ i \in 1..(l - r) BY <2>1, <1>1
    <3>2. b'.buf[r + i] = b.buf[r + i] BY <3>1 DEF l
    <3> QED BY <3>1, <3>2, <1>2
  <2>2. CASE r + i > l
    <3>1. r + i - l \in 1..n /\ r + i = l + (r + i - l) BY <2>2, <1>1
    <3>2. b'.buf[r + i] = given + (r + i - l) BY <3>1 DEF l
    <3> QED BY <3>1, <3>2, <1>1, <1>2
  <2> QED BY <2>1, <2>2, <1>1
<1>5. taken' + needReadLength(b') = given' BY <1>1, <1>2, <1>3
<1> QED BY <1>3, <1>4, <1>5 DEF Fifo, needReadLength, length

(* tailData (net_buffer.cpp:81) keeps the invariant, also when it reallocates. *)
LEMMA TailDataStep == OpsInv /\ TailData => OpsInv'
<1> SUFFICES ASSUME OpsInv, TailData PROVE OpsInv' OBVIOUS
<1> USE BufferAssumption
<1>1. PICK n \in 1..MaxChunk :
        /\ b' = tailData(b, Bytes(given, n))
        /\ given' = IF b.lock THEN given ELSE given + n
        /\ peer' = peer /\ taken' = taken
  BY DEF TailData
<1>2. n \in Nat OBVIOUS
<1>3. /\ b \in Buffer(Int) /\ given \in Int /\ taken \in Int /\ InBounds(b)
      /\ length(b) \in Nat
  BY OpsFacts
<1> DEFINE s == Bytes(given, n)
<1>4. s \in Seq(Int) /\ Len(s) = n /\ \A i \in 1..n : s[i] = given + i
  BY <1>2, <1>3, BytesLemma
<1> HIDE DEF s
<1>5. /\ b' \in Buffer(Int) /\ InBounds(b') /\ b'.readPos = b.readPos
      /\ ~b.lock =>
           /\ length(b') = length(b) + Len(s)
           /\ \A i \in 1..length(b) : b'.buf[i] = b.buf[i]
           /\ \A i \in 1..Len(s) : b'.buf[length(b) + i] = s[i]
      /\ b.lock => b' = b
  BY <1>1, <1>3, <1>4, TailDataLemma DEF s
<1>6. given' \in Int BY <1>1, <1>2, <1>3
<1>7. Fifo => Fifo'
  <2>1. CASE b.lock
    <3>1. b' = b /\ given' = given /\ taken' = taken BY <2>1, <1>1, <1>5
    <3> QED BY <3>1 DEF Fifo, needReadLength, length
  <2>2. CASE ~b.lock
    <3>1. given' = given + n BY <2>2, <1>1
    <3>2. \A i \in 1..n : b'.buf[length(b) + i] = given + i BY <2>2, <1>4, <1>5
    <3> QED BY <2>2, <3>1, <3>2, <1>1, <1>2, <1>4, <1>5, AppendFifo
  <2> QED BY <2>1, <2>2
<1> QED BY <1>1, <1>3, <1>5, <1>6, <1>7, OpsStep DEF OpsInv

(* writeData(len) (net_buffer.cpp:50) commits the bytes or refuses them. *)
LEMMA WriteDataStep == OpsInv /\ WriteData => OpsInv'
<1> SUFFICES ASSUME OpsInv, WriteData PROVE OpsInv' OBVIOUS
<1> USE BufferAssumption
<1>1. PICK n \in 1..MaxChunk :
        /\ b' = writeData(b, Bytes(given, n))
        /\ given' = given + (length(b') - length(b))
        /\ peer' = peer /\ taken' = taken
  BY DEF WriteData
<1>2. n \in Nat OBVIOUS
<1>3. /\ b \in Buffer(Int) /\ given \in Int /\ taken \in Int /\ InBounds(b)
      /\ length(b) \in Nat
  BY OpsFacts
<1> DEFINE s == Bytes(given, n)
<1>4. s \in Seq(Int) /\ Len(s) = n /\ \A i \in 1..n : s[i] = given + i
  BY <1>2, <1>3, BytesLemma
<1> HIDE DEF s
<1>5. /\ b' \in Buffer(Int) /\ InBounds(b') /\ b'.readPos = b.readPos
      /\ length(b) + Len(s) <= b.maxLen =>
           /\ length(b') = length(b) + Len(s)
           /\ \A i \in 1..length(b) : b'.buf[i] = b.buf[i]
           /\ \A i \in 1..Len(s) : b'.buf[length(b) + i] = s[i]
      /\ length(b) + Len(s) > b.maxLen => b' = b
  <2>1. b' = writeData(b, s) BY <1>1 DEF s
  <2> DEFINE w == writeData(b, s)
  <2>2. /\ w \in Buffer(Int) /\ InBounds(w) /\ w.readPos = b.readPos
        /\ length(b) + Len(s) <= b.maxLen =>
             /\ length(w) = length(b) + Len(s)
             /\ \A i \in 1..length(b) : w.buf[i] = b.buf[i]
             /\ \A i \in 1..Len(s) : w.buf[length(b) + i] = s[i]
        /\ length(b) + Len(s) > b.maxLen => w = b
    <3>1. b \in Buffer(Int) /\ s \in Seq(Int) /\ InBounds(b) BY <1>3, <1>4
    <3> QED BY <3>1, WriteDataLemma
  <2> HIDE DEF w
  <2>3. b' = w BY <2>1 DEF w
  <2> QED BY <2>2, <2>3, Zenon
<1>6. b.maxLen \in Nat BY <1>3 DEF Buffer
<1>7. CASE length(b) + n > b.maxLen
  <2>1. b' = b /\ given' = given BY <1>7, <1>1, <1>3, <1>4, <1>5
  <2>2. Fifo => Fifo' BY <2>1, <1>1 DEF Fifo, needReadLength, length
  <2> QED BY <2>1, <2>2, <1>1, <1>3, <1>5, OpsStep DEF OpsInv
<1>8. CASE length(b) + n <= b.maxLen
  <2>1. /\ length(b') = length(b) + n
        /\ \A i \in 1..length(b) : b'.buf[i] = b.buf[i]
        /\ \A i \in 1..n : b'.buf[length(b) + i] = given + i
    BY <1>8, <1>4, <1>5
  <2>2. given' = given + n BY <2>1, <1>1, <1>2, <1>3
  <2>3. Fifo => Fifo' BY <2>1, <2>2, <1>1, <1>2, <1>5, AppendFifo
  <2> QED BY <2>2, <2>3, <1>1, <1>2, <1>3, <1>5, OpsStep DEF OpsInv
<1> QED BY <1>2, <1>3, <1>6, <1>7, <1>8

(* headData (net_buffer.cpp:90) keeps the invariant on a buffer not yet read. *)
LEMMA HeadDataStep == OpsInv /\ HeadData => OpsInv'
<1> SUFFICES ASSUME OpsInv, HeadData PROVE OpsInv' OBVIOUS
<1> USE BufferAssumption
<1>1. PICK n \in 1..MaxChunk :
        /\ b.readPos = 0 \/ HeadAfterRead
        /\ b' = headData(b, Bytes(taken - n, n))
        /\ taken' = IF b.lock THEN taken ELSE taken - n
        /\ peer' = peer /\ given' = given
  BY DEF HeadData
<1>2. n \in Nat OBVIOUS
<1>3. /\ b \in Buffer(Int) /\ given \in Int /\ taken \in Int /\ InBounds(b)
      /\ length(b) \in Nat
  BY OpsFacts
<1> DEFINE s == Bytes(taken - n, n)
<1>4. s \in Seq(Int) /\ Len(s) = n /\ \A i \in 1..n : s[i] = taken - n + i
  <2>1. taken - n \in Int BY <1>2, <1>3
  <2> QED BY <1>2, <2>1, BytesLemma
<1> HIDE DEF s
<1>5. /\ b' \in Buffer(Int) /\ InBounds(b') /\ b'.readPos = b.readPos
      /\ ~b.lock =>
           /\ length(b') = length(b) + Len(s)
           /\ \A i \in 1..Len(s) : b'.buf[i] = s[i]
           /\ \A i \in 1..length(b) : b'.buf[Len(s) + i] = b.buf[i]
      /\ b.lock => b' = b
  <2>1. b' = headData(b, s) BY <1>1 DEF s
  <2> DEFINE h == headData(b, s)
  <2>2. /\ h \in Buffer(Int) /\ InBounds(h) /\ h.readPos = b.readPos
        /\ ~b.lock =>
             /\ length(h) = length(b) + Len(s)
             /\ \A i \in 1..Len(s) : h.buf[i] = s[i]
             /\ \A i \in 1..length(b) : h.buf[Len(s) + i] = b.buf[i]
        /\ b.lock => h = b
    <3>1. b \in Buffer(Int) /\ s \in Seq(Int) /\ InBounds(b) BY <1>3, <1>4
    <3> QED BY <3>1, HeadDataLemma
  <2> HIDE DEF h
  <2>3. b' = h BY <2>1 DEF h
  <2> QED BY <2>2, <2>3, Zenon
<1>6. taken' \in Int BY <1>1, <1>2, <1>3
<1>7. ASSUME ~HeadAfterRead, Fifo PROVE Fifo'
  <2>1. CASE b.lock
    <3>1. b' = b /\ given' = given /\ taken' = taken BY <2>1, <1>1, <1>5
    <3> QED BY <3>1, <1>7 DEF Fifo, needReadLength, length
  <2>2. CASE ~b.lock
    <3> DEFINE l == length(b)
    <3>1. b.readPos = 0 /\ b'.readPos = 0 BY <1>1, <1>5, <1>7
    <3>2. l \in Nat /\ taken + l = given /\ \A i \in 1..l : b.buf[i] = taken + i
      <4>1. needReadLength(b) = l BY <1>3, <3>1 DEF needReadLength
      <4>2. \A i \in 1..l : b.readPos + i = i BY <3>1, <1>3
      <4> QED BY <4>1, <4>2, <1>3, <1>7 DEF Fifo
    <3>3. /\ length(b') = l + n
          /\ \A i \in 1..n : b'.buf[i] = taken - n + i
          /\ \A i \in 1..l : b'.buf[n + i] = b.buf[i]
      BY <2>2, <1>4, <1>5
    <3>4. taken' = taken - n /\ given' = given BY <2>2, <1>1
    <3> HIDE DEF l
    <3>5. \A i \in 1..(l + n) : b'.buf[i] = taken - n + i
      <4> TAKE i \in 1..(l + n)
      <4>1. CASE i <= n BY <4>1, <3>2, <3>3, <1>2
      <4>2. CASE i > n
        <5>1. i - n \in 1..l /\ i = n + (i - n) BY <4>2, <3>2, <1>2
        <5>2. b'.buf[i] = b.buf[i - n] BY <5>1, <3>3
        <5>3. b.buf[i - n] = taken + (i - n) BY <5>1, <3>2
        <5> QED BY <5>1, <5>2, <5>3, <1>2, <1>3
      <4> QED BY <4>1, <4>2, <1>2, <3>2
    <3>6. needReadLength(b') = l + n BY <3>1, <3>2, <3>3, <1>2 DEF needReadLength
    <3>7. \A i \in 1..(l + n) : b'.readPos + i = i BY <3>1, <3>2, <1>2
    <3>8. taken' + needReadLength(b') = given' BY <3>2, <3>4, <3>6, <1>2, <1>3
    <3>9. \A i \in 1..needReadLength(b') : b'.buf[b'.readPos + i] = taken' + i
      BY <3>4, <3>5, <3>6, <3>7
    <3> QED BY <3>8, <3>9 DEF Fifo, needReadLength, length
  <2> QED BY <2>1, <2>2
<1> QED BY <1>1, <1>3, <1>5, <1>6, <1>7, OpsStep DEF OpsInv

(* Reading on by k bytes keeps the queue. *)
LEMMA ReadFifo ==
  ASSUME OpsInv, Fifo, NEW k \in Nat, k <= needReadLength(b),
         given' = given, taken' = taken + k,
         b'.buf = b.buf, b'.readPos = b.readPos + k
  PROVE  Fifo'
<1> DEFINE r == b.readPos
           l == length(b)
<1>1. r \in Nat /\ l \in Nat /\ r <= l /\ given \in Int /\ taken \in Int BY OpsFacts
<1>2. /\ taken + (l - r) = given /\ k <= l - r
      /\ \A i \in 1..(l - r) : b.buf[r + i] = taken + i
  BY DEF Fifo, needReadLength
<1>3. length(b') = l BY DEF length
<1>4. needReadLength(b') = l - (r + k) BY <1>3 DEF needReadLength
<1> HIDE DEF r, l
<1>5. \A i \in 1..(l - (r + k)) : b.buf[(r + k) + i] = taken + k + i
  <2> TAKE i \in 1..(l - (r + k))
  <2>1. k + i \in 1..(l - r) /\ (r + k) + i = r + (k + i) BY <1>1, <1>2
  <2>2. b.buf[r + (k + i)] = taken + (k + i) BY <2>1, <1>2
  <2> QED BY <2>1, <2>2, <1>1
<1>6. taken' + needReadLength(b') = given' BY <1>1, <1>2, <1>4
<1>7. b'.readPos = r + k BY DEF r
<1>8. \A i \in 1..needReadLength(b') : b'.buf[b'.readPos + i] = taken' + i
  BY <1>4, <1>5, <1>7
<1> QED BY <1>6, <1>8 DEF Fifo, needReadLength, length

(* readData(len) (net_buffer.cpp:56) never passes the write position. *)
LEMMA ReadDataStep == OpsInv /\ ReadData => OpsInv'
<1> SUFFICES ASSUME OpsInv, ReadData PROVE OpsInv' OBVIOUS
<1> USE BufferAssumption
<1>1. PICK n \in 1..MaxChunk :
        /\ b' = readData(b, n)
        /\ taken' = taken + (b'.readPos - b.readPos)
        /\ peer' = peer /\ given' = given
  BY DEF ReadData
<1>2. n \in Nat OBVIOUS
<1>3. /\ b \in Buffer(Int) /\ given \in Int /\ taken \in Int /\ InBounds(b)
      /\ b.readPos \in Nat
  BY OpsFacts
<1>4. /\ b' \in Buffer(Int) /\ InBounds(b') /\ b'.buf = b.buf
      /\ canRead(b, n) => b'.readPos = b.readPos + n
      /\ ~canRead(b, n) => b' = b
  BY <1>1, <1>2, <1>3, ReadDataLemma
<1>5. CASE canRead(b, n)
  <2>1. taken' = taken + n BY <1>1, <1>2, <1>3, <1>4, <1>5
  <2>2. Fifo => Fifo' BY <1>1, <1>2, <1>4, <1>5, <2>1, ReadFifo DEF canRead
  <2> QED BY <2>1, <2>2, <1>1, <1>2, <1>3, <1>4, OpsStep DEF OpsInv
<1>6. CASE ~canRead(b, n)
  <2>1. b' = b /\ taken' = taken BY <1>1, <1>3, <1>4, <1>6
  <2>2. Fifo => Fifo' BY <1>1, <2>1 DEF Fifo, needReadLength, length
  <2> QED BY <2>1, <2>2, <1>1, <1>3, <1>4, OpsStep DEF OpsInv
<1> QED BY <1>5, <1>6

(* clearReadBuffer (net_buffer.cpp:64) drops only bytes that were taken. *)
LEMMA ClearReadBufferStep == OpsInv /\ ClearReadBuffer => OpsInv'
<1> SUFFICES ASSUME OpsInv, ClearReadBuffer PROVE OpsInv' OBVIOUS
<1>1. b' = clearReadBuffer(b) /\ peer' = peer /\ given' = given /\ taken' = taken
  BY DEF ClearReadBuffer
<1>2. /\ b \in Buffer(Int) /\ given \in Int /\ taken \in Int /\ InBounds(b)
      /\ needReadLength(b) \in Nat
  BY OpsFacts
<1>3. /\ b' \in Buffer(Int) /\ InBounds(b') /\ b'.readPos = 0
      /\ length(b') = needReadLength(b)
      /\ \A i \in 1..length(b') : b'.buf[i] = b.buf[b.readPos + i]
  BY <1>1, <1>2, ClearReadBufferLemma
<1>4. needReadLength(b') = needReadLength(b) BY <1>2, <1>3 DEF needReadLength
<1>5. \A i \in 1..needReadLength(b) : b'.readPos + i = i BY <1>2, <1>3
<1>6. Fifo => Fifo'
  <2> SUFFICES ASSUME Fifo PROVE Fifo' OBVIOUS
  <2>1. taken' + needReadLength(b') = given' BY <1>1, <1>4 DEF Fifo
  <2>2. \A i \in 1..needReadLength(b') : b'.buf[b'.readPos + i] = taken' + i
    BY <1>1, <1>3, <1>4, <1>5 DEF Fifo
  <2> QED BY <2>1, <2>2 DEF Fifo, needReadLength, length
<1> QED BY <1>1, <1>2, <1>3, <1>6, OpsStep DEF OpsInv

(* reset (net_buffer.cpp:70) counts as taking everything. *)
LEMMA ResetStep == OpsInv /\ Reset => OpsInv'
<1> SUFFICES ASSUME OpsInv, Reset PROVE OpsInv' OBVIOUS
<1>1. /\ b' = reset(b) /\ peer' = peer /\ given' = given
      /\ taken' = IF b.lock THEN taken ELSE given
  BY DEF Reset
<1>2. b \in Buffer(Int) /\ given \in Int /\ taken \in Int /\ InBounds(b) BY OpsFacts
<1>3. /\ b' \in Buffer(Int) /\ InBounds(b')
      /\ ~b.lock => length(b') = 0 /\ b'.readPos = 0
      /\ b.lock => b' = b
  BY <1>1, <1>2, ResetLemma
<1>4. Fifo => Fifo'
  <2> SUFFICES ASSUME Fifo PROVE Fifo' OBVIOUS
  <2>1. CASE b.lock
    <3>1. b' = b /\ given' = given /\ taken' = taken BY <2>1, <1>1, <1>3
    <3> QED BY <3>1 DEF Fifo, needReadLength, length
  <2>2. CASE ~b.lock
    <3>1. needReadLength(b') = 0 BY <2>2, <1>3 DEF needReadLength
    <3>2. taken' = given /\ given' = given BY <2>2, <1>1
    <3> QED BY <3>1, <3>2, <1>2 DEF Fifo, needReadLength, length
  <2> QED BY <2>1, <2>2
<1>5. taken' \in Int BY <1>1, <1>2
<1> QED BY <1>1, <1>2, <1>3, <1>4, <1>5, OpsStep DEF OpsInv

(* lock (net_buffer.h:30) touches no byte. *)
LEMMA LockStep == OpsInv /\ Lock => OpsInv'
<1> SUFFICES ASSUME OpsInv, Lock PROVE OpsInv' OBVIOUS
<1>1. b' = setLock(b) /\ peer' = peer /\ given' = given /\ taken' = taken BY DEF Lock
<1>2. b \in Buffer(Int) /\ given \in Int /\ taken \in Int /\ InBounds(b) BY OpsFacts
<1>3. /\ b' \in Buffer(Int) /\ InBounds(b') /\ b'.buf = b.buf /\ b'.readPos = b.readPos
  BY <1>1, <1>2, SetLockLemma
<1>4. Fifo => Fifo' BY <1>1, <1>3 DEF Fifo, needReadLength, length
<1> QED BY <1>1, <1>2, <1>3, <1>4, OpsStep DEF OpsInv

(* readBuffer (net_buffer.cpp:94) keeps both buffers within their bounds. *)
LEMMA ReadBufferStep == OpsInv /\ ReadBuffer => OpsInv'
<1> SUFFICES ASSUME OpsInv, ReadBuffer PROVE OpsInv' OBVIOUS
<1> DEFINE k == readBufferLen(b, peer)
<1>1. /\ b' = readBufferFrom(b, peer) /\ peer' = readBufferInto(b, peer)
      /\ taken' = taken + (b'.readPos - b.readPos) /\ given' = given
  BY DEF ReadBuffer
<1>2. /\ b \in Buffer(Int) /\ peer \in Buffer(Int) /\ given \in Int /\ taken \in Int
      /\ InBounds(b) /\ InBounds(peer) /\ ~peer.lock /\ b.readPos \in Nat
  BY OpsFacts
<1>3. /\ k \in Nat /\ k <= needReadLength(b)
      /\ b' \in Buffer(Int) /\ InBounds(b') /\ b'.buf = b.buf /\ b'.readPos = b.readPos + k
      /\ peer' \in Buffer(Int) /\ InBounds(peer') /\ ~peer'.lock
  BY <1>1, <1>2, ReadBufferLemma
<1> HIDE DEF k
<1>4. taken' = taken + k BY <1>1, <1>2, <1>3
<1>5. Fifo => Fifo' BY <1>1, <1>3, <1>4, ReadFifo
<1>6. TypeOK' BY <1>1, <1>2, <1>3, <1>4 DEF TypeOK
<1>7. Bounds' BY <1>3 DEF Bounds, InBounds, length
<1> QED BY <1>3, <1>5, <1>6, <1>7 DEF OpsInv

(* The owner of peer takes what it was given (connection.cpp:116-117). *)
LEMMA PeerConsumeStep == OpsInv /\ PeerConsume => OpsInv'
<1> SUFFICES ASSUME OpsInv, PeerConsume PROVE OpsInv' OBVIOUS
<1> USE BufferAssumption
<1>1. PICK n \in 1..MaxChunk :
        /\ canRead(peer, n)
        /\ peer' = clearReadBuffer(readData(peer, n))
        /\ b' = b /\ given' = given /\ taken' = taken
  BY DEF PeerConsume
<1>2. n \in Nat OBVIOUS
<1>3. peer \in Buffer(Int) /\ InBounds(peer) /\ ~peer.lock BY OpsFacts
<1>4. peer' \in Buffer(Int) /\ InBounds(peer') /\ ~peer'.lock
  BY <1>1, <1>2, <1>3, ConsumeLemma
<1>5. TypeOK' BY <1>1, <1>4 DEF OpsInv, TypeOK
<1>6. Bounds' BY <1>1, <1>4 DEF OpsInv, Bounds, InBounds, length
<1>7. Fifo => Fifo' BY <1>1 DEF Fifo, needReadLength, length
<1> QED BY <1>4, <1>5, <1>6, <1>7 DEF OpsInv
-----------------------------------------------------------------------------
(***************************************************************************)
(* The invariant holds however the calls of a NetBuffer are combined.      *)
(***************************************************************************)
THEOREM OpsInvariant == Spec => []OpsInv
<1>1. Init => OpsInv BY OpsInit
<1>2. OpsInv /\ [Next]_vars => OpsInv'
  <2> SUFFICES ASSUME OpsInv, [Next]_vars PROVE OpsInv' OBVIOUS
  <2>1. CASE UNCHANGED vars
    <3>1. b' = b /\ peer' = peer /\ given' = given /\ taken' = taken BY <2>1 DEF vars
    <3> QED BY <3>1 DEF OpsInv, TypeOK, Bounds, Fifo, needReadLength, length
  <2>2. CASE Next
    BY <2>2, TailDataStep, WriteDataStep, HeadDataStep, ReadDataStep, ClearReadBufferStep,
       ResetStep, LockStep, ReadBufferStep, PeerConsumeStep DEF Next
  <2> QED BY <2>1, <2>2
<1> QED BY <1>1, <1>2, PTL DEF Spec

(* Both buffers and the stream positions keep their types. *)
THEOREM OpsTypeCorrect == Spec => []TypeOK
<1>1. OpsInv => TypeOK BY DEF OpsInv
<1> QED BY <1>1, OpsInvariant, PTL

(***************************************************************************)
(* No sequence of calls takes the read position past the write position or *)
(* the write position past the allocation (the asserts of net_buffer.cpp). *)
(***************************************************************************)
THEOREM OpsBounds == Spec => []Bounds
<1>1. OpsInv => Bounds BY DEF OpsInv
<1> QED BY <1>1, OpsInvariant, PTL

(***************************************************************************)
(* As long as nothing is prepended after a partial read, a NetBuffer is a  *)
(* queue of bytes.                                                         *)
(***************************************************************************)
THEOREM OpsFifo ==
  ASSUME ~HeadAfterRead
  PROVE  Spec => []Fifo
<1>1. OpsInv => Fifo BY DEF OpsInv
<1> QED BY <1>1, OpsInvariant, PTL

(* A call of readBuffer conserves what the two buffers hold. *)
LEMMA TransferStep ==
  OpsInv /\ [Next]_vars =>
    [ReadBuffer => unread(peer') \o unread(b') = unread(peer) \o unread(b)]_vars
<1> SUFFICES ASSUME OpsInv, ReadBuffer
             PROVE  unread(peer') \o unread(b') = unread(peer) \o unread(b)
  OBVIOUS
<1>2. b' = readBufferFrom(b, peer) /\ peer' = readBufferInto(b, peer)
  BY DEF ReadBuffer
<1>3. unread(readBufferInto(b, peer)) \o unread(readBufferFrom(b, peer))
        = unread(peer) \o unread(b)
  BY OpsFacts, TransferLemma
<1> QED BY <1>2, <1>3

(***************************************************************************)
(* readBuffer (net_buffer.cpp:94) loses, repeats and reorders nothing,     *)
(* whatever the sizes of the two buffers and what was done to them before. *)
(***************************************************************************)
THEOREM OpsTransferConserves == Spec => TransferConserves
BY TransferStep, OpsInvariant, PTL DEF Spec, TransferConserves
=============================================================================
