---------------------------- MODULE CommonLemmas ----------------------------
(***************************************************************************)
(* What the operations of a NetBuffer do to its type, its positions and    *)
(* its contents, for every buffer.  The proofs about the components that   *)
(* use buffers cite these facts and keep the operations opaque.            *)
(*                                                                         *)
(* The last section is about recursion over the naturals: that recursive   *)
(* functions exist, and induction, for the operators that are defined by   *)
(* them.  Both follow from the well-foundedness of <, with sets in place   *)
(* of predicates.                                                          *)
(***************************************************************************)
EXTENDS NetBuffer, SequenceTheorems, WellFoundedInduction, TLAPS

(* A buffer whose positions are in order, as the asserts of net_buffer.cpp demand. *)
InBounds(b) == b.readPos <= length(b) /\ length(b) <= b.maxLen

(* The len elements of a sequence that follow its first k. *)
LEMMA WindowLemma ==
  ASSUME NEW S, NEW s \in Seq(S), NEW k \in Nat, NEW len \in Nat, k + len <= Len(s)
  PROVE  /\ SubSeq(s, k + 1, k + len) \in Seq(S)
         /\ Len(SubSeq(s, k + 1, k + len)) = len
         /\ \A i \in 1..len : SubSeq(s, k + 1, k + len)[i] = s[k + i]
<1>1. Len(s) \in Nat BY LenProperties
<1>2. \A i \in (k + 1)..(k + len) : s[i] \in S BY <1>1, ElementOfSeq
<1>3. k + 1 \in Int /\ k + len \in Int OBVIOUS
<1> DEFINE m == k + 1
           n == k + len
<1>4. /\ SubSeq(s, m, n) \in Seq(S)
      /\ Len(SubSeq(s, m, n)) = IF m <= n THEN n - m + 1 ELSE 0
      /\ \A i \in 1..(n - m + 1) : SubSeq(s, m, n)[i] = s[m + i - 1]
  <2> HIDE DEF m, n
  <2>1. m \in Int /\ n \in Int /\ \A i \in m..n : s[i] \in S BY <1>2, <1>3 DEF m, n
  <2> QED BY <2>1, SubSeqProperties
<1>5. (IF m <= n THEN n - m + 1 ELSE 0) = len /\ n - m + 1 = len OBVIOUS
<1>6. \A i \in 1..len : m + i - 1 = k + i OBVIOUS
<1> QED BY <1>4, <1>5, <1>6

(* A constructed buffer (net_buffer.cpp:21) is empty and within its bounds. *)
LEMMA NewBufferLemma ==
  ASSUME NEW S, NEW len \in Nat
  PROVE  /\ NewBuffer(len) \in Buffer(S)
         /\ InBounds(NewBuffer(len))
         /\ length(NewBuffer(len)) = 0
         /\ NewBuffer(len).readPos = 0
         /\ NewBuffer(len).maxLen = len
         /\ ~NewBuffer(len).lock
  BY EmptySeq DEF NewBuffer, Buffer, InBounds, length

(* writeData(len) (net_buffer.cpp:50) commits the bytes if they fit. *)
LEMMA WriteDataLemma ==
  ASSUME NEW S, NEW b \in Buffer(S), NEW bytes \in Seq(S), InBounds(b)
  PROVE  LET w == writeData(b, bytes) IN
         /\ w \in Buffer(S)
         /\ InBounds(w)
         /\ w.readPos = b.readPos /\ w.maxLen = b.maxLen /\ w.lock = b.lock
         /\ length(b) + Len(bytes) <= b.maxLen =>
              /\ length(w) = length(b) + Len(bytes)
              /\ \A i \in 1..length(b) : w.buf[i] = b.buf[i]
              /\ \A i \in 1..Len(bytes) : w.buf[length(b) + i] = bytes[i]
         /\ length(b) + Len(bytes) > b.maxLen => w = b
<1>1. b.buf \in Seq(S) BY DEF Buffer
<1>2. /\ b.buf \o bytes \in Seq(S)
      /\ Len(b.buf \o bytes) = Len(b.buf) + Len(bytes)
      /\ \A i \in 1..Len(b.buf) : (b.buf \o bytes)[i] = b.buf[i]
      /\ \A i \in 1..Len(bytes) : (b.buf \o bytes)[Len(b.buf) + i] = bytes[i]
  BY <1>1
<1>3. Len(b.buf) \in Nat /\ Len(bytes) \in Nat BY <1>1, LenProperties
<1>4. CASE length(b) + Len(bytes) > b.maxLen
  BY <1>4, <1>3 DEF writeData, length, InBounds, Buffer
<1>5. CASE ~(length(b) + Len(bytes) > b.maxLen)
  <2>1. writeData(b, bytes) = [b EXCEPT !.buf = @ \o bytes]
    BY <1>5 DEF writeData
  <2>2. /\ writeData(b, bytes) \in Buffer(S)
        /\ writeData(b, bytes).buf = b.buf \o bytes
        /\ writeData(b, bytes).readPos = b.readPos
        /\ writeData(b, bytes).maxLen = b.maxLen
        /\ writeData(b, bytes).lock = b.lock
    BY <2>1, <1>2 DEF Buffer
  <2> QED BY <2>2, <1>2, <1>3, <1>5 DEF length, InBounds, Buffer
<1> QED BY <1>4, <1>5

(* readData(len) (net_buffer.cpp:56) steps over len bytes or does nothing. *)
LEMMA ReadDataLemma ==
  ASSUME NEW S, NEW b \in Buffer(S), NEW len \in Nat, InBounds(b)
  PROVE  LET r == readData(b, len) IN
         /\ r \in Buffer(S)
         /\ InBounds(r)
         /\ r.buf = b.buf /\ r.maxLen = b.maxLen /\ r.lock = b.lock
         /\ length(r) = length(b)
         /\ canRead(b, len) => r.readPos = b.readPos + len
         /\ ~canRead(b, len) => r = b
<1>1. b.buf \in Seq(S) /\ Len(b.buf) \in Nat BY LenProperties DEF Buffer
<1>2. CASE canRead(b, len)
  <2>1. readData(b, len) = [b EXCEPT !.readPos = @ + len]
    BY <1>2 DEF readData
  <2>2. /\ readData(b, len) \in Buffer(S)
        /\ readData(b, len).buf = b.buf
        /\ readData(b, len).readPos = b.readPos + len
        /\ readData(b, len).maxLen = b.maxLen
        /\ readData(b, len).lock = b.lock
    BY <2>1 DEF Buffer
  <2> QED BY <2>2, <1>1, <1>2 DEF length, InBounds, Buffer, canRead, needReadLength
<1>3. CASE ~canRead(b, len)
  BY <1>3 DEF readData
<1> QED BY <1>2, <1>3

(* clearReadBuffer (net_buffer.cpp:64) keeps exactly the unread bytes. *)
LEMMA ClearReadBufferLemma ==
  ASSUME NEW S, NEW b \in Buffer(S), InBounds(b)
  PROVE  LET c == clearReadBuffer(b) IN
         /\ c \in Buffer(S)
         /\ InBounds(c)
         /\ c.readPos = 0 /\ c.maxLen = b.maxLen /\ c.lock = b.lock
         /\ length(c) = needReadLength(b)
         /\ \A i \in 1..length(c) : c.buf[i] = b.buf[b.readPos + i]
<1>1. b.buf \in Seq(S) /\ Len(b.buf) \in Nat BY LenProperties DEF Buffer
<1>2. b.readPos \in Nat /\ b.maxLen \in Nat BY DEF Buffer
<1> DEFINE t == SubSeq(b.buf, b.readPos + 1, Len(b.buf))
<1>3. /\ t \in Seq(S)
      /\ Len(t) = Len(b.buf) - b.readPos
      /\ \A i \in 1..Len(t) : t[i] = b.buf[b.readPos + i]
  <2>1. Len(b.buf) - b.readPos \in Nat /\ b.readPos + (Len(b.buf) - b.readPos) = Len(b.buf)
    BY <1>1, <1>2 DEF InBounds, length
  <2> DEFINE s   == b.buf
             k   == b.readPos
             len == Len(b.buf) - b.readPos
  <2>2. s \in Seq(S) /\ k \in Nat /\ len \in Nat /\ k + len <= Len(s)
    BY <1>1, <1>2, <2>1
  <2>3. t = SubSeq(s, k + 1, k + len) BY <2>1
  <2> HIDE DEF s, k, len, t
  <2>4. /\ SubSeq(s, k + 1, k + len) \in Seq(S)
        /\ Len(SubSeq(s, k + 1, k + len)) = len
        /\ \A i \in 1..len : SubSeq(s, k + 1, k + len)[i] = s[k + i]
    BY <2>2, WindowLemma, Zenon
  <2>5. t \in Seq(S) /\ Len(t) = len /\ \A i \in 1..Len(t) : t[i] = s[k + i]
    BY <2>3, <2>4, Zenon
  <2> QED BY <2>5, Zenon DEF s, k, len
<1>4. clearReadBuffer(b) = [b EXCEPT !.buf = t, !.readPos = 0]
  BY DEF clearReadBuffer, unread, length
<1>5. /\ clearReadBuffer(b) \in Buffer(S)
      /\ clearReadBuffer(b).buf = t
      /\ clearReadBuffer(b).readPos = 0
      /\ clearReadBuffer(b).maxLen = b.maxLen
      /\ clearReadBuffer(b).lock = b.lock
  <2> HIDE DEF t
  <2>1. clearReadBuffer(b) = [buf |-> t, readPos |-> 0, maxLen |-> b.maxLen, lock |-> b.lock]
    BY <1>4 DEF Buffer
  <2> QED BY <1>3, <2>1 DEF Buffer
<1> HIDE DEF t
<1> QED BY <1>1, <1>2, <1>3, <1>5 DEF length, InBounds, needReadLength

(* The first len unread bytes, when there are that many. *)
LEMMA PeekLemma ==
  ASSUME NEW S, NEW b \in Buffer(S), NEW len \in Nat, InBounds(b), canRead(b, len)
  PROVE  /\ peek(b, len) \in Seq(S)
         /\ Len(peek(b, len)) = len
         /\ \A i \in 1..len : peek(b, len)[i] = b.buf[b.readPos + i]
<1> DEFINE s == b.buf
           k == b.readPos
<1>1. s \in Seq(S) /\ k \in Nat /\ Len(s) \in Nat BY LenProperties DEF Buffer
<1>2. k + len <= Len(s) BY <1>1 DEF canRead, needReadLength, length
<1>3. peek(b, len) = SubSeq(s, k + 1, k + len) BY DEF peek
<1> HIDE DEF s, k
<1>4. /\ SubSeq(s, k + 1, k + len) \in Seq(S)
      /\ Len(SubSeq(s, k + 1, k + len)) = len
      /\ \A i \in 1..len : SubSeq(s, k + 1, k + len)[i] = s[k + i]
  BY <1>1, <1>2, WindowLemma, Zenon
<1>5. /\ peek(b, len) \in Seq(S) /\ Len(peek(b, len)) = len
      /\ \A i \in 1..len : peek(b, len)[i] = s[k + i]
  BY <1>3, <1>4, Zenon
<1> QED BY <1>5, Zenon DEF s, k

(***************************************************************************)
(* readData(len) followed by clearReadBuffer(), as recvHead and            *)
(* writeMessage do, drops the first len unread bytes.                      *)
(***************************************************************************)
LEMMA ConsumeLemma ==
  ASSUME NEW S, NEW b \in Buffer(S), NEW len \in Nat, InBounds(b), canRead(b, len)
  PROVE  LET c == clearReadBuffer(readData(b, len)) IN
         /\ c \in Buffer(S)
         /\ InBounds(c)
         /\ c.readPos = 0 /\ c.maxLen = b.maxLen /\ c.lock = b.lock
         /\ length(c) = needReadLength(b) - len
         /\ \A i \in 1..length(c) : c.buf[i] = b.buf[b.readPos + len + i]
<1> DEFINE r == readData(b, len)
           c == clearReadBuffer(r)
<1>1. /\ r \in Buffer(S) /\ InBounds(r)
      /\ r.buf = b.buf /\ r.maxLen = b.maxLen /\ r.lock = b.lock
      /\ length(r) = length(b) /\ r.readPos = b.readPos + len
  BY ReadDataLemma
<1> HIDE DEF r
<1>2. /\ c \in Buffer(S) /\ InBounds(c)
      /\ c.readPos = 0 /\ c.maxLen = r.maxLen /\ c.lock = r.lock
      /\ length(c) = needReadLength(r)
      /\ \A i \in 1..length(c) : c.buf[i] = r.buf[r.readPos + i]
  BY <1>1, ClearReadBufferLemma
<1> HIDE DEF c
<1>3. length(b) \in Nat /\ b.readPos \in Nat BY LenProperties DEF Buffer, length
<1>4. needReadLength(r) = needReadLength(b) - len BY <1>1, <1>3 DEF needReadLength
<1>5. /\ c \in Buffer(S) /\ InBounds(c)
      /\ c.readPos = 0 /\ c.maxLen = b.maxLen /\ c.lock = b.lock
      /\ length(c) = needReadLength(b) - len
      /\ \A i \in 1..length(c) : c.buf[i] = b.buf[b.readPos + len + i]
  BY <1>1, <1>2, <1>4
<1> QED BY <1>5, Zenon DEF c, r

(* tail (net_buffer.cpp:117) appends to a buffer that is not locked. *)
LEMMA TailLemma ==
  ASSUME NEW S, NEW b \in Buffer(S), NEW bytes \in Seq(S)
  PROVE  LET t == tail(b, bytes) IN
         /\ t \in Buffer(S)
         /\ t.readPos = b.readPos /\ t.maxLen = b.maxLen /\ t.lock = b.lock
         /\ ~b.lock =>
              /\ length(t) = length(b) + Len(bytes)
              /\ \A i \in 1..length(b) : t.buf[i] = b.buf[i]
              /\ \A i \in 1..Len(bytes) : t.buf[length(b) + i] = bytes[i]
         /\ b.lock => t = b
<1>1. b.buf \in Seq(S) BY DEF Buffer
<1>2. /\ b.buf \o bytes \in Seq(S)
      /\ Len(b.buf \o bytes) = Len(b.buf) + Len(bytes)
      /\ \A i \in 1..Len(b.buf) : (b.buf \o bytes)[i] = b.buf[i]
      /\ \A i \in 1..Len(bytes) : (b.buf \o bytes)[Len(b.buf) + i] = bytes[i]
  BY <1>1
<1>4. CASE b.lock
  BY <1>4 DEF tail
<1>5. CASE ~b.lock
  <2>1. tail(b, bytes) = [b EXCEPT !.buf = @ \o bytes]
    BY <1>5 DEF tail
  <2>2. /\ tail(b, bytes) \in Buffer(S)
        /\ tail(b, bytes).buf = b.buf \o bytes
        /\ tail(b, bytes).readPos = b.readPos
        /\ tail(b, bytes).maxLen = b.maxLen
        /\ tail(b, bytes).lock = b.lock
    BY <2>1, <1>2 DEF Buffer
  <2> QED BY <2>2, <1>2, <1>5 DEF length
<1> QED BY <1>4, <1>5

(***************************************************************************)
(* resize (net_buffer.cpp:105) makes room and leaves the contents alone.   *)
(***************************************************************************)
LEMMA ResizeLemma ==
  ASSUME NEW S, NEW b \in Buffer(S), NEW len \in Nat
  PROVE  LET r == resize(b, len) IN
         /\ r \in Buffer(S)
         /\ r.buf = b.buf /\ r.readPos = b.readPos /\ r.lock = b.lock
         /\ r.maxLen >= b.maxLen
         /\ ~b.lock => r.maxLen >= len
<1>1. CASE ~b.lock /\ len > b.maxLen
  <2>1. resize(b, len) = [b EXCEPT !.maxLen = len * 2]
    BY <1>1 DEF resize
  <2>2. /\ resize(b, len) \in Buffer(S)
        /\ resize(b, len).maxLen = len * 2
        /\ resize(b, len).buf = b.buf
        /\ resize(b, len).readPos = b.readPos
        /\ resize(b, len).lock = b.lock
    BY <2>1 DEF Buffer
  <2> QED BY <2>2, <1>1 DEF Buffer
<1>2. CASE ~(~b.lock /\ len > b.maxLen)
  BY <1>2 DEF resize, Buffer
<1> QED BY <1>1, <1>2

(* tailData (net_buffer.cpp:81) appends and never overruns the allocation. *)
LEMMA TailDataLemma ==
  ASSUME NEW S, NEW b \in Buffer(S), NEW bytes \in Seq(S), InBounds(b)
  PROVE  LET t == tailData(b, bytes) IN
         /\ t \in Buffer(S)
         /\ InBounds(t)
         /\ t.readPos = b.readPos /\ t.lock = b.lock
         /\ ~b.lock =>
              /\ length(t) = length(b) + Len(bytes)
              /\ \A i \in 1..length(b) : t.buf[i] = b.buf[i]
              /\ \A i \in 1..Len(bytes) : t.buf[length(b) + i] = bytes[i]
         /\ b.lock => t = b
<1> DEFINE r == resize(b, length(b) + Len(bytes))
<1>1. b.buf \in Seq(S) /\ Len(b.buf) \in Nat /\ Len(bytes) \in Nat
  BY LenProperties DEF Buffer
<1>2. /\ r \in Buffer(S)
      /\ r.buf = b.buf /\ r.readPos = b.readPos /\ r.lock = b.lock
      /\ r.maxLen >= b.maxLen
      /\ ~b.lock => r.maxLen >= length(b) + Len(bytes)
  <2>1. length(b) + Len(bytes) \in Nat BY <1>1 DEF length
  <2> QED BY <2>1, ResizeLemma
<1>3. tailData(b, bytes) = tail(r, bytes) BY DEF tailData
<1>4. b.lock => r = b BY DEF resize
<1> HIDE DEF r
<1>5. /\ tail(r, bytes) \in Buffer(S)
      /\ tail(r, bytes).readPos = r.readPos /\ tail(r, bytes).maxLen = r.maxLen
      /\ tail(r, bytes).lock = r.lock
      /\ ~r.lock =>
           /\ length(tail(r, bytes)) = length(r) + Len(bytes)
           /\ \A i \in 1..length(r) : tail(r, bytes).buf[i] = r.buf[i]
           /\ \A i \in 1..Len(bytes) : tail(r, bytes).buf[length(r) + i] = bytes[i]
      /\ r.lock => tail(r, bytes) = r
  BY <1>2, TailLemma
<1>6. length(r) = length(b) BY <1>2 DEF length
<1>7. InBounds(tail(r, bytes))
  <2>1. CASE b.lock BY <2>1, <1>2, <1>4, <1>5
  <2>2. CASE ~b.lock
    <3>1. length(tail(r, bytes)) = length(b) + Len(bytes) BY <2>2, <1>2, <1>5, <1>6
    <3>2. b.readPos <= length(b) /\ length(b) \in Nat BY <1>1 DEF InBounds, length
    <3>3. b.readPos \in Nat /\ r.maxLen \in Nat BY <1>2 DEF Buffer
    <3> QED BY <3>1, <3>2, <3>3, <2>2, <1>1, <1>2, <1>5 DEF InBounds
  <2> QED BY <2>1, <2>2
<1> QED BY <1>2, <1>3, <1>4, <1>5, <1>6, <1>7

(* headData (net_buffer.cpp:90) prepends, also when the buffer has to grow. *)
LEMMA HeadDataLemma ==
  ASSUME NEW S, NEW b \in Buffer(S), NEW bytes \in Seq(S), InBounds(b)
  PROVE  LET h == headData(b, bytes) IN
         /\ h \in Buffer(S)
         /\ InBounds(h)
         /\ h.readPos = b.readPos /\ h.lock = b.lock
         /\ ~b.lock =>
              /\ length(h) = length(b) + Len(bytes)
              /\ \A i \in 1..Len(bytes) : h.buf[i] = bytes[i]
              /\ \A i \in 1..length(b) : h.buf[Len(bytes) + i] = b.buf[i]
         /\ b.lock => h = b
<1> DEFINE r == resize(b, length(b) + Len(bytes))
           h == head(r, bytes)
<1>1. /\ b.buf \in Seq(S) /\ Len(b.buf) \in Nat /\ Len(bytes) \in Nat
      /\ b.readPos \in Nat /\ b.maxLen \in Nat
  BY LenProperties DEF Buffer
<1>2. /\ r \in Buffer(S)
      /\ r.buf = b.buf /\ r.readPos = b.readPos /\ r.lock = b.lock
      /\ r.maxLen >= b.maxLen
      /\ ~b.lock => r.maxLen >= length(b) + Len(bytes)
  <2>1. length(b) + Len(bytes) \in Nat BY <1>1 DEF length
  <2> QED BY <2>1, ResizeLemma
<1>3. b.lock => r = b BY DEF resize
<1>4. headData(b, bytes) = h BY DEF headData
<1> HIDE DEF r
<1>5. CASE b.lock
  <2>1. h = b BY <1>2, <1>3, <1>5 DEF head
  <2> QED BY <1>4, <1>5, <2>1
<1>6. CASE ~b.lock
  <2>1. /\ bytes \o r.buf \in Seq(S)
        /\ Len(bytes \o r.buf) = Len(bytes) + Len(r.buf)
        /\ \A i \in 1..Len(bytes) : (bytes \o r.buf)[i] = bytes[i]
        /\ \A i \in 1..Len(r.buf) : (bytes \o r.buf)[Len(bytes) + i] = r.buf[i]
    BY <1>1, <1>2
  <2>2. h = [r EXCEPT !.buf = bytes \o @] BY <1>2, <1>6 DEF head
  <2>3. /\ h \in Buffer(S) /\ h.buf = bytes \o r.buf
        /\ h.readPos = r.readPos /\ h.maxLen = r.maxLen /\ h.lock = r.lock
    BY <2>1, <2>2, <1>2 DEF Buffer
  <2> HIDE DEF h
  <2>4. length(h) = length(b) + Len(bytes) BY <2>1, <2>3, <1>1, <1>2 DEF length
  <2>5. InBounds(h)
    <3>1. b.readPos <= length(b) /\ length(b) \in Nat BY <1>1 DEF InBounds, length
    <3>2. r.maxLen \in Nat /\ r.maxLen >= length(b) + Len(bytes) BY <1>2, <1>6 DEF Buffer
    <3> QED BY <2>3, <2>4, <3>1, <3>2, <1>1, <1>2 DEF InBounds
  <2>6. /\ \A i \in 1..Len(bytes) : h.buf[i] = bytes[i]
        /\ \A i \in 1..length(b) : h.buf[Len(bytes) + i] = b.buf[i]
    BY <2>1, <2>3, <1>2 DEF length
  <2> QED BY <1>2, <1>4, <1>6, <2>3, <2>4, <2>5, <2>6
<1> QED BY <1>5, <1>6

(* reset (net_buffer.cpp:70) empties a buffer that is not locked. *)
LEMMA ResetLemma ==
  ASSUME NEW S, NEW b \in Buffer(S), InBounds(b)
  PROVE  /\ reset(b) \in Buffer(S)
         /\ InBounds(reset(b))
         /\ ~b.lock => length(reset(b)) = 0 /\ reset(b).readPos = 0
         /\ b.lock => reset(b) = b
<1>1. CASE b.lock BY <1>1 DEF reset
<1>2. CASE ~b.lock
  <2> DEFINE e == << >>
  <2>1. reset(b) = [b EXCEPT !.buf = e, !.readPos = 0] BY <1>2 DEF reset
  <2>2. e \in Seq(S) /\ Len(e) = 0 BY EmptySeq
  <2> HIDE DEF e
  <2>3. /\ reset(b) \in Buffer(S) /\ reset(b).buf = e /\ reset(b).readPos = 0
        /\ reset(b).maxLen = b.maxLen
    <3>1. reset(b) = [buf |-> e, readPos |-> 0, maxLen |-> b.maxLen, lock |-> b.lock]
      BY <2>1 DEF Buffer
    <3> QED BY <3>1, <2>2 DEF Buffer
  <2> QED BY <1>2, <2>2, <2>3 DEF InBounds, length, Buffer
<1> QED BY <1>1, <1>2

(* lock (net_buffer.h:30) changes neither the positions nor the contents. *)
LEMMA SetLockLemma ==
  ASSUME NEW S, NEW b \in Buffer(S), InBounds(b)
  PROVE  /\ setLock(b) \in Buffer(S)
         /\ InBounds(setLock(b))
         /\ setLock(b).buf = b.buf /\ setLock(b).readPos = b.readPos
         /\ length(setLock(b)) = length(b)
<1>1. /\ setLock(b) \in Buffer(S) /\ setLock(b).buf = b.buf
      /\ setLock(b).readPos = b.readPos /\ setLock(b).maxLen = b.maxLen
  BY DEF setLock, Buffer
<1> QED BY <1>1 DEF InBounds, length

(***************************************************************************)
(* readBuffer (net_buffer.cpp:94): len bytes, no more than either side     *)
(* allows, leave the unread bytes of src and are appended to dst.          *)
(***************************************************************************)
LEMMA ReadBufferLemma ==
  ASSUME NEW S, NEW src \in Buffer(S), NEW dst \in Buffer(S),
         InBounds(src), InBounds(dst), ~dst.lock
  PROVE  LET len  == readBufferLen(src, dst)
             from == readBufferFrom(src, dst)
             into == readBufferInto(src, dst)
         IN
         /\ len \in Nat
         /\ len <= needReadLength(src)
         /\ len <= dst.maxLen - length(dst)
         /\ len = needReadLength(src) \/ len = dst.maxLen - length(dst)
         /\ from \in Buffer(S) /\ InBounds(from)
         /\ from.buf = src.buf /\ from.maxLen = src.maxLen /\ from.lock = src.lock
         /\ from.readPos = src.readPos + len
         /\ into \in Buffer(S) /\ InBounds(into)
         /\ into.readPos = dst.readPos /\ into.maxLen = dst.maxLen /\ ~into.lock
         /\ length(into) = length(dst) + len
         /\ \A i \in 1..length(dst) : into.buf[i] = dst.buf[i]
         /\ \A i \in 1..len : into.buf[length(dst) + i] = src.buf[src.readPos + i]
<1> DEFINE len == readBufferLen(src, dst)
           p   == peek(src, len)
<1>1. /\ src.buf \in Seq(S) /\ dst.buf \in Seq(S)
      /\ Len(src.buf) \in Nat /\ Len(dst.buf) \in Nat
      /\ src.readPos \in Nat /\ dst.readPos \in Nat
      /\ src.maxLen \in Nat /\ dst.maxLen \in Nat
  BY LenProperties DEF Buffer
<1>2. /\ len \in Nat
      /\ len <= needReadLength(src)
      /\ len <= dst.maxLen - length(dst)
      /\ len = needReadLength(src) \/ len = dst.maxLen - length(dst)
  BY <1>1 DEF readBufferLen, needReadLength, length, isFull, hasWrite, InBounds
<1>3. canRead(src, len) BY <1>2 DEF canRead
<1> HIDE DEF len
<1>4. /\ readBufferFrom(src, dst) \in Buffer(S)
      /\ InBounds(readBufferFrom(src, dst))
      /\ readBufferFrom(src, dst).buf = src.buf
      /\ readBufferFrom(src, dst).maxLen = src.maxLen
      /\ readBufferFrom(src, dst).lock = src.lock
      /\ readBufferFrom(src, dst).readPos = src.readPos + len
  <2>1. readBufferFrom(src, dst) = readData(src, len) BY DEF readBufferFrom, len
  <2> QED BY <2>1, <1>2, <1>3, ReadDataLemma
<1>5. /\ p \in Seq(S)
      /\ Len(p) = len
      /\ \A i \in 1..len : p[i] = src.buf[src.readPos + i]
  <2>1. src.readPos + len <= Len(src.buf)
    BY <1>1, <1>2 DEF needReadLength, length
  <2> DEFINE s == src.buf
             k == src.readPos
  <2>2. s \in Seq(S) /\ k \in Nat /\ len \in Nat /\ k + len <= Len(s)
    BY <1>1, <1>2, <2>1
  <2>3. p = SubSeq(s, k + 1, k + len) BY DEF peek
  <2> HIDE DEF s, k, p
  <2>4. /\ SubSeq(s, k + 1, k + len) \in Seq(S)
        /\ Len(SubSeq(s, k + 1, k + len)) = len
        /\ \A i \in 1..len : SubSeq(s, k + 1, k + len)[i] = s[k + i]
    BY <2>2, WindowLemma, Zenon
  <2>5. p \in Seq(S) /\ Len(p) = len /\ \A i \in 1..len : p[i] = s[k + i]
    BY <2>3, <2>4, Zenon
  <2> QED BY <2>5, Zenon DEF s, k
<1>6. readBufferInto(src, dst) = tail(dst, p) BY DEF readBufferInto, len
<1> HIDE DEF p
<1>7. /\ tail(dst, p) \in Buffer(S)
      /\ tail(dst, p).readPos = dst.readPos
      /\ tail(dst, p).maxLen = dst.maxLen
      /\ tail(dst, p).lock = dst.lock
      /\ length(tail(dst, p)) = length(dst) + Len(p)
      /\ \A i \in 1..length(dst) : tail(dst, p).buf[i] = dst.buf[i]
      /\ \A i \in 1..Len(p) : tail(dst, p).buf[length(dst) + i] = p[i]
  BY <1>5, TailLemma
<1>8. InBounds(tail(dst, p))
  <2>1. length(dst) \in Nat BY <1>1 DEF length
  <2>2. dst.readPos <= length(dst) BY DEF InBounds
  <2>3. length(tail(dst, p)) = length(dst) + len BY <1>5, <1>7
  <2> QED BY <1>1, <1>2, <1>7, <2>1, <2>2, <2>3 DEF InBounds
<1> QED BY <1>2, <1>4, <1>5, <1>6, <1>7, <1>8 DEF len

(* The bytes that readData() points at are those behind the read position. *)
LEMMA UnreadLemma ==
  ASSUME NEW S, NEW b \in Buffer(S), InBounds(b)
  PROVE  /\ unread(b) \in Seq(S)
         /\ Len(unread(b)) = needReadLength(b)
         /\ \A i \in 1..needReadLength(b) : unread(b)[i] = b.buf[b.readPos + i]
<1> DEFINE c == clearReadBuffer(b)
<1>1. c.buf = unread(b) BY DEF clearReadBuffer, Buffer
<1>2. /\ c \in Buffer(S) /\ length(c) = needReadLength(b)
      /\ \A i \in 1..length(c) : c.buf[i] = b.buf[b.readPos + i]
  BY ClearReadBufferLemma
<1>3. c.buf \in Seq(S) BY <1>2 DEF Buffer
<1> QED BY <1>1, <1>2, <1>3 DEF length

(***************************************************************************)
(* readBuffer (net_buffer.cpp:94) conserves: what is unread in dst and     *)
(* then in src is the same sequence of bytes before and after.             *)
(***************************************************************************)
LEMMA TransferLemma ==
  ASSUME NEW S, NEW src \in Buffer(S), NEW dst \in Buffer(S),
         InBounds(src), InBounds(dst), ~dst.lock
  PROVE  unread(readBufferInto(src, dst)) \o unread(readBufferFrom(src, dst))
           = unread(dst) \o unread(src)
<1> DEFINE len  == readBufferLen(src, dst)
           from == readBufferFrom(src, dst)
           into == readBufferInto(src, dst)
           u    == unread(dst)
           v    == unread(src)
           ui   == unread(into)
           vf   == unread(from)
           d    == needReadLength(dst)
           s    == needReadLength(src)
<1>1. /\ len \in Nat /\ len <= needReadLength(src)
      /\ from \in Buffer(S) /\ InBounds(from) /\ from.buf = src.buf
      /\ from.readPos = src.readPos + len
      /\ into \in Buffer(S) /\ InBounds(into) /\ into.readPos = dst.readPos
      /\ length(into) = length(dst) + len
      /\ \A i \in 1..length(dst) : into.buf[i] = dst.buf[i]
      /\ \A i \in 1..len : into.buf[length(dst) + i] = src.buf[src.readPos + i]
  BY ReadBufferLemma
<1>2. /\ length(dst) \in Nat /\ dst.readPos \in Nat /\ length(src) \in Nat
      /\ src.readPos \in Nat /\ dst.readPos <= length(dst) /\ src.readPos <= length(src)
  BY LenProperties DEF Buffer, length, InBounds
<1> HIDE DEF len, from, into
<1>3. d \in Nat /\ s \in Nat BY <1>2 DEF needReadLength
<1>4. needReadLength(into) = d + len /\ needReadLength(from) = s - len
  <2>1. length(from) = length(src) BY <1>1 DEF length
  <2> QED BY <2>1, <1>1, <1>2 DEF needReadLength
<1>5. /\ u \in Seq(S) /\ Len(u) = d /\ \A i \in 1..d : u[i] = dst.buf[dst.readPos + i]
      /\ v \in Seq(S) /\ Len(v) = s /\ \A i \in 1..s : v[i] = src.buf[src.readPos + i]
  BY UnreadLemma
<1>6. /\ ui \in Seq(S) /\ Len(ui) = d + len
      /\ \A i \in 1..(d + len) : ui[i] = into.buf[dst.readPos + i]
  <2>1. /\ ui \in Seq(S) /\ Len(ui) = needReadLength(into)
        /\ \A i \in 1..needReadLength(into) : ui[i] = into.buf[into.readPos + i]
    BY <1>1, UnreadLemma
  <2> QED BY <2>1, <1>1, <1>4
<1>7. /\ vf \in Seq(S) /\ Len(vf) = s - len
      /\ \A i \in 1..(s - len) : vf[i] = src.buf[src.readPos + len + i]
  <2>1. /\ vf \in Seq(S) /\ Len(vf) = needReadLength(from)
        /\ \A i \in 1..needReadLength(from) : vf[i] = from.buf[from.readPos + i]
    BY <1>1, UnreadLemma
  <2> QED BY <2>1, <1>1, <1>4
<1>8. /\ u \o v \in Seq(S) /\ Len(u \o v) = d + s
      /\ \A i \in 1..(d + s) : (u \o v)[i] = IF i <= d THEN u[i] ELSE v[i - d]
  <2> HIDE DEF u, v, d, s
  <2> QED BY <1>5, ConcatProperties
<1>9. /\ ui \o vf \in Seq(S) /\ Len(ui \o vf) = d + s
      /\ \A i \in 1..(d + s) : (ui \o vf)[i] =
           IF i <= d + len THEN ui[i] ELSE vf[i - (d + len)]
  <2> HIDE DEF ui, vf, d, s
  <2>1. (d + len) + (s - len) = d + s BY <1>1, <1>3
  <2>2. /\ ui \o vf \in Seq(S) /\ Len(ui \o vf) = Len(ui) + Len(vf)
        /\ \A i \in 1..(Len(ui) + Len(vf)) : (ui \o vf)[i] =
             IF i <= Len(ui) THEN ui[i] ELSE vf[i - Len(ui)]
    BY <1>6, <1>7, ConcatProperties
  <2>3. Len(ui) = d + len /\ Len(ui) + Len(vf) = d + s BY <1>6, <1>7, <2>1
  <2> QED BY <2>2, <2>3, Zenon
<1>10. ASSUME NEW i \in 1..(d + s) PROVE (ui \o vf)[i] = (u \o v)[i]
  <2> DEFINE r == dst.readPos
             k == src.readPos
  <2>1. length(dst) = r + d BY <1>2 DEF needReadLength
  <2>2. len \in Nat /\ len <= s BY <1>1
  <2> HIDE DEF d, s, u, v, ui, vf
  <2>6. i <= d \/ (i > d /\ i <= d + len) \/ i > d + len BY <2>2, <1>3
  <2>3. CASE i <= d
    <3>1. r + i \in 1..length(dst) /\ i \in 1..d /\ i \in 1..(d + len) BY <2>1, <2>3, <1>1, <1>2, <1>3
    <3>2. ui[i] = dst.buf[r + i] BY <3>1, <1>1, <1>6
    <3>3. u[i] = dst.buf[r + i] BY <3>1, <1>5
    <3>4. (ui \o vf)[i] = ui[i] /\ (u \o v)[i] = u[i] BY <3>1, <2>3, <1>1, <1>3, <1>8, <1>9
    <3> QED BY <3>2, <3>3, <3>4
  <2>4. CASE i > d /\ i <= d + len
    <3>1. i - d \in 1..len /\ i \in 1..(d + len) /\ i - d \in 1..s
      BY <2>2, <2>4, <1>1, <1>3
    <3>2. r + i = length(dst) + (i - d) BY <2>1, <1>2, <1>3
    <3>3. ui[i] = src.buf[k + (i - d)] BY <3>1, <3>2, <1>1, <1>6
    <3>4. v[i - d] = src.buf[k + (i - d)] BY <3>1, <1>5
    <3>5. (ui \o vf)[i] = ui[i] /\ (u \o v)[i] = v[i - d] BY <3>1, <2>4, <1>1, <1>3, <1>8, <1>9
    <3> QED BY <3>3, <3>4, <3>5
  <2>5. CASE i > d + len
    <3>1. i - (d + len) \in 1..(s - len) /\ i - d \in 1..s /\ ~(i <= d)
      BY <2>2, <2>5, <1>1, <1>3
    <3>2. k + len + (i - (d + len)) = k + (i - d) BY <1>1, <1>2, <1>3
    <3>3. vf[i - (d + len)] = src.buf[k + (i - d)] BY <3>1, <3>2, <1>7
    <3>4. v[i - d] = src.buf[k + (i - d)] BY <3>1, <1>5
    <3>5. ~(i <= d + len) BY <2>2, <2>5, <1>3
    <3>6. (ui \o vf)[i] = vf[i - (d + len)] BY <3>5, <1>9, Zenon
    <3>7. (u \o v)[i] = v[i - d] BY <3>1, <1>8, Zenon
    <3> QED BY <3>3, <3>4, <3>6, <3>7
  <2> QED BY <2>3, <2>4, <2>5, <2>6
<1>11. ui \o vf = u \o v
  <2> DEFINE x == ui \o vf
             y == u \o v
  <2>1. x \in Seq(S) /\ y \in Seq(S) /\ Len(x) = Len(y) /\ \A i \in 1..Len(x) : x[i] = y[i]
    BY <1>8, <1>9, <1>10
  <2> HIDE DEF x, y
  <2>2. x = y BY <2>1, SeqEqual
  <2> QED BY <2>2 DEF x, y
<1> QED BY <1>11 DEF from, into

(* setHead (net_buffer.cpp:134) overwrites the first bytes of a buffer that has them. *)
LEMMA SetHeadLemma ==
  ASSUME NEW S, NEW b \in Buffer(S), NEW bytes \in Seq(S), InBounds(b),
         ~b.lock, Len(bytes) <= length(b)
  PROVE  LET h == setHead(b, bytes) IN
         /\ h \in Buffer(S)
         /\ InBounds(h)
         /\ ~h.lock
         /\ length(h) = length(b)
         /\ \A i \in 1..Len(bytes) : h.buf[i] = bytes[i]
         /\ \A i \in (Len(bytes) + 1)..length(b) : h.buf[i] = b.buf[i]
<1> DEFINE l == Len(bytes)
           n == Len(b.buf) - l
           s == SubSeq(b.buf, l + 1, Len(b.buf))
           h == setHead(b, bytes)
<1>1. /\ b.buf \in Seq(S) /\ Len(b.buf) \in Nat /\ l \in Nat /\ l <= Len(b.buf)
  BY LenProperties DEF Buffer, length
<1>2. n \in Nat /\ l + n = Len(b.buf) BY <1>1
<1> HIDE DEF l, n
<1>3. /\ s \in Seq(S) /\ Len(s) = n
      /\ \A i \in 1..n : s[i] = b.buf[l + i]
  <2>1. s = SubSeq(b.buf, l + 1, l + n) BY <1>2
  <2>2. /\ SubSeq(b.buf, l + 1, l + n) \in Seq(S)
        /\ Len(SubSeq(b.buf, l + 1, l + n)) = n
        /\ \A i \in 1..n : SubSeq(b.buf, l + 1, l + n)[i] = b.buf[l + i]
    <3>1. l + n <= Len(b.buf) BY <1>1, <1>2
    <3> QED BY <1>1, <1>2, <3>1, WindowLemma
  <2> QED BY <2>1, <2>2
<1>4. h = [b EXCEPT !.buf = bytes \o s]
  <2>1. ~(Len(bytes) > length(b)) BY <1>1 DEF length, l
  <2> QED BY <2>1 DEF setHead, l
<1> HIDE DEF s, h
<1>5. /\ bytes \o s \in Seq(S) /\ Len(bytes \o s) = l + n
      /\ \A i \in 1..l : (bytes \o s)[i] = bytes[i]
      /\ \A i \in 1..n : (bytes \o s)[l + i] = s[i]
  <2>1. Len(bytes) = l BY DEF l
  <2>2. /\ bytes \o s \in Seq(S)
        /\ Len(bytes \o s) = Len(bytes) + Len(s)
        /\ \A i \in 1..(Len(bytes) + Len(s)) :
             (bytes \o s)[i] = IF i <= Len(bytes) THEN bytes[i] ELSE s[i - Len(bytes)]
    BY <1>3, ConcatProperties
  <2>3. \A i \in 1..l : i \in 1..(l + n) /\ i <= l BY <1>1, <1>2
  <2>4. \A i \in 1..n : l + i \in 1..(l + n) /\ ~(l + i <= l) /\ (l + i) - l = i BY <1>1, <1>2
  <2> DEFINE c == bytes \o s
  <2> HIDE DEF c
  <2>5. /\ \A i \in 1..(l + n) : c[i] = IF i <= l THEN bytes[i] ELSE s[i - l]
        /\ c \in Seq(S) /\ Len(c) = l + n
    BY <1>3, <2>1, <2>2 DEF c
  <2> QED BY <2>3, <2>4, <2>5 DEF c
<1>6. /\ h \in Buffer(S) /\ h.buf = bytes \o s
      /\ h.readPos = b.readPos /\ h.maxLen = b.maxLen /\ h.lock = b.lock
  BY <1>4, <1>5 DEF Buffer
<1>7. length(h) = length(b) BY <1>2, <1>5, <1>6 DEF length
<1>8. InBounds(h) BY <1>6, <1>7 DEF InBounds
<1>9. \A i \in (l + 1)..length(b) : h.buf[i] = b.buf[i]
  <2> SUFFICES ASSUME NEW i \in (l + 1)..length(b) PROVE h.buf[i] = b.buf[i] OBVIOUS
  <2> DEFINE j == i - l
  <2>1. j \in 1..n /\ l + j = i BY <1>1, <1>2 DEF length
  <2> HIDE DEF j
  <2> QED BY <2>1, <1>3, <1>5, <1>6
<1>10. \A i \in 1..l : h.buf[i] = bytes[i] BY <1>5, <1>6
<1> QED BY <1>6, <1>7, <1>8, <1>9, <1>10 DEF l, h
-----------------------------------------------------------------------------
(* Recursion and induction over the naturals *)

(* A set of naturals has a least element. *)
LEMMA LeastNatural ==
  ASSUME NEW T \in SUBSET Nat, T # {}
  PROVE  \E x \in T : \A y \in T : x <= y
<1> DEFINE R == OpToRel(<, Nat)
<1>1. IsWellFoundedOn(R, Nat) BY NatLessThanWellFounded, Zenon
<1>2. \A x, y \in Nat : y < x => <<y, x>> \in R BY DEF OpToRel
<1> HIDE DEF R
<1>3. \E x \in T : \A y \in T : ~(<<y, x>> \in R) BY <1>1, WFMin
<1>4. PICK x \in T : \A y \in T : ~(<<y, x>> \in R) BY <1>3
<1>5. \A y \in T : ~(y < x) BY <1>2, <1>4
<1>6. \A y \in T : x <= y BY <1>5
<1> QED BY <1>6

(* Induction, stated for sets. *)
LEMMA NatSetInduction ==
  ASSUME NEW A \in SUBSET Nat, 0 \in A, \A n \in A : n + 1 \in A
  PROVE  A = Nat
<1> SUFFICES ASSUME Nat \ A # {} PROVE FALSE OBVIOUS
<1>1. PICK x \in Nat \ A : \A y \in Nat \ A : x <= y BY LeastNatural
<1>2. x # 0 /\ x - 1 \in Nat /\ ~(x <= x - 1) BY <1>1
<1>3. x - 1 \in A BY <1>1, <1>2
<1>4. (x - 1) + 1 \in A BY <1>3
<1> QED BY <1>1, <1>2, <1>4

(* Induction up to N, stated for sets. *)
LEMMA IntervalInduction ==
  ASSUME NEW A, NEW N \in Nat, 0 \in A, \A n \in 1..N : n - 1 \in A => n \in A
  PROVE  \A n \in 0..N : n \in A
<1> DEFINE B == {n \in Nat : n <= N => n \in A}
<1>1. 0 \in B OBVIOUS
<1>2. ASSUME NEW n \in B PROVE n + 1 \in B
  <2> SUFFICES ASSUME n + 1 <= N PROVE n + 1 \in A BY <1>2
  <2>1. n \in Nat /\ n + 1 \in 1..N /\ (n + 1) - 1 = n /\ n <= N BY <1>2
  <2>2. n \in A BY <1>2, <2>1
  <2> QED BY <2>1, <2>2
<1>3. B \in SUBSET Nat OBVIOUS
<1> HIDE DEF B
<1>4. B = Nat BY <1>1, <1>2, <1>3, NatSetInduction
<1> QED BY <1>4 DEF B

(* g is the function that c and the step F define by recursion up to N. *)
Recursive(g, V, c, F, N) ==
  /\ g \in [0..N -> V]
  /\ g[0] = c
  /\ \A n \in 1..N : g[n] = F[<<g[n - 1], n>>]

Steps(F, V, N) == \A v \in V, n \in 1..N : F[<<v, n>>] \in V

(* A function with the given start and step exists. *)
LEMMA RecursionLemma ==
  ASSUME NEW V, NEW c \in V, NEW N \in Nat, NEW F, Steps(F, V, N)
  PROVE  \E g : Recursive(g, V, c, F, N)
<1> DEFINE A == {M \in Nat : M <= N => \E g : Recursive(g, V, c, F, M)}
<1>1. 0 \in A
  <2>1. Recursive([n \in 0..0 |-> c], V, c, F, 0) BY DEF Recursive
  <2> QED BY <2>1
<1>2. ASSUME NEW M \in A PROVE M + 1 \in A
  <2> SUFFICES ASSUME M + 1 <= N PROVE \E g : Recursive(g, V, c, F, M + 1) BY DEF A
  <2>1. M \in Nat /\ M <= N BY <1>2
  <2>2. PICK g : Recursive(g, V, c, F, M) BY <1>2, <2>1
  <2>3. M \in 0..M /\ g[M] \in V /\ M + 1 \in 1..N BY <2>1, <2>2 DEF Recursive
  <2> DEFINE v == F[<<g[M], M + 1>>]
             h == [n \in 0..(M + 1) |-> IF n = M + 1 THEN v ELSE g[n]]
  <2>4. v \in V BY <2>3 DEF Steps
  <2>5. /\ \A n \in 0..M : h[n] = g[n]
        /\ h[M + 1] = v
    BY <2>1
  <2>6. \A n \in 0..(M + 1) : n \in 0..M \/ n = M + 1 BY <2>1
  <2>7. h \in [0..(M + 1) -> V] BY <2>2, <2>4, <2>6 DEF Recursive
  <2> HIDE DEF h, v
  <2>8. h[0] = c BY <2>1, <2>2, <2>5 DEF Recursive
  <2>9. \A n \in 1..(M + 1) : h[n] = F[<<h[n - 1], n>>]
    <3> SUFFICES ASSUME NEW n \in 1..(M + 1) PROVE h[n] = F[<<h[n - 1], n>>] OBVIOUS
    <3>1. CASE n = M + 1
      <4>1. n - 1 = M /\ M \in 0..M BY <2>1, <3>1
      <4> QED BY <2>5, <3>1, <4>1 DEF v
    <3>2. CASE n # M + 1
      <4>1. n \in 1..M /\ n \in 0..M /\ n - 1 \in 0..M BY <2>1, <3>2
      <4>2. h[n] = g[n] /\ h[n - 1] = g[n - 1] BY <2>5, <4>1
      <4>3. g[n] = F[<<g[n - 1], n>>] BY <2>2, <4>1 DEF Recursive
      <4> QED BY <4>2, <4>3
    <3> QED BY <3>1, <3>2
  <2> QED BY <2>7, <2>8, <2>9 DEF Recursive
<1>3. A \in SUBSET Nat OBVIOUS
<1> HIDE DEF A
<1>4. A = Nat BY <1>1, <1>2, <1>3, NatSetInduction
<1>5. N <= N OBVIOUS
<1> QED BY <1>4, <1>5 DEF A
-----------------------------------------------------------------------------
(* Concatenations *)

(* g[k] is c followed by the pieces e[1], ..., e[k]. *)
Concat(g, c, e, N) == g = [k \in 0..N |-> IF k = 0 THEN c ELSE g[k - 1] \o e[k]]

Pieces(e, S, N) == \A k \in 1..N : e[k] \in Seq(S)

(* s begins with r. *)
Begins(s, r) == Len(r) <= Len(s) /\ \A i \in 1..Len(r) : s[i] = r[i]

(* Concatenations of sequences exist ... *)
LEMMA ConcatExists ==
  ASSUME NEW S, NEW c \in Seq(S), NEW N \in Nat, NEW e, Pieces(e, S, N)
  PROVE  \E g : Concat(g, c, e, N)
<1> DEFINE V == Seq(S)
           F == [p \in V \X (1..N) |-> p[1] \o e[p[2]]]
<1>1. \A v \in V, k \in 1..N : F[<<v, k>>] = v \o e[k] OBVIOUS
<1> HIDE DEF F
<1>2. Steps(F, V, N)
  <2>1. \A v \in V, k \in 1..N : v \o e[k] \in V BY ConcatProperties DEF Pieces
  <2> HIDE DEF V
  <2> QED BY <1>1, <2>1 DEF Steps
<1>3. c \in V OBVIOUS
<1> HIDE DEF V
<1>4. PICK h : Recursive(h, V, c, F, N) BY <1>2, <1>3, RecursionLemma
<1>5. \A k \in 1..N : k - 1 \in 0..N /\ k \in 0..N /\ k # 0 /\ h[k - 1] \in V
  BY <1>4 DEF Recursive
<1>6. \A k \in 1..N : h[k] = h[k - 1] \o e[k] BY <1>1, <1>4, <1>5 DEF Recursive
<1>7. Concat(h, c, e, N)
  <2>1. \A k \in 0..N : h[k] = IF k = 0 THEN c ELSE h[k - 1] \o e[k]
    <3>1. h[0] = c BY <1>4 DEF Recursive
    <3>2. \A k \in 0..N : k = 0 \/ (k \in 1..N /\ k # 0) OBVIOUS
    <3> QED BY <1>6, <3>1, <3>2, Zenon
  <2> QED BY <1>4, <2>1 DEF Recursive, Concat
<1> QED BY <1>7

(* ... and are sequences. *)
LEMMA ConcatLemma ==
  ASSUME NEW S, NEW c \in Seq(S), NEW N \in Nat, NEW e, Pieces(e, S, N),
         NEW g, Concat(g, c, e, N)
  PROVE  /\ g[0] = c
         /\ \A k \in 1..N : g[k] = g[k - 1] \o e[k]
         /\ \A k \in 0..N : g[k] \in Seq(S)
<1>1. \A k \in 0..N : g[k] = IF k = 0 THEN c ELSE g[k - 1] \o e[k] BY DEF Concat
<1>2. 0 \in 0..N /\ \A k \in 1..N : k \in 0..N /\ k # 0 OBVIOUS
<1>3. g[0] = c /\ \A k \in 1..N : g[k] = g[k - 1] \o e[k] BY <1>1, <1>2
<1> DEFINE A == {k \in 0..N : g[k] \in Seq(S)}
<1>4. 0 \in A BY <1>2, <1>3
<1>5. ASSUME NEW k \in 1..N, k - 1 \in A PROVE k \in A
  <2>1. g[k - 1] \in Seq(S) /\ e[k] \in Seq(S) BY <1>5 DEF Pieces
  <2>2. g[k - 1] \o e[k] \in Seq(S) BY <2>1, ConcatProperties
  <2> QED BY <1>2, <1>3, <2>2
<1> HIDE DEF A
<1>6. \A k \in 0..N : k \in A BY <1>4, <1>5, IntervalInduction
<1> QED BY <1>3, <1>6 DEF A

(* What follows does not change what is there. *)
LEMMA ConcatPrefix ==
  ASSUME NEW S, NEW c \in Seq(S), NEW N \in Nat, NEW e, Pieces(e, S, N),
         NEW g, Concat(g, c, e, N)
  PROVE  \A m \in 0..N : \A k \in 0..m : Begins(g[m], g[k])
<1> DEFINE A == {m \in 0..N : \A k \in 0..m : Begins(g[m], g[k])}
<1>1. /\ g[0] = c
      /\ \A k \in 1..N : g[k] = g[k - 1] \o e[k]
      /\ \A k \in 0..N : g[k] \in Seq(S)
  BY ConcatLemma, Zenon
<1>2. 0 \in A
  <2>1. 0 \in 0..N /\ \A k \in 0..0 : k = 0 OBVIOUS
  <2>2. Len(g[0]) \in Nat BY <1>1, <2>1, LenProperties
  <2>3. Len(g[0]) <= Len(g[0]) BY <2>2
  <2> QED BY <2>1, <2>3 DEF Begins
<1>3. ASSUME NEW m \in 1..N, m - 1 \in A PROVE m \in A
  <2> DEFINE u == g[m - 1]
             v == g[m]
             s == e[m]
  <2>1. m - 1 \in 0..N /\ m \in 0..N OBVIOUS
  <2>2. u \in Seq(S) /\ v = u \o s /\ s \in Seq(S) /\ v \in Seq(S) BY <1>1, <2>1 DEF Pieces
  <2>3. Len(u) \in Nat /\ Len(s) \in Nat /\ Len(v) \in Nat BY <2>2, LenProperties
  <2> HIDE DEF u, v, s
  <2>4. Begins(v, u) /\ Len(u) <= Len(v)
    <3>1. /\ Len(v) = Len(u) + Len(s)
          /\ \A i \in 1..(Len(u) + Len(s)) :
               v[i] = IF i <= Len(u) THEN u[i] ELSE s[i - Len(u)]
      BY <2>2, ConcatProperties
    <3>2. \A i \in 1..Len(u) : i \in 1..(Len(u) + Len(s)) /\ i <= Len(u) BY <2>3
    <3>3. Len(u) <= Len(v) BY <2>3, <3>1
    <3> QED BY <3>1, <3>2, <3>3 DEF Begins
  <2>5. ASSUME NEW k \in 0..m PROVE Begins(v, g[k])
    <3>1. CASE k = m
      <4>1. Len(v) <= Len(v) BY <2>3
      <4> QED BY <3>1, <4>1 DEF Begins, v
    <3>2. CASE k # m
      <4>1. k \in 0..(m - 1) BY <3>2
      <4>2. Begins(u, g[k]) BY <1>3, <4>1 DEF u
      <4>3. k \in 0..N BY <2>1, <4>1
      <4>4. Len(g[k]) \in Nat BY <1>1, <4>3, LenProperties
      <4>5. Len(g[k]) <= Len(u) BY <4>2 DEF Begins
      <4>6. Len(g[k]) <= Len(v) BY <2>3, <2>4, <4>4, <4>5
      <4>7. \A i \in 1..Len(g[k]) : i \in 1..Len(u) BY <2>3, <4>4, <4>5
      <4> QED BY <2>4, <4>2, <4>6, <4>7 DEF Begins
    <3> QED BY <3>1, <3>2
  <2> QED BY <2>1, <2>5 DEF v
<1> HIDE DEF A
<1>4. \A m \in 0..N : m \in A BY <1>2, <1>3, IntervalInduction
<1> QED BY <1>4 DEF A

(* Where the k-th piece lies in the whole. *)
PieceAt(g, e, N, k) ==
  /\ Len(g[k - 1]) \in Nat
  /\ Len(g[k]) = Len(g[k - 1]) + Len(e[k])
  /\ Len(g[k]) <= Len(g[N])
  /\ \A i \in 1..Len(e[k]) : g[N][Len(g[k - 1]) + i] = e[k][i]

(* Piece k lies in the whole from where the first k - 1 pieces end. *)
LEMMA ConcatPiece ==
  ASSUME NEW S, NEW c \in Seq(S), NEW N \in Nat, NEW e, Pieces(e, S, N),
         NEW g, Concat(g, c, e, N), NEW k \in 1..N
  PROVE  PieceAt(g, e, N, k)
<1> DEFINE u == g[k - 1]
           v == g[k]
           W == g[N]
           s == e[k]
           q == Len(u)
           l == Len(s)
<1>1. k - 1 \in 0..N /\ k \in 0..N /\ N \in 0..N OBVIOUS
<1>2. u \in Seq(S) /\ v = u \o s /\ s \in Seq(S)
  <2>1. /\ g[0] = c
        /\ \A j \in 1..N : g[j] = g[j - 1] \o e[j]
        /\ \A j \in 0..N : g[j] \in Seq(S)
    BY ConcatLemma, Zenon
  <2> QED BY <1>1, <2>1 DEF Pieces
<1>3. Begins(W, v) BY <1>1, ConcatPrefix
<1> HIDE DEF u, v, W, s
<1>4. q \in Nat /\ l \in Nat BY <1>2, LenProperties
<1>5. /\ Len(v) = q + l
      /\ \A i \in 1..(q + l) : v[i] = IF i <= q THEN u[i] ELSE s[i - q]
  BY <1>2, ConcatProperties
<1> HIDE DEF q, l
<1>6. \A i \in 1..l : q + i \in 1..(q + l) /\ ~(q + i <= q) /\ (q + i) - q = i BY <1>4
<1>7. \A i \in 1..l : v[q + i] = s[i] BY <1>5, <1>6
<1>8. \A i \in 1..l : W[q + i] = s[i] BY <1>3, <1>5, <1>6, <1>7 DEF Begins
<1>9. Len(v) <= Len(W) BY <1>3 DEF Begins
<1> QED BY <1>4, <1>5, <1>8, <1>9 DEF PieceAt, u, v, W, s, q, l
=============================================================================
