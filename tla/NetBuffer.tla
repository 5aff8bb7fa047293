------------------------------ MODULE NetBuffer ------------------------------
(***************************************************************************)
(* The byte buffer of fannynet (class NetBuffer, include/net_buffer.h and  *)
(* src/net_buffer.cpp) as a record and pure operators on it.               *)
(*                                                                         *)
(*   buf      the bytes [m_buffer, m_buffer + m_writePos); m_writePos is   *)
(*            Len(buf), what lies beyond it is never read                  *)
(*   readPos  m_readPos                                                    *)
(*   maxLen   m_maxLen, the capacity                                       *)
(*   lock     m_lock                                                       *)
(*                                                                         *)
(* The operators are those of a build with NDEBUG, where MYASSERT is       *)
(* empty; what the asserts demand is stated as a property by the modules   *)
(* that call them.  An operation that changes two results of the C++ call  *)
(* (the buffer and the bytes handed out) is given as two operators.        *)
(***************************************************************************)
EXTENDS Integers, Sequences

Buffer(Byte) == [buf : Seq(Byte), readPos : Nat, maxLen : Nat, lock : BOOLEAN]

NewBuffer(len) == [buf |-> << >>, readPos |-> 0, maxLen |-> len, lock |-> FALSE]

length(b)         == Len(b.buf)
needReadLength(b) == length(b) - b.readPos
hasWrite(b)       == length(b) > 0
hasRead(b)        == needReadLength(b) > 0
isFull(b)         == length(b) >= b.maxLen
canRead(b, len)   == len <= needReadLength(b)

(* The bytes at readData(), and the first len of them. *)
unread(b)         == SubSeq(b.buf, b.readPos + 1, length(b))
peek(b, len)      == SubSeq(b.buf, b.readPos + 1, b.readPos + len)

setLock(b) == [b EXCEPT !.lock = TRUE]

(* writeData(len): commit bytes that were stored at writeData(). *)
writeData(b, bytes) ==
  IF length(b) + Len(bytes) > b.maxLen THEN b
  ELSE [b EXCEPT !.buf = @ \o bytes]

(* Mutant: the guard is dropped. *)
readDataUnchecked(b, len) == [b EXCEPT !.readPos = @ + len]

(* readData(len): step over len bytes, or do nothing if there are fewer. *)
readData(b, len) ==
  IF canRead(b, len) THEN [b EXCEPT !.readPos = @ + len] ELSE b

(* Mutant: the unread bytes are not moved to the front. *)
clearReadBufferUnmoved(b) ==
  [b EXCEPT !.buf = SubSeq(@, 1, needReadLength(b)), !.readPos = 0]

clearReadBuffer(b) == [b EXCEPT !.buf = unread(b), !.readPos = 0]

reset(b) == IF b.lock THEN b ELSE [b EXCEPT !.buf = << >>, !.readPos = 0]

resize(b, len) ==
  IF ~b.lock /\ len > b.maxLen THEN [b EXCEPT !.maxLen = len * 2] ELSE b

(* tail and head leave it to the caller that the bytes fit. *)
tail(b, bytes) == IF b.lock THEN b ELSE [b EXCEPT !.buf = @ \o bytes]
head(b, bytes) == IF b.lock THEN b ELSE [b EXCEPT !.buf = bytes \o @]

(* setHead overwrites the first bytes and moves neither position. *)
setHead(b, bytes) ==
  IF b.lock \/ Len(bytes) > length(b) THEN b
  ELSE [b EXCEPT !.buf = bytes \o SubSeq(@, Len(bytes) + 1, Len(@))]

tailData(b, bytes) == tail(resize(b, length(b) + Len(bytes)), bytes)
headData(b, bytes) == head(resize(b, length(b) + Len(bytes)), bytes)

(***************************************************************************)
(* src.readBuffer(dst) moves as many unread bytes as dst has room for.  It *)
(* changes both buffers: readBufferFrom is src after the call and          *)
(* readBufferInto is dst.                                                  *)
(***************************************************************************)
(* Mutant: the room in dst is subtracted the wrong way round. *)
readBufferLenSwapped(src, dst) ==
  IF isFull(dst) \/ ~hasWrite(src) THEN 0
  ELSE LET room == length(dst) - dst.maxLen
       IN  IF needReadLength(src) <= room THEN needReadLength(src) ELSE room

readBufferLen(src, dst) ==
  IF isFull(dst) \/ ~hasWrite(src) THEN 0
  ELSE LET room == dst.maxLen - length(dst)
       IN  IF needReadLength(src) <= room THEN needReadLength(src) ELSE room

(* Mutant: everything is consumed, whatever fitted into dst. *)
readBufferFromAll(src, dst) == readData(src, needReadLength(src))

readBufferFrom(src, dst) == readData(src, readBufferLen(src, dst))

readBufferInto(src, dst) == tail(dst, peek(src, readBufferLen(src, dst)))
=============================================================================
