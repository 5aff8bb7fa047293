---------------------------- MODULE NetBufferOps ----------------------------
(***************************************************************************)
(* A NetBuffer b, driven by any sequence of its public calls, and a second *)
(* buffer peer that b.readBuffer(peer) fills.  Bytes are numbered by their *)
(* place in the stream that went through b: a byte that is prepended gets  *)
(* the number before that of the next byte to be read.                     *)
(***************************************************************************)
EXTENDS NetBuffer

CONSTANTS MaxLen,        \* capacity that b is constructed with
          PeerLen,       \* capacity that peer is constructed with
          MaxChunk,      \* bytes per call, at most
          MaxBytes,      \* bytes appended (and prepended) in a run, at most
          HeadAfterRead  \* does a caller prepend after a partial read?

ASSUME BufferAssumption ==
  /\ MaxLen \in Nat /\ PeerLen \in Nat /\ MaxChunk \in Nat /\ MaxBytes \in Nat
  /\ HeadAfterRead \in BOOLEAN

VARIABLES b, peer,
          given,         \* number of the last byte appended to b
          taken          \* number of the last byte consumed from b

vars == <<b, peer, given, taken>>

(* The bytes numbered from + 1 .. from + n. *)
Bytes(from, n) == [i \in 1..n |-> from + i]

Init ==
  /\ b = NewBuffer(MaxLen)
  /\ peer = NewBuffer(PeerLen)
  /\ given = 0
  /\ taken = 0

TailData ==
  \E n \in 1..MaxChunk :
    /\ given + n <= MaxBytes
    /\ b' = tailData(b, Bytes(given, n))
    /\ given' = IF b.lock THEN given ELSE given + n
    /\ UNCHANGED <<peer, taken>>

(* The bytes are stored at writeData() first, so they must fit the space    *)
(* behind it, as in async_read_some(buffer(writeData(), maxLength() -       *)
(* length())); the call with one byte too many is the early return.         *)
WriteData ==
  \E n \in 1..MaxChunk :
    /\ given + n <= MaxBytes
    /\ b' = writeData(b, Bytes(given, n))
    /\ given' = given + (length(b') - length(b))
    /\ UNCHANGED <<peer, taken>>

HeadData ==
  \E n \in 1..MaxChunk :
    /\ taken - n >= -MaxBytes
    /\ b.readPos = 0 \/ HeadAfterRead
    /\ b' = headData(b, Bytes(taken - n, n))
    /\ taken' = IF b.lock THEN taken ELSE taken - n
    /\ UNCHANGED <<peer, given>>

ReadData ==
  \E n \in 1..MaxChunk :
    /\ b' = readData(b, n)
    /\ taken' = taken + (b'.readPos - b.readPos)
    /\ UNCHANGED <<peer, given>>

ClearReadBuffer ==
  /\ b' = clearReadBuffer(b)
  /\ UNCHANGED <<peer, given, taken>>

Reset ==
  /\ b' = reset(b)
  /\ taken' = IF b.lock THEN taken ELSE given
  /\ UNCHANGED <<peer, given>>

Lock ==
  /\ b' = setLock(b)
  /\ UNCHANGED <<peer, given, taken>>

ReadBuffer ==
  /\ b' = readBufferFrom(b, peer)
  /\ peer' = readBufferInto(b, peer)
  /\ taken' = taken + (b'.readPos - b.readPos)
  /\ UNCHANGED given

(* The owner of peer consumes what it was given (handleWrite's path through *)
(* writeMessage: readData(size), then clearReadBuffer()).                   *)
PeerConsume ==
  \E n \in 1..MaxChunk :
    /\ canRead(peer, n)
    /\ peer' = clearReadBuffer(readData(peer, n))
    /\ UNCHANGED <<b, given, taken>>

Next ==
  \/ TailData
  \/ WriteData
  \/ HeadData
  \/ ReadData
  \/ ClearReadBuffer
  \/ Reset
  \/ Lock
  \/ ReadBuffer
  \/ PeerConsume

Spec == Init /\ [][Next]_vars
-----------------------------------------------------------------------------
(* Types of the two buffers and of the two stream positions. *)
TypeOK ==
  /\ b \in Buffer(Int)
  /\ peer \in Buffer(Int)
  /\ given \in Int
  /\ taken \in Int

(***************************************************************************)
(* What the MYASSERTs of net_buffer.cpp demand (lines 51, 65, 120, 128):   *)
(* whatever calls are made, the read position never passes the write       *)
(* position and the write position never passes the allocation.            *)
(***************************************************************************)
Bounds ==
  /\ b.readPos <= length(b) /\ length(b) <= b.maxLen
  /\ peer.readPos <= length(peer) /\ length(peer) <= peer.maxLen

(***************************************************************************)
(* The buffer is a queue: what is left to read is exactly the bytes given  *)
(* and not yet taken, in order, through every mix of appends, prepends,    *)
(* over-reads, compactions, reallocations and transfers.                   *)
(***************************************************************************)
Fifo ==
  /\ taken + needReadLength(b) = given
  /\ \A i \in 1..needReadLength(b) : b.buf[b.readPos + i] = taken + i

(***************************************************************************)
(* readBuffer moves bytes, it neither loses, repeats nor reorders any: the *)
(* unread bytes of peer followed by those of b are the same before and     *)
(* after every call, also when peer is too small for all of them or full.  *)
(* (peer is never locked: a block's buffer is locked only when it is       *)
(* complete, and nothing is transferred into it after that.)               *)
(***************************************************************************)
TransferConserves ==
  [][ReadBuffer => unread(peer') \o unread(b') = unread(peer) \o unread(b)]_vars
=============================================================================
