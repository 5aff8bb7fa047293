--------------------------- MODULE ConnectionRecv ---------------------------
(***************************************************************************)
(* How a Connection turns the bytes it reads into blocks: async_read_some, *)
(* handleReadSome and NetBlock::recv.  The peer's stream is the bytes      *)
(* 1 .. StreamLen; TCP hands it over in pieces of any size.                *)
(*                                                                         *)
(* Errors and closing are in Connection: they end what is modelled here.   *)
(***************************************************************************)
EXTENDS NetBlock

CONSTANTS RecvBufSize,  \* capacity of m_bufferRecv (65535 in the code)
          StreamLen,    \* bound: bytes that the peer sends
          MaxFrame      \* bound: largest _len in a header

ASSUME RecvAssumption ==
  /\ RecvBufSize \in Nat /\ RecvBufSize >= HeadLen
  /\ StreamLen \in Nat
  /\ MaxFrame \in Nat /\ MaxFrame >= HeadLen

VARIABLES
  frameLen,       \* the _len field of the header that starts at a byte
  m_bufferRecv,
  m_waitMessage,  \* nullptr is a NewBlock: the next readMessage makes one
  arrived,        \* number of the last byte that was read from the socket
  pc,             \* "read": in async_read_some, "parse": in handleReadSome
  delivered       \* the blocks given to _eventPostRecv

vars == <<frameLen, m_bufferRecv, m_waitMessage, arrived, pc, delivered>>

(* The peer sends well-formed headers: _len counts the header itself        *)
(* (NetBlock::encrypt sets it to m_data->length()).  Where no frame starts, *)
(* frameLen is whatever the bytes there happen to encode.                   *)
Init ==
  /\ frameLen \in [1..StreamLen -> HeadLen..MaxFrame]
  /\ m_bufferRecv = NewBuffer(RecvBufSize)
  /\ m_waitMessage = NewBlock
  /\ arrived = 0
  /\ pc = "read"
  /\ delivered = << >>

(* async_read_some completes with n bytes and handleReadSome commits them. *)
ReadSome ==
  /\ pc = "read"
  /\ \E n \in 1..(m_bufferRecv.maxLen - length(m_bufferRecv)) :
       /\ arrived + n <= StreamLen
       /\ m_bufferRecv' = writeData(m_bufferRecv, [i \in 1..n |-> arrived + i])
       /\ arrived' = arrived + n
  /\ pc' = "parse"
  /\ UNCHANGED <<frameLen, m_waitMessage, delivered>>

(* Mutant: one block per read, the loop is missing. *)
ReadMessageOnce ==
  /\ pc = "parse"
  /\ hasWrite(m_bufferRecv)
  /\ LET w == recv(m_waitMessage, m_bufferRecv, frameLen) IN
       /\ m_bufferRecv' = w.buf
       /\ delivered' = IF bodyDone(w.m) THEN Append(delivered, w.m) ELSE delivered
       /\ m_waitMessage' = IF bodyDone(w.m) THEN NewBlock ELSE w.m
  /\ pc' = "read"
  /\ UNCHANGED <<frameLen, arrived>>

(* One iteration of the loop of handleReadSome. *)
ReadMessage ==
  /\ pc = "parse"
  /\ hasWrite(m_bufferRecv)
  /\ LET w == recv(m_waitMessage, m_bufferRecv, frameLen) IN
       /\ m_bufferRecv' = w.buf
       /\ \/ /\ bodyDone(w.m)
             /\ delivered' = Append(delivered, w.m)
             /\ m_waitMessage' = NewBlock
             /\ UNCHANGED pc
          \/ /\ ~bodyDone(w.m)
             /\ m_waitMessage' = w.m
             /\ pc' = "read"
             /\ UNCHANGED delivered
  /\ UNCHANGED <<frameLen, arrived>>

(* Nothing is left in the buffer: the loop ends and the next read starts. *)
ReadAgain ==
  /\ pc = "parse"
  /\ ~hasWrite(m_bufferRecv)
  /\ pc' = "read"
  /\ UNCHANGED <<frameLen, m_bufferRecv, m_waitMessage, arrived, delivered>>

Next == ReadSome \/ ReadMessage \/ ReadAgain

Spec == Init /\ [][Next]_vars
-----------------------------------------------------------------------------
Block == [state : {"INIT", "BODY", "DONE"}, m_head : Seq(Nat), alloc : BOOLEAN,
          data : Buffer(Nat)]

(* Types. *)
TypeOK ==
  /\ frameLen \in [1..StreamLen -> HeadLen..MaxFrame]
  /\ m_bufferRecv \in Buffer(Nat)
  /\ m_waitMessage \in Block
  /\ arrived \in Nat
  /\ pc \in {"read", "parse"}
  /\ delivered \in Seq(Block)

(* The byte after frame number k, and the byte where the next frame starts. *)
FrameEnd(k) == delivered[k].m_head[1] + frameLen[delivered[k].m_head[1]]
NextHead    == IF delivered = << >> THEN 1 ELSE FrameEnd(Len(delivered))

(* Block number k is the frame that starts at byte p: header and body.     *)
IsFrame(k, p) ==
  /\ Len(delivered[k].m_head) = HeadLen
  /\ \A i \in 1..HeadLen : delivered[k].m_head[i] = p + i - 1
  /\ Len(delivered[k].data.buf) = frameLen[p] - HeadLen
  /\ \A i \in 1..(frameLen[p] - HeadLen) : delivered[k].data.buf[i] = p + HeadLen + i - 1

(***************************************************************************)
(* The blocks delivered are the frames of the peer's stream, complete, in  *)
(* order, with none missing between them, however TCP cut the stream:      *)
(* inside a header, inside a body, several frames in one read, frames      *)
(* larger than the receive buffer, frames without a body.                  *)
(***************************************************************************)
FramesIntact ==
  \A k \in 1..Len(delivered) : IsFrame(k, IF k = 1 THEN 1 ELSE FrameEnd(k - 1))

(***************************************************************************)
(* handleReadSome never waits for more bytes while a whole frame is there: *)
(* a request is not held back until the peer sends the next one.           *)
(***************************************************************************)
NothingHeldBack ==
  pc = "read" /\ NextHead <= arrived => arrived < NextHead + frameLen[NextHead] - 1

(***************************************************************************)
(* The next async_read_some is never given a buffer of size 0 (which would *)
(* complete at once with 0 bytes, for ever), however large the frames are. *)
(***************************************************************************)
RoomToRead == pc = "read" => ~isFull(m_bufferRecv)

(***************************************************************************)
(* The receive path implements FrameStream: every step is the arrival of   *)
(* bytes, with no complete frame left behind, or the delivery of the next  *)
(* frame, or shows nothing outside.                                        *)
(***************************************************************************)
Content(m) == [head |-> m.m_head, body |-> m.data.buf]

Frames == INSTANCE FrameStream
            WITH got <- [k \in 1..Len(delivered) |-> Content(delivered[k])]

ImplementsFrames == Frames!Spec
=============================================================================
