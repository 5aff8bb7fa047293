------------------------------ MODULE NetBlock ------------------------------
(***************************************************************************)
(* A NetBlock (src/block.cpp): a length-prefixed message, which a sender   *)
(* builds with push and a receiver puts together from the connection's     *)
(* receive buffer.                                                         *)
(*                                                                         *)
(*   state   m_state                                                       *)
(*   m_head  the bytes of m_head: those that readPod<head> copied, or      *)
(*           those that encrypt wrote; << >> is the zeroed header of a new *)
(*           block                                                         *)
(*   alloc   is m_data allocated?                                          *)
(*   data    *m_data                                                       *)
(*                                                                         *)
(* A receiver's bytes are their numbers in the stream, and what a header   *)
(* says is abstracted to lenOf: lenOf[x] is the _len field of a header     *)
(* whose first byte is x.  A sender's bytes are pairs: headPod(len) is a   *)
(* header whose _len field is len.  The _mask and _check fields, which  *)
(* are always 0 and whose check is commented out, are left out.            *)
(***************************************************************************)
EXTENDS NetBuffer

CONSTANT HeadLen   \* sizeof(head): 12

ASSUME HeadAssumption == HeadLen \in Nat \ {0}

(* NetBlock(s, 0), as Connection makes it through _blockMakerFun. *)
NewBlock == [state |-> "INIT", m_head |-> << >>, alloc |-> FALSE, data |-> NewBuffer(0)]

bodyDone(m) == m.state = "DONE"

(* Mutants: the header is counted as part of the body; the lengths are *)
(* subtracted the wrong way round; the consumed bytes stay in the buffer. *)
recvBodyInto(w, data, keep) ==
  IF w.m.state # "BODY" THEN w
  ELSE LET into == readBufferInto(w.buf, data)
           done == isFull(into)
           rest == readBufferFrom(w.buf, data)
       IN  [m   |-> [w.m EXCEPT !.alloc = TRUE,
                                !.data  = IF done THEN setLock(into) ELSE into,
                                !.state = IF done THEN "DONE" ELSE "BODY"],
            buf |-> IF keep THEN rest ELSE clearReadBuffer(rest)]

recvBodyWithHead(w, lenOf) ==
  recvBodyInto(w, IF w.m.alloc THEN w.m.data ELSE NewBuffer(lenOf[w.m.m_head[1]]), FALSE)

recvBodySwapped(w, lenOf) ==
  recvBodyInto(w, IF w.m.alloc THEN w.m.data
                  ELSE NewBuffer(HeadLen - lenOf[w.m.m_head[1]]), FALSE)

recvBodyUncleared(w, lenOf) ==
  recvBodyInto(w, IF w.m.alloc THEN w.m.data
                  ELSE NewBuffer(lenOf[w.m.m_head[1]] - HeadLen), TRUE)

(***************************************************************************)
(* recv works on a block m and on the receive buffer buf; it is written on *)
(* the pair w = [m |-> m, buf |-> buf].                                    *)
(***************************************************************************)
recvBody(w, lenOf) ==
  IF w.m.state # "BODY" THEN w
  ELSE LET data == IF w.m.alloc THEN w.m.data
                   ELSE NewBuffer(lenOf[w.m.m_head[1]] - HeadLen)
           into == readBufferInto(w.buf, data)
           done == isFull(into)
       IN  [m   |-> [w.m EXCEPT !.alloc = TRUE,
                                !.data  = IF done THEN setLock(into) ELSE into,
                                !.state = IF done THEN "DONE" ELSE "BODY"],
            buf |-> clearReadBuffer(readBufferFrom(w.buf, data))]

recvHead(w, lenOf) ==
  IF w.m.state # "INIT" THEN recvBody(w, lenOf)
  ELSE IF ~canRead(w.buf, HeadLen) THEN w
  ELSE recvBody([m   |-> [w.m EXCEPT !.m_head = peek(w.buf, HeadLen), !.state = "BODY"],
                 buf |-> clearReadBuffer(readData(w.buf, HeadLen))], lenOf)

recv(m, buf, lenOf) == recvHead([m |-> m, buf |-> buf], lenOf)
-----------------------------------------------------------------------------
(* The sending side *)

headPod(len) == [i \in 1..HeadLen |-> <<0, len>>]

(***************************************************************************)
(* NetBlock(s, size), size > 0, for a session s: NetBlockBase allocates    *)
(* the buffer with the session id as its size.                             *)
(***************************************************************************)
NewSendBlock(s) ==
  [NewBlock EXCEPT !.alloc = TRUE, !.data = tailData(NewBuffer(s), headPod(0))]

encrypt(m) ==
  [m EXCEPT !.m_head = headPod(length(m.data)),
            !.data   = setHead(@, headPod(length(m.data)))]

(* Mutant: the header is written before the data is appended. *)
pushLate(m, bytes) == IF m.alloc THEN [encrypt(m) EXCEPT !.data = tailData(@, bytes)] ELSE m

push(m, bytes) == IF m.alloc THEN encrypt([m EXCEPT !.data = tailData(@, bytes)]) ELSE m

(* clone: a block for another session, with a buffer of its own. *)
clone(m) ==
  [m EXCEPT !.alloc = TRUE, !.data = tailData(NewBuffer(m.data.maxLen), m.data.buf)]
=============================================================================
