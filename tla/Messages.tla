------------------------------ MODULE Messages ------------------------------
(***************************************************************************)
(* Two ends of a connection that both use NetBlock: the peer builds        *)
(* messages and sends them, and ConnectionRecv receives what was written.  *)
(*                                                                         *)
(* A message is the lengths of the calls of push() that fill it, and the   *)
(* call that sends it: send(msg), or send(name, msg), which sends a clone  *)
(* to each session.  Between the two ends lies a byte stream (Connection   *)
(* implements ByteStream): the blocks one after the other, of which this   *)
(* end may have seen only the beginning.  stream[i] is byte number i: the  *)
(* pair <<k, j>> for the j-th byte pushed to message k.                    *)
(***************************************************************************)
EXTENDS ConnectionRecv

CONSTANTS SessionIds,  \* ids that the sessions of the sender may have
          PushLens,    \* lengths handed to push()
          MaxPushes,   \* bound: calls of push() per message
          MaxMessages  \* bound: messages

ASSUME MessagesAssumption ==
  /\ SessionIds \subseteq Nat /\ PushLens \subseteq Nat
  /\ MaxPushes \in Nat /\ MaxMessages \in Nat

VARIABLES session,   \* the id that the sender gives its blocks
          messages,  \* what the sender builds
          stream     \* what it writes

sendVars == <<session, messages, stream>>
allVars  == <<vars, sendVars>>

Message == [pushes : UNION {[1..n -> PushLens] : n \in 1..MaxPushes},
            call : {"send(msg)", "send(name, msg)"}]

(* pushed(msg)[n]: how many bytes its first n pushes hand over. *)
pushed(msg) ==
  LET sum[n \in 0..Len(msg.pushes)] == IF n = 0 THEN 0 ELSE sum[n - 1] + msg.pushes[n]
  IN  sum

(* The bytes of message k. *)
payload(msg, k) == [j \in 1..pushed(msg)[Len(msg.pushes)] |-> <<k, j>>]

(* building(id, msg, k)[n]: message k, in a block of session id, when its *)
(* n-th push has returned.                                                *)
building(id, msg, k) ==
  LET m[n \in 0..Len(msg.pushes)] ==
        IF n = 0 THEN NewSendBlock(id)
        ELSE push(m[n - 1], [j \in 1..msg.pushes[n] |-> <<k, pushed(msg)[n - 1] + j>>])
  IN  m

(* The block that send() is given, or that it makes of it. *)
sent(id, msg, k) ==
  LET built == building(id, msg, k)[Len(msg.pushes)]
  IN  IF msg.call = "send(msg)" THEN built ELSE clone(built)

(* written(id, ms)[k]: the bytes of the first k messages. *)
written(id, ms) ==
  LET w[k \in 0..MaxMessages] ==
        IF k = 0 THEN << >> ELSE w[k - 1] \o sent(id, ms[k], k).data.buf
  IN  w

(* What a receiver finds in the _len field of a header that starts at byte i; *)
(* frameLen of a byte where no header starts is never read.                   *)
lenAt(i) == IF stream[i][1] = 0 THEN stream[i][2] ELSE HeadLen

MessagesInit ==
  /\ session \in SessionIds
  /\ messages \in [1..MaxMessages -> Message]
  /\ Len(written(session, messages)[MaxMessages]) >= StreamLen
  /\ stream = SubSeq(written(session, messages)[MaxMessages], 1, StreamLen)
  /\ frameLen = [i \in 1..StreamLen |-> lenAt(i)]
  /\ Init

MessagesNext == Next /\ UNCHANGED sendVars

MessagesSpec == MessagesInit /\ [][MessagesNext]_allVars
-----------------------------------------------------------------------------
(***************************************************************************)
(* What one end pushes is what the other end is given, message by message, *)
(* whatever the session id, which is the size that the sender's buffer is  *)
(* allocated with, however many calls of push() it took, empty ones too,   *)
(* and whether the block was sent or a clone of it.  When this end waits   *)
(* for more, it has delivered every message that has arrived.              *)
(***************************************************************************)
MessagesDelivered ==
  /\ \A k \in 1..Len(delivered) :
       [i \in 1..length(delivered[k].data) |-> stream[delivered[k].data.buf[i]]]
         = payload(messages[k], k)
  /\ pc = "read" =>
       \A k \in 1..MaxMessages :
         Len(written(session, messages)[k]) <= arrived <=> k <= Len(delivered)
=============================================================================
