----------------------------- MODULE ByteStream -----------------------------
(***************************************************************************)
(* What a Connection promises to those who send on it, without its         *)
(* buffers, handlers and threads: a stream of bytes.  The bytes are the    *)
(* numbers 1, 2, ... in the order in which they were accepted.             *)
(*                                                                         *)
(* The stream is opened, by either side, carries accepted bytes in order,  *)
(* and is closed in two steps: unless something went wrong before, the     *)
(* first of them is taken only when everything accepted so far has been    *)
(* carried.  A sender is never told that the stream is closing: what it    *)
(* still hands over is accepted and may be lost, but what is carried is    *)
(* always the beginning of what was accepted.                              *)
(*                                                                         *)
(* A stream may be opened again.  It then goes on where the last one       *)
(* ended, or with some of the bytes before that: none is left out.         *)
(***************************************************************************)
EXTENDS Naturals, Sequences

VARIABLES accepted,  \* number of bytes accepted
          wire,      \* the bytes carried since the stream was opened
          sent,      \* the bytes 1 .. sent have been carried
          st         \* "closed", "open", "faulty" or "closing"

vars == <<accepted, wire, sent, st>>

Init ==
  /\ accepted = 0
  /\ wire = << >>
  /\ sent = 0
  /\ st = "closed"

Accept ==
  /\ accepted' \in Nat /\ accepted' > accepted
  /\ UNCHANGED <<wire, sent, st>>

(* A stream may be opened when its close, or its failure, is under way. *)
Open ==
  /\ st = "closed"
  /\ st' \in {"open", "faulty", "closing"}
  /\ wire' = << >>
  /\ UNCHANGED <<accepted, sent>>

(* Byte number n is the next of this stream. *)
Carry(n) ==
  /\ st # "closed"
  /\ n \in 1..accepted
  /\ IF wire = << >> THEN n <= sent + 1 ELSE n = wire[Len(wire)] + 1
  /\ wire' = Append(wire, n)
  /\ sent' = IF n = sent + 1 THEN n ELSE sent
  /\ UNCHANGED <<accepted, st>>

(* The peer or the network ends the stream: from here on bytes may be lost. *)
Fault ==
  /\ st = "open"
  /\ st' = "faulty"
  /\ UNCHANGED <<accepted, wire, sent>>

BeginClose ==
  /\ st = "faulty" \/ (st = "open" /\ sent = accepted)
  /\ st' = "closing"
  /\ UNCHANGED <<accepted, wire, sent>>

Close ==
  /\ st = "closing"
  /\ st' = "closed"
  /\ UNCHANGED <<accepted, wire, sent>>

Next ==
  \/ Accept \/ Open \/ Fault \/ BeginClose \/ Close
  \/ \E n \in 1..accepted : Carry(n)

Spec == Init /\ [][Next]_vars
=============================================================================
