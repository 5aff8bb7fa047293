---------------------------- MODULE FrameStream -----------------------------
(***************************************************************************)
(* What the receive path of a Connection promises, without its buffer, its *)
(* block under construction and its states: the bytes of the peer arrive   *)
(* in pieces, and a frame is delivered when its last byte has arrived,     *)
(* before any further byte is waited for.                                  *)
(*                                                                         *)
(* The stream is the bytes 1, 2, ...; frameLen[p] is what the header at    *)
(* byte p says that the length of its frame is.                            *)
(***************************************************************************)
EXTENDS Integers, Sequences

CONSTANTS HeadLen, StreamLen

VARIABLES frameLen,  \* what the peer's headers say
          arrived,   \* number of bytes that have arrived
          got        \* the frames delivered

vars == <<frameLen, arrived, got>>

(* The frame that starts at byte p. *)
frame(p) ==
  [head |-> [i \in 1..HeadLen |-> p + i - 1],
   body |-> [i \in 1..(frameLen[p] - HeadLen) |-> p + HeadLen + i - 1]]

(* Where the next frame starts, and whether all of it has arrived. *)
next ==
  IF got = << >> THEN 1
  ELSE got[Len(got)].head[1] + frameLen[got[Len(got)].head[1]]

Complete == next <= arrived /\ next + frameLen[next] - 1 <= arrived

Init ==
  /\ arrived = 0
  /\ got = << >>

Arrive ==
  /\ ~Complete
  /\ arrived' \in (arrived + 1)..StreamLen
  /\ UNCHANGED <<frameLen, got>>

Deliver ==
  /\ Complete
  /\ got' = Append(got, frame(next))
  /\ UNCHANGED <<frameLen, arrived>>

Next == Arrive \/ Deliver

Spec == Init /\ [][Next]_vars
=============================================================================
