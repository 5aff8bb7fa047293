----------------------------- MODULE EventQueue -----------------------------
(***************************************************************************)
(* What TcpObj promises to the connections that push events and to the     *)
(* application that polls: a queue.  Connection and NetService use it in   *)
(* this form; TcpObj shows that the code implements it.                    *)
(***************************************************************************)
EXTENDS Sequences

CONSTANT Event

VARIABLES queue,  \* events that wait
          ran     \* events that were run, in order

vars == <<queue, ran>>

Init == queue = << >> /\ ran = << >>

Push(e) ==
  /\ queue' = Append(queue, e)
  /\ UNCHANGED ran

Run ==
  /\ queue # << >>
  /\ ran' = Append(ran, Head(queue))
  /\ queue' = Tail(queue)

Next == Run \/ \E e \in Event : Push(e)

Spec == Init /\ [][Next]_vars
=============================================================================
