------------------------------- MODULE TcpObj -------------------------------
(***************************************************************************)
(* The event queue of a TcpObj (src/tcp_object.h) step by step: io threads *)
(* push events while the main thread polls.  poll() copies m_call to a     *)
(* local list and clears it under m_mutex, and runs the events of that     *)
(* list after it released the mutex.                                       *)
(*                                                                         *)
(* An event is the pair of the io thread that pushed it and its number.    *)
(* No event calls poll() itself: a callback that did would run what was    *)
(* pushed meanwhile before the rest of the list.                           *)
(***************************************************************************)
EXTENDS Integers, Sequences

CONSTANTS IoThreads,
          Main,       \* the main thread
          Free,       \* the value of m_mutex when no thread holds it
          MaxEvents   \* bound: events that one io thread pushes

ASSUME TcpObjAssumption ==
  /\ Main \notin IoThreads /\ Free \notin IoThreads /\ Main # Free
  /\ MaxEvents \in Nat

VARIABLES m_mutex,  \* the thread that holds it, or Free
          m_call,
          recv,     \* the local list of poll()
          pc,       \* where the main thread is in poll()
          pushed,   \* how many events each io thread has pushed
          ran       \* the events that were run, in order

vars == <<m_mutex, m_call, recv, pc, pushed, ran>>

Init ==
  /\ m_mutex = Free
  /\ m_call = << >>
  /\ recv = << >>
  /\ pc = "idle"
  /\ pushed = [t \in IoThreads |-> 0]
  /\ ran = << >>

(* push: the lock_guard ... *)
PushLock(t) ==
  /\ m_mutex = Free
  /\ pushed[t] < MaxEvents
  /\ m_mutex' = t
  /\ UNCHANGED <<m_call, recv, pc, pushed, ran>>

(* ... and push_back, after which the guard is released. *)
PushBack(t) ==
  /\ m_mutex = t
  /\ pushed' = [pushed EXCEPT ![t] = @ + 1]
  /\ m_call' = Append(m_call, <<t, pushed[t] + 1>>)
  /\ m_mutex' = Free
  /\ UNCHANGED <<recv, pc, ran>>

(* poll: the lock_guard, the copy ... *)
PollLock ==
  /\ pc = "idle"
  /\ m_mutex = Free
  /\ m_mutex' = Main
  /\ pc' = "copy"
  /\ UNCHANGED <<m_call, recv, pushed, ran>>

(* Mutant: the guard covers only the copy. *)
PollCopyUnlocks ==
  /\ pc = "copy"
  /\ recv' = m_call
  /\ m_mutex' = Free
  /\ pc' = "clear"
  /\ UNCHANGED <<m_call, pushed, ran>>

PollCopy ==
  /\ pc = "copy"
  /\ recv' = m_call
  /\ pc' = "clear"
  /\ UNCHANGED <<m_mutex, m_call, pushed, ran>>

(* ... and the clear, after which the guard is released. *)
PollClear ==
  /\ pc = "clear"
  /\ m_call' = << >>
  /\ m_mutex' = Free
  /\ pc' = "run"
  /\ UNCHANGED <<recv, pushed, ran>>

(* Mutant: the event that ends the list is not run. *)
RunEventButLast ==
  /\ pc = "run"
  /\ recv # << >>
  /\ ran' = IF Len(recv) > 1 THEN Append(ran, Head(recv)) ELSE ran
  /\ recv' = Tail(recv)
  /\ UNCHANGED <<m_mutex, m_call, pc, pushed>>

(* The loop over the list, and its end. *)
RunEvent ==
  /\ pc = "run"
  /\ recv # << >>
  /\ ran' = Append(ran, Head(recv))
  /\ recv' = Tail(recv)
  /\ UNCHANGED <<m_mutex, m_call, pc, pushed>>

PollReturn ==
  /\ pc = "run"
  /\ recv = << >>
  /\ pc' = "idle"
  /\ UNCHANGED <<m_mutex, m_call, recv, pushed, ran>>

PollSteps == PollCopy \/ PollClear \/ RunEvent \/ PollReturn

Next ==
  \/ PollLock \/ PollSteps
  \/ \E t \in IoThreads : PushLock(t) \/ PushBack(t)

Spec == Init /\ [][Next]_vars

(***************************************************************************)
(* The program polls for ever, a thread that has the mutex goes on, and a  *)
(* mutex that stays free is taken by a main thread that waits for it.      *)
(***************************************************************************)
Fairness ==
  /\ WF_vars(PollLock)
  /\ WF_vars(PollSteps)
  /\ \A t \in IoThreads : WF_vars(PushBack(t))

FairSpec == Spec /\ Fairness
-----------------------------------------------------------------------------
Events == IoThreads \X (1..MaxEvents)

(* Types. *)
TypeOK ==
  /\ m_mutex \in IoThreads \cup {Main, Free}
  /\ m_call \in Seq(Events)
  /\ recv \in Seq(Events)
  /\ pc \in {"idle", "copy", "clear", "run"}
  /\ pushed \in [IoThreads -> 0..MaxEvents]
  /\ ran \in Seq(Events)

(***************************************************************************)
(* Types, and what m_mutex buys: no event is pushed between the copy and   *)
(* the clear, and the list of a poll() that has returned is used up.       *)
(***************************************************************************)
QueueInv ==
  /\ TypeOK
  /\ m_mutex = Main <=> pc \in {"copy", "clear"}
  /\ pc \in {"idle", "copy"} => recv = << >>
  /\ pc = "clear" => recv = m_call
  /\ m_mutex \in IoThreads => pushed[m_mutex] < MaxEvents

(***************************************************************************)
(* push and poll implement a queue: an event pushed while poll() copies,   *)
(* clears or runs is neither lost nor run twice nor run before an older    *)
(* one.  Between the copy and the clear the events are in both lists.      *)
(***************************************************************************)
Queue == INSTANCE EventQueue
           WITH Event <- Events,
                queue <- IF pc = "clear" THEN m_call ELSE recv \o m_call

ImplementsQueue == Queue!Spec

(* Every event that was pushed is run, those pushed while poll() is busy too. *)
EventsRun ==
  \A t \in IoThreads : \A n \in 1..MaxEvents :
    pushed[t] >= n ~> \E i \in 1..Len(ran) : ran[i] = <<t, n>>
=============================================================================
