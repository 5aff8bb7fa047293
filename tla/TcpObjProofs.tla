--------------------------- MODULE TcpObjProofs -----------------------------
(***************************************************************************)
(* TcpObj implements EventQueue, for every number of io threads and of     *)
(* events.                                                                 *)
(***************************************************************************)
EXTENDS TcpObj, SequenceTheorems, TLAPS

(* The initial state of TcpObj satisfies the invariant. *)
LEMMA InitQueueInv == Init => QueueInv
<1>1. ASSUME Init PROVE TypeOK
  BY <1>1, TcpObjAssumption DEF Init, TypeOK, Events
<1>2. ASSUME Init PROVE QueueInv
  BY <1>1, <1>2, TcpObjAssumption DEF Init, QueueInv
<1>3. QED BY <1>2

(* Every step of push and poll (tcp_object.h:35-47) preserves the invariant. *)
LEMMA StepQueueInv == QueueInv /\ [Next]_vars => QueueInv'
<1>1. SUFFICES ASSUME QueueInv, [Next]_vars PROVE QueueInv'
  OBVIOUS
<1>2. TypeOK
  BY <1>1 DEF QueueInv
<1>3. ASSUME NEW t \in IoThreads, PushLock(t) PROVE QueueInv'
  BY <1>1, <1>2, <1>3, TcpObjAssumption DEF QueueInv, TypeOK, PushLock
<1>4. ASSUME NEW t \in IoThreads, PushBack(t) PROVE QueueInv'
  <2>1. /\ pushed[t] \in 0..MaxEvents /\ pushed[t] < MaxEvents
        /\ m_mutex = t /\ m_mutex' = Free /\ pc' = pc /\ recv' = recv /\ ran' = ran
    BY <1>1, <1>2, <1>4 DEF QueueInv, TypeOK, PushBack
  <2>2. <<t, pushed[t] + 1>> \in Events
    BY <1>4, <2>1, TcpObjAssumption DEF Events
  <2>3. m_call' \in Seq(Events)
    BY <1>2, <1>4, <2>2 DEF TypeOK, PushBack
  <2>4. pushed' \in [IoThreads -> 0..MaxEvents]
    BY <1>2, <1>4, <2>1, TcpObjAssumption DEF TypeOK, PushBack
  <2>5. pc \notin {"copy", "clear"}
    BY <1>1, <1>4, <2>1, TcpObjAssumption DEF QueueInv
  <2>6. TypeOK'
    BY <1>2, <2>1, <2>3, <2>4 DEF TypeOK
  <2>7. QED
    BY <1>1, <2>1, <2>5, <2>6, TcpObjAssumption DEF QueueInv
<1>5. CASE PollLock
  BY <1>1, <1>2, <1>5, TcpObjAssumption DEF QueueInv, TypeOK, PollLock
<1>6. CASE PollCopy
  BY <1>1, <1>2, <1>6, TcpObjAssumption DEF QueueInv, TypeOK, PollCopy
<1>7. CASE PollClear
  BY <1>1, <1>2, <1>7, TcpObjAssumption DEF QueueInv, TypeOK, PollClear
<1>8. CASE RunEvent
  <2>1. Head(recv) \in Events /\ Tail(recv) \in Seq(Events)
    BY <1>2, <1>8 DEF TypeOK, RunEvent
  <2>2. TypeOK'
    BY <1>2, <1>8, <2>1 DEF TypeOK, RunEvent
  <2>3. QED
    BY <1>1, <1>8, <2>2 DEF QueueInv, RunEvent
<1>9. CASE PollReturn
  BY <1>1, <1>2, <1>9, TcpObjAssumption DEF QueueInv, TypeOK, PollReturn
<1>10. CASE UNCHANGED vars
  BY <1>1, <1>2, <1>10 DEF QueueInv, TypeOK, vars
<1>11. QED
  BY <1>1, <1>3, <1>4, <1>5, <1>6, <1>7, <1>8, <1>9, <1>10 DEF Next, PollSteps

(***************************************************************************)
(* The mutex keeps the copy and the clear of poll() together, whatever the *)
(* io threads push (tcp_object.h:35-47).                                   *)
(***************************************************************************)
THEOREM TcpObjQueueInv == Spec => []QueueInv
  BY InitQueueInv, StepQueueInv, PTL DEF Spec

waiting == IF pc = "clear" THEN m_call ELSE recv \o m_call

(* A step of the code is a step of the queue, or leaves it as it is. *)
LEMMA StepImplements ==
  QueueInv /\ [Next]_vars => [Queue!Next]_(Queue!vars)
<1>1. SUFFICES ASSUME QueueInv, [Next]_vars
               PROVE  Queue!Next \/ (waiting' = waiting /\ ran' = ran)
  BY DEF Queue!vars, waiting
<1>2. TypeOK
  BY <1>1 DEF QueueInv
<1>3. ASSUME NEW t \in IoThreads, PushLock(t) PROVE waiting' = waiting /\ ran' = ran
  BY <1>3 DEF PushLock, waiting
<1>4. ASSUME NEW t \in IoThreads, PushBack(t) PROVE Queue!Next
  <2>1. <<t, pushed[t] + 1>> \in Events
    BY <1>1, <1>2, <1>4, TcpObjAssumption DEF QueueInv, TypeOK, PushBack, Events
  <2>2. pc # "clear" /\ pc' = pc
    BY <1>1, <1>4, TcpObjAssumption DEF QueueInv, PushBack
  <2>3. recv \o Append(m_call, <<t, pushed[t] + 1>>)
          = Append(recv \o m_call, <<t, pushed[t] + 1>>)
    BY <1>2, <2>1, AppendProperties DEF TypeOK
  <2>4. waiting' = Append(waiting, <<t, pushed[t] + 1>>) /\ ran' = ran
    BY <1>4, <2>2, <2>3 DEF PushBack, waiting
  <2>5. Queue!Push(<<t, pushed[t] + 1>>)
    BY <2>4 DEF Queue!Push, waiting
  <2>6. QED
    BY <2>1, <2>5 DEF Queue!Next
<1>5. CASE PollLock
  BY <1>5 DEF PollLock, waiting
<1>6. CASE PollCopy
  <2>1. recv = << >> /\ << >> \o m_call = m_call
    BY <1>1, <1>2, <1>6 DEF QueueInv, TypeOK, PollCopy
  <2>2. QED
    BY <1>6, <2>1 DEF PollCopy, waiting
<1>7. CASE PollClear
  <2>1. recv = m_call /\ m_call \o << >> = m_call
    BY <1>1, <1>2, <1>7 DEF QueueInv, TypeOK, PollClear
  <2>2. QED
    BY <1>7, <2>1 DEF PollClear, waiting
<1>8. CASE RunEvent
  <2>1. /\ recv # << >> /\ recv \in Seq(Events) /\ m_call \in Seq(Events)
        /\ pc = "run" /\ pc' = "run" /\ m_call' = m_call /\ recv' = Tail(recv)
        /\ ran' = Append(ran, Head(recv))
    BY <1>2, <1>8 DEF TypeOK, RunEvent
  <2>2. /\ recv \o m_call # << >>
        /\ Head(recv \o m_call) = Head(recv)
        /\ Tail(recv \o m_call) = Tail(recv) \o m_call
    BY <2>1
  <2>3. Queue!Run
    BY <2>1, <2>2 DEF Queue!Run
  <2>4. QED
    BY <2>3 DEF Queue!Next
<1>9. CASE PollReturn
  BY <1>9 DEF PollReturn, waiting
<1>10. CASE UNCHANGED vars
  BY <1>10 DEF vars, waiting
<1>11. QED
  BY <1>1, <1>3, <1>4, <1>5, <1>6, <1>7, <1>8, <1>9, <1>10 DEF Next, PollSteps

(***************************************************************************)
(* The code of push and poll implements a queue: no event is lost, run     *)
(* twice or run out of order, for any number of io threads.                *)
(***************************************************************************)
THEOREM TcpObjImplementsQueue == Spec => ImplementsQueue
<1>1. Init => Queue!Init
  BY DEF Init, Queue!Init
<1>2. QED
  BY <1>1, TcpObjQueueInv, StepImplements, PTL DEF Spec, ImplementsQueue, Queue!Spec
=============================================================================
