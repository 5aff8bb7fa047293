-------------------------- MODULE NetServiceProofs --------------------------
(***************************************************************************)
(* Proofs about NetService, for any networks and any number of sessions,   *)
(* starts, stops, kicks and failures.                                      *)
(*                                                                         *)
(* The invariants are layered.  TypeOK is inductive together with          *)
(* StopsServer, the place of the main thread.  SessionInv says that a      *)
(* session is not known anywhere before createConnection gave it its id.   *)
(***************************************************************************)
EXTENDS NetService, SequenceTheorems, TLAPS

(* The networks know only sessions that createConnection has given out ... *)
KnownNets ==
  \A n \in Names :
    /\ m_current[n] <= Len(owner)
    /\ \A s \in m_onlines[n] : s <= Len(owner)
    /\ \A i \in 1..Len(m_call[n]) :
         m_call[n][i] # Restart => m_call[n][i].s <= Len(owner)

KnownAccepts == \A n \in Servers : \A a \in accepts[n] : a.s <= Len(owner)

(* ... and nothing has happened to the others. *)
OthersUntouched ==
  \A s \in Sessions :
    s > Len(owner) =>
      ~m_connect[s] /\ rdOps[s] = 0 /\ sock[s] = "new" /\ posted[s] = << >>

SessionInv == KnownNets /\ KnownAccepts /\ OthersUntouched

-----------------------------------------------------------------------------
(* Layer 1: types. *)

Events == [ev : {"connect", "close"}, s : Sessions] \cup {Restart}

Accept == [s : Sessions, st : {"wait", "ok", "err", "postAccept", "onError", "beginAccept",
                                "async_accept"}]

NetTypes ==
  /\ m_stop \in [Names -> BOOLEAN]
  /\ m_call \in [Names -> Seq(Events)]
  /\ m_onlines \in [Names -> SUBSET Sessions]
  /\ m_current \in [Names -> Sessions \cup {0}]
  /\ acceptor \in [Servers -> {"none", "open", "closed"}]
  /\ accepts \in [Servers -> SUBSET Accept]

ConnTypes ==
  /\ owner \in Seq(Names) /\ Len(owner) <= MaxSessions
  /\ m_connect \in [Sessions -> BOOLEAN]
  /\ sock \in [Sessions -> {"new", "connecting", "failed", "open", "closed"}]
  /\ rdOps \in [Sessions -> Nat]
  /\ posted \in [Sessions -> Seq(Handler)]

PcType == [op : {"idle", "start", "doStart", "beginAccept", "setStop", "doStop",
                 "closeCurrent"},
           todo : SUBSET Names, at : Names \cup {"none"}]

MainTypes ==
  /\ m_state \in {"INIT", "RUN", "STOP"}
  /\ m_nets \in SUBSET Names
  /\ pc \in PcType
  /\ stopped \in SUBSET Sessions
  /\ starts \in Nat /\ stops \in Nat /\ kicks \in Nat /\ removes \in Nat /\ fails \in Nat
  /\ crashed \in BOOLEAN

(* A client that was added has its connection. *)
ClientsReady == \A n \in Clients \cap m_nets : m_current[n] # 0

(* TypeOK in parts, before and after a step. *)
LEMMA TypeParts ==
  /\ TypeOK <=> NetTypes /\ ConnTypes /\ MainTypes /\ ClientsReady
  /\ TypeOK' <=> NetTypes' /\ ConnTypes' /\ MainTypes' /\ ClientsReady'
BY DEF TypeOK, NetTypes, ConnTypes, MainTypes, ClientsReady, PcType, Events, Accept

(* What the queues of handlers and of events stay. *)
LEMMA QueueTypes ==
  /\ \A q \in Seq(Handler) : q # << >> => Tail(q) \in Seq(Handler)
  /\ \A q \in Seq(Handler), h \in Handler : Append(q, h) \in Seq(Handler)
  /\ \A q \in Seq(Events) : q # << >> => Tail(q) \in Seq(Events) /\ Head(q) \in Events
  /\ \A q \in Seq(Events), e \in Events : Append(q, e) \in Seq(Events)
<1> HIDE DEF Handler, Events
<1>1. \A q \in Seq(Handler) : q # << >> => Tail(q) \in Seq(Handler) OBVIOUS
<1>2. \A q \in Seq(Handler), h \in Handler : Append(q, h) \in Seq(Handler) OBVIOUS
<1>3. \A q \in Seq(Events) : q # << >> => Tail(q) \in Seq(Events) /\ Head(q) \in Events
  OBVIOUS
<1>4. \A q \in Seq(Events), e \in Events : Append(q, e) \in Seq(Events) OBVIOUS
<1> QED BY <1>1, <1>2, <1>3, <1>4

(* An event of a session is not the restart of a client. *)
LEMMA EventTypes ==
  /\ Restart \in Events
  /\ \A ev \in {"connect", "close"}, s \in Sessions :
       /\ Event(ev, s) \in Events /\ Event(ev, s) # Restart
       /\ Event(ev, s).ev = ev /\ Event(ev, s).s = s
  /\ \A e \in Events : e # Restart => e.ev \in {"connect", "close"} /\ e.s \in Sessions
  /\ Restart.ev = "start"
BY DEF Events, Event, Restart

(* What is posted is a handler. *)
LEMMA HandlerNames ==
  /\ "handlAccept" \in Handler /\ "handleConnect" \in Handler
  /\ "handleConnectError" \in Handler /\ "handleReadSome" \in Handler
  /\ "handleClose" \in Handler
BY DEF Handler

(* Connection::close on any set of sessions *)
LEMMA CloseTypes ==
  ASSUME ConnTypes, NEW ss, close(ss)
  PROVE  posted' \in [Sessions -> Seq(Handler)]
<1> HIDE DEF Handler
<1> QED BY QueueTypes, HandlerNames DEF ConnTypes, close

(* createConnection takes an id that is free, and the accept a place for it. *)
LEMMA CreateTypes ==
  ASSUME NetTypes, ConnTypes, NEW n \in Names, createConnection(n)
  PROVE  /\ m_current' \in [Names -> Sessions \cup {0}]
         /\ owner' \in Seq(Names) /\ Len(owner') = Len(owner) + 1
         /\ Len(owner') <= MaxSessions /\ Len(owner) \in Nat
         /\ NextSession = Len(owner) + 1 /\ NextSession \in Sessions
<1>1. owner \in Seq(Names) /\ Len(owner) \in Nat BY LenProperties DEF ConnTypes
<1>2. owner' = Append(owner, n) /\ Len(owner) < MaxSessions
  BY DEF createConnection
<1>6. NextSession = Len(owner) + 1 /\ NextSession \in Sessions
  BY <1>1, <1>2, ServiceAssumption DEF NextSession, Sessions
<1>3. owner' \in Seq(Names) /\ Len(owner') = Len(owner) + 1
  BY <1>1, <1>2, AppendProperties
<1>4. m_current' \in [Names -> Sessions \cup {0}]
  BY <1>6 DEF createConnection, NetTypes
<1>5. Len(owner') <= MaxSessions BY <1>1, <1>2, <1>3, ServiceAssumption
<1> QED BY <1>1, <1>3, <1>4, <1>5, <1>6

(* The accepts after the acceptor was closed. *)
LEMMA AbortedTypes ==
  ASSUME NEW ops \in SUBSET Accept
  PROVE  aborted(ops) \in SUBSET Accept
BY DEF aborted, Accept

(* The accepts after another was started. *)
LEMMA AcceptTypes ==
  ASSUME NetTypes, ConnTypes, NEW n \in Servers, NEW ops \in SUBSET Accept,
         acceptInto(n, ops)
  PROVE  accepts' \in [Servers -> SUBSET Accept]
<1> DEFINE a == [s |-> NextSession, st |-> IF acceptor[n] = "open" THEN "wait" ELSE "err"]
<1>1. NextSession \in Sessions
  <2>1. n \in Names /\ createConnection(n) BY DEF acceptInto, Names
  <2> QED BY <2>1, CreateTypes
<1>2. a \in Accept BY <1>1 DEF Accept
<1>3. accepts' = [accepts EXCEPT ![n] = ops \cup {a}] BY DEF acceptInto
<1> HIDE DEF a, Accept
<1> QED BY <1>2, <1>3 DEF NetTypes

(* The accepts after one of them went on. *)
LEMMA GoesOnTypes ==
  ASSUME NetTypes, NEW n \in Servers, NEW a \in accepts[n],
         NEW st \in {"ok", "err", "postAccept", "onError", "beginAccept", "async_accept"},
         goesOn(n, a, st)
  PROVE  accepts' \in [Servers -> SUBSET Accept]
<1>1. a \in Accept BY DEF NetTypes
<1>2. [a EXCEPT !.st = st] \in Accept BY <1>1 DEF Accept
<1> HIDE DEF Accept
<1> QED BY <1>2 DEF goesOn, NetTypes

(* The queues after a connect was started. *)
LEMMA ConnectTypes ==
  ASSUME NetTypes, ConnTypes, NEW n \in Names, connect(n)
  PROVE  /\ m_stop' \in [Names -> BOOLEAN]
         /\ sock' \in [Sessions -> {"new", "connecting", "failed", "open", "closed"}]
         /\ posted' \in [Sessions -> Seq(Handler)]
<1> DEFINE s == m_current[n]
           inUse == sock[s] \in {"connecting", "open"}
<1>1. /\ m_stop' = [m_stop EXCEPT ![n] = FALSE]
      /\ sock' = [sock EXCEPT ![s] = IF inUse THEN @ ELSE "connecting"]
      /\ posted' = [posted EXCEPT ![s] = IF inUse THEN Append(@, "handleConnectError") ELSE @]
  BY DEF connect
<1> HIDE DEF Handler, s, inUse
<1>2. m_stop' \in [Names -> BOOLEAN] BY <1>1 DEF NetTypes
<1>3. sock' \in [Sessions -> {"new", "connecting", "failed", "open", "closed"}]
  BY <1>1 DEF ConnTypes
<1>4. posted' \in [Sessions -> Seq(Handler)] BY <1>1, QueueTypes, HandlerNames DEF ConnTypes
<1> QED BY <1>2, <1>3, <1>4

(* The events after a push. *)
LEMMA PushTypes ==
  ASSUME NetTypes, NEW n, NEW e \in Events, push(n, e)
  PROVE  m_call' \in [Names -> Seq(Events)]
<1> HIDE DEF Events
<1> QED BY QueueTypes DEF NetTypes, push

(* The handlers after the socket was closed. *)
LEMMA AbortedHandlers ==
  ASSUME ConnTypes, NEW s \in Sessions, NEW q \in Seq(Handler)
  PROVE  q \o Aborted(s) \in Seq(Handler)
<1> DEFINE r == [i \in 1..rdOps[s] |-> "handleReadSome"]
           c == IF sock[s] = "connecting" THEN << "handleConnectError" >> ELSE << >>
<1>1. rdOps[s] \in Nat BY DEF ConnTypes
<1> HIDE DEF Handler
<1>2. r \in Seq(Handler)
  <2>1. \A i \in 1..rdOps[s] : "handleReadSome" \in Handler BY HandlerNames
  <2> QED BY <1>1, <2>1, IsASeq
<1>3. c \in Seq(Handler) BY HandlerNames
<1>4. Aborted(s) = r \o c BY DEF Aborted
<1> HIDE DEF r, c
<1>5. r \o c \in Seq(Handler) BY <1>2, <1>3, ConcatProperties
<1> QED BY <1>4, <1>5, ConcatProperties

(* The types at the start. *)
LEMMA TypeInit == Init => TypeOK
<1> SUFFICES ASSUME Init PROVE NetTypes /\ ConnTypes /\ MainTypes /\ ClientsReady
  BY TypeParts
<1>1. NetTypes BY DEF Init, NetTypes
<1>2. ConnTypes BY ServiceAssumption DEF Init, ConnTypes
<1>3. MainTypes BY DEF Init, MainTypes, PcType, Idle
<1>4. ClientsReady BY DEF Init, ClientsReady
<1> QED BY <1>1, <1>2, <1>3, <1>4

(* The main thread is inside TcpServer::doStart or doStop only for a server. *)
StopsServer ==
  pc.op \in {"doStart", "beginAccept", "doStop", "closeCurrent"} => pc.at \in Servers

(* Every action keeps StopsServer. *)
LEMMA StopsServerStep == TypeOK /\ StopsServer /\ [Next]_vars => StopsServer'
<1> SUFFICES ASSUME TypeOK, StopsServer, [Next]_vars PROVE StopsServer' OBVIOUS
<1>1. pc \in PcType BY TypeParts DEF MainTypes
<1>2. CASE UNCHANGED pc BY <1>2 DEF StopsServer
<1>3. CASE UNCHANGED vars BY <1>2, <1>3 DEF vars, mainVars
<1>4. CASE Io \/ Kernel
  BY <1>2, <1>4 DEF Io, Accepting, AcceptSocket, PostAccept, BeginAccept, AsyncAccept,
    acceptUnchanged, Handlers, HandlAccept, HandleConnect, HandleConnectError,
    HandleReadSome, HandleClose, Run, Kernel, Accepted, AcceptFails, ConnectDone,
    ConnectFails, PeerLost, mainVars
<1>5. CASE Main
  <2>1. CASE Start \/ SetStop \/ Return
    <3>1. pc' \in {[Idle EXCEPT !.op = "start", !.todo = m_nets],
                   [Idle EXCEPT !.op = "setStop", !.todo = m_nets], Idle}
      BY <2>1 DEF Start, SetStop, Return
    <3>2. Idle \in PcType /\ Idle.op = "idle" BY DEF Idle, PcType
    <3>3. /\ [Idle EXCEPT !.op = "start", !.todo = m_nets].op = "start"
          /\ [Idle EXCEPT !.op = "setStop", !.todo = m_nets].op = "setStop"
      BY <3>2 DEF PcType
    <3>4. pc'.op \in {"start", "setStop", "idle"} BY <3>1, <3>2, <3>3
    <3> QED BY <3>4 DEF StopsServer
  <2>2. CASE CloseAcceptor
    <3>1. pc.op = "doStop" /\ pc'.at = pc.at BY <1>1, <2>2 DEF CloseAcceptor, PcType
    <3> QED BY <3>1 DEF StopsServer
  <2>3. CASE OpenAcceptor
    <3>1. pc.op = "doStart" /\ pc'.at = pc.at BY <1>1, <2>3 DEF OpenAcceptor, PcType
    <3> QED BY <3>1 DEF StopsServer
  <2>4. CASE CloseCurrent
    <3>1. pc'.op = "setStop" BY <1>1, <2>4 DEF CloseCurrent, PcType
    <3> QED BY <3>1 DEF StopsServer
  <2>5. CASE FirstAccept
    <3>1. pc'.op = "start" BY <1>1, <2>5 DEF FirstAccept, PcType
    <3> QED BY <3>1 DEF StopsServer
  <2>6. ASSUME NEW n \in Names, Add(n) \/ Remove(n) \/ Poll(n) PROVE StopsServer'
    BY <1>2, <2>6 DEF Add, Remove, Poll, mainVars
  <2>7. ASSUME NEW n \in Names, StartClient(n) PROVE StopsServer'
    <3>1. pc'.op = "start" BY <1>1, <2>7 DEF StartClient, PcType
    <3> QED BY <3>1 DEF StopsServer
  <2>8. ASSUME NEW n \in Servers, StartServer(n) PROVE StopsServer'
    <3>1. pc'.at = n BY <2>8 DEF StartServer
    <3> QED BY <3>1 DEF StopsServer
  <2>9. ASSUME NEW n \in Names, StopNet(n) PROVE StopsServer'
    <3>1. pc'.op = "setStop" \/ (n \in Servers /\ pc'.at = n) BY <2>9 DEF StopNet
    <3> QED BY <3>1 DEF StopsServer
  <2>10. CASE BindFails
    <3>1. pc'.op = "idle" BY <2>10 DEF BindFails, Idle
    <3> QED BY <3>1 DEF StopsServer
  <2>11. ASSUME NEW s \in Sessions, Kick(s) PROVE StopsServer' BY <1>2, <2>11 DEF Kick
  <2> QED BY <1>5, <2>1, <2>2, <2>3, <2>4, <2>5, <2>6, <2>7, <2>8, <2>9, <2>10, <2>11 DEF Main
<1> QED BY <1>3, <1>4, <1>5 DEF Next

(* The main thread *)
LEMMA TypeMain ==
  ASSUME TypeOK, StopsServer, Main
  PROVE  NetTypes' /\ ConnTypes' /\ MainTypes'
<1>1. NetTypes /\ ConnTypes /\ MainTypes BY TypeParts
<1> HIDE DEF Handler, Events, Accept
<1> USE DEF netVars, connVars
<1>2. CASE Start \/ SetStop \/ Return
  <2>1. NetTypes' BY <1>1, <1>2 DEF Start, SetStop, Return, NetTypes
  <2>2. ConnTypes' BY <1>1, <1>2 DEF Start, SetStop, Return, ConnTypes
  <2>3. Idle \in PcType BY DEF Idle, PcType
  <2>4. pc' \in PcType
    <3>1. CASE Start BY <1>1, <2>3, <3>1 DEF Start, MainTypes, PcType
    <3>2. CASE SetStop BY <1>1, <2>3, <3>2 DEF SetStop, MainTypes, PcType
    <3>3. CASE Return BY <2>3, <3>3 DEF Return
    <3> QED BY <1>2, <3>1, <3>2, <3>3
  <2>5. MainTypes' BY <1>1, <1>2, <2>4 DEF Start, SetStop, Return, MainTypes
  <2> QED BY <2>1, <2>2, <2>5
<1>3. CASE CloseAcceptor \/ OpenAcceptor
  <2>1. \A n \in Servers : aborted(accepts[n]) \in SUBSET Accept
    BY <1>1, AbortedTypes DEF NetTypes
  <2>5. accepts' \in [Servers -> SUBSET Accept]
    BY <1>1, <1>3, <2>1 DEF CloseAcceptor, OpenAcceptor, NetTypes
  <2>6. acceptor' \in [Servers -> {"none", "open", "closed"}]
    BY <1>1, <1>3 DEF CloseAcceptor, OpenAcceptor, NetTypes
  <2>7. UNCHANGED <<m_stop, m_call, m_onlines, m_current>>
    BY <1>3 DEF CloseAcceptor, OpenAcceptor
  <2>2. NetTypes' BY <1>1, <2>5, <2>6, <2>7 DEF NetTypes
  <2>3. ConnTypes' BY <1>1, <1>3 DEF CloseAcceptor, OpenAcceptor, ConnTypes
  <2>4. MainTypes' BY <1>1, <1>3 DEF CloseAcceptor, OpenAcceptor, MainTypes, PcType
  <2> QED BY <2>2, <2>3, <2>4
<1>4. CASE CloseCurrent
  <2>1. posted' \in [Sessions -> Seq(Handler)] BY <1>1, <1>4, CloseTypes DEF CloseCurrent
  <2>2. NetTypes' BY <1>1, <1>4 DEF CloseCurrent, NetTypes
  <2>3. ConnTypes' BY <1>1, <1>4, <2>1 DEF CloseCurrent, ConnTypes
  <2>4. MainTypes' BY <1>1, <1>4 DEF CloseCurrent, MainTypes, PcType
  <2> QED BY <2>2, <2>3, <2>4
<1>5. ASSUME NEW n \in Names, Add(n) PROVE NetTypes' /\ ConnTypes' /\ MainTypes'
  <2>1. /\ m_current' \in [Names -> Sessions \cup {0}]
        /\ owner' \in Seq(Names) /\ Len(owner') <= MaxSessions
    <3>1. CASE createConnection(n) BY <1>1, <3>1, CreateTypes
    <3>2. CASE UNCHANGED <<owner, m_current>> BY <1>1, <3>2 DEF NetTypes, ConnTypes
    <3> QED BY <1>5, <3>1, <3>2 DEF Add
  <2>2. NetTypes' BY <1>1, <1>5, <2>1 DEF Add, NetTypes
  <2>3. ConnTypes' BY <1>1, <1>5, <2>1 DEF Add, ConnTypes
  <2>4. MainTypes' BY <1>1, <1>5 DEF Add, MainTypes
  <2> QED BY <2>2, <2>3, <2>4
<1>6. ASSUME NEW n \in Names, Remove(n) PROVE NetTypes' /\ ConnTypes' /\ MainTypes'
  <2>1. NetTypes' BY <1>1, <1>6 DEF Remove, NetTypes
  <2>2. ConnTypes' BY <1>1, <1>6 DEF Remove, ConnTypes
  <2>3. removes' \in Nat BY <1>1, <1>6 DEF Remove, MainTypes
  <2>4. crashed' \in BOOLEAN BY <1>1, <1>6 DEF Remove, MainTypes
  <2>5. MainTypes' BY <1>1, <1>6, <2>3, <2>4 DEF Remove, MainTypes
  <2> QED BY <2>1, <2>2, <2>5
<1>7. ASSUME NEW n \in Names, StartClient(n) PROVE NetTypes' /\ ConnTypes' /\ MainTypes'
  <2>1. /\ m_stop' \in [Names -> BOOLEAN]
        /\ sock' \in [Sessions -> {"new", "connecting", "failed", "open", "closed"}]
        /\ posted' \in [Sessions -> Seq(Handler)]
    BY <1>1, <1>7, ConnectTypes DEF StartClient
  <2>2. NetTypes' BY <1>1, <1>7, <2>1 DEF StartClient, NetTypes
  <2>3. ConnTypes' BY <1>1, <1>7, <2>1 DEF StartClient, ConnTypes
  <2>4. MainTypes' BY <1>1, <1>7 DEF StartClient, MainTypes, PcType
  <2> QED BY <2>2, <2>3, <2>4
<1>8. ASSUME NEW n \in Names, StopNet(n) PROVE NetTypes' /\ ConnTypes' /\ MainTypes'
  <2>1. posted' \in [Sessions -> Seq(Handler)] BY <1>1, <1>8, CloseTypes DEF StopNet
  <2>2. NetTypes' BY <1>1, <1>8 DEF StopNet, NetTypes
  <2>3. ConnTypes' BY <1>1, <1>8, <2>1 DEF StopNet, ConnTypes
  <2>4. MainTypes' BY <1>1, <1>8 DEF StopNet, MainTypes, PcType, NetTypes
  <2> QED BY <2>2, <2>3, <2>4
<1>9. ASSUME NEW n \in Names, Poll(n) PROVE NetTypes' /\ ConnTypes' /\ MainTypes'
  <2>1. MainTypes' BY <1>1, <1>9 DEF Poll, MainTypes, mainVars
  <2>2. m_call[n] \in Seq(Events) /\ m_call[n] # << >> BY <1>1, <1>9 DEF NetTypes, Poll
  <2>3. Tail(m_call[n]) \in Seq(Events) /\ Head(m_call[n]) \in Events BY <2>2, QueueTypes
  <2>5. m_call' \in [Names -> Seq(Events)] BY <1>1, <1>9, <2>3 DEF NetTypes, Poll
  <2>6. m_onlines' \in [Names -> SUBSET Sessions]
    <3>1. m_onlines \in [Names -> SUBSET Sessions] BY <1>1 DEF NetTypes
    <3>2. \/ m_onlines' = m_onlines
          \/ /\ Head(m_call[n]).ev # "start"
             /\ \/ m_onlines' = [m_onlines EXCEPT ![n] = @ \cup {Head(m_call[n]).s}]
                \/ m_onlines' = [m_onlines EXCEPT ![n] = @ \ {Head(m_call[n]).s}]
      BY <1>9 DEF Poll
    <3>3. Head(m_call[n]).ev # "start" => Head(m_call[n]).s \in Sessions
      BY <2>3, EventTypes
    <3> QED BY <3>1, <3>2, <3>3
  <2>7. /\ m_stop' \in [Names -> BOOLEAN]
        /\ sock' \in [Sessions -> {"new", "connecting", "failed", "open", "closed"}]
        /\ posted' \in [Sessions -> Seq(Handler)]
    <3>1. CASE UNCHANGED <<m_stop, sock, posted>> BY <1>1, <3>1 DEF NetTypes, ConnTypes
    <3>2. CASE connect(n) BY <1>1, <3>2, ConnectTypes
    <3> QED BY <1>9, <3>1, <3>2 DEF Poll
  <2>8. UNCHANGED <<m_current, acceptor, accepts, owner, m_connect, rdOps>>
    BY <1>9 DEF Poll
  <2>9. NetTypes' BY <1>1, <2>5, <2>6, <2>7, <2>8 DEF NetTypes
  <2>10. ConnTypes' BY <1>1, <2>7, <2>8 DEF ConnTypes
  <2> QED BY <2>1, <2>9, <2>10
<1>10. ASSUME NEW n \in Servers, StartServer(n) PROVE NetTypes' /\ ConnTypes' /\ MainTypes'
  <2>1. NetTypes' BY <1>1, <1>10 DEF StartServer, NetTypes
  <2>2. ConnTypes' BY <1>1, <1>10 DEF StartServer, ConnTypes
  <2>3. n \in Names BY DEF Names
  <2>4. MainTypes' BY <1>1, <1>10, <2>3 DEF StartServer, MainTypes, PcType
  <2> QED BY <2>1, <2>2, <2>4
<1>12. CASE FirstAccept
  <2> DEFINE n == pc.at
  <2>1. n \in Servers /\ n \in Names
    BY <1>12 DEF FirstAccept, StopsServer, Names
  <2>2. createConnection(n) /\ acceptInto(n, accepts[n])
    BY <1>12 DEF FirstAccept, acceptInto
  <2> HIDE DEF n
  <2>3. /\ m_current' \in [Names -> Sessions \cup {0}]
        /\ owner' \in Seq(Names) /\ Len(owner') <= MaxSessions
    BY <1>1, <2>1, <2>2, CreateTypes
  <2>4. accepts[n] \in SUBSET Accept BY <1>1, <2>1 DEF NetTypes
  <2>5. accepts' \in [Servers -> SUBSET Accept] BY <1>1, <2>1, <2>2, <2>4, AcceptTypes
  <2>6. NetTypes' BY <1>1, <1>12, <2>3, <2>5 DEF FirstAccept, NetTypes
  <2>7. ConnTypes' BY <1>1, <1>12, <2>3 DEF FirstAccept, ConnTypes
  <2>8. MainTypes' BY <1>1, <1>12 DEF FirstAccept, MainTypes, PcType
  <2> QED BY <2>6, <2>7, <2>8
<1>11. ASSUME NEW s \in Sessions, Kick(s) PROVE NetTypes' /\ ConnTypes' /\ MainTypes'
  <2>1. posted' \in [Sessions -> Seq(Handler)] BY <1>1, <1>11, CloseTypes DEF Kick
  <2>2. NetTypes' BY <1>1, <1>11 DEF Kick, NetTypes
  <2>3. ConnTypes' BY <1>1, <1>11, <2>1 DEF Kick, ConnTypes
  <2>4. MainTypes' BY <1>1, <1>11 DEF Kick, MainTypes
  <2> QED BY <2>2, <2>3, <2>4
<1>13. CASE BindFails
  <2>1. Idle \in PcType BY DEF Idle, PcType
  <2>2. NetTypes' BY <1>1, <1>13 DEF BindFails, NetTypes
  <2>3. ConnTypes' BY <1>1, <1>13 DEF BindFails, ConnTypes
  <2>4. MainTypes' BY <1>1, <1>13, <2>1 DEF BindFails, MainTypes
  <2> QED BY <2>2, <2>3, <2>4
<1> QED
  BY <1>2, <1>3, <1>4, <1>5, <1>6, <1>7, <1>8, <1>9, <1>10, <1>11, <1>12, <1>13 DEF Main

(* The io threads *)
LEMMA TypeIo ==
  ASSUME TypeOK, Io
  PROVE  NetTypes' /\ ConnTypes' /\ MainTypes'
<1>1. NetTypes /\ ConnTypes /\ MainTypes BY TypeParts
<1> HIDE DEF Handler, Events, Accept
<1> USE DEF connVars
<1>2. MainTypes'
  BY <1>1 DEF Io, Accepting, AcceptSocket, PostAccept, BeginAccept, AsyncAccept,
              acceptUnchanged, Handlers, HandlAccept, HandleConnect, HandleConnectError,
              HandleReadSome, HandleClose, Run, MainTypes, mainVars
<1>3. ASSUME NEW n \in Servers, NEW a \in accepts[n],
             returns(n, a) \/ \E st \in {"postAccept", "onError", "beginAccept",
                                       "async_accept"} : goesOn(n, a, st)
      PROVE  accepts' \in [Servers -> SUBSET Accept]
  BY <1>1, <1>3, GoesOnTypes DEF returns, NetTypes
<1>4. ASSUME NEW n \in Servers, NEW a \in accepts[n], AcceptSocket(n, a) \/ BeginAccept(n, a)
      PROVE  NetTypes' /\ ConnTypes'
  <2>1. accepts' \in [Servers -> SUBSET Accept]
    BY <1>3, <1>4 DEF AcceptSocket, BeginAccept
  <2>2. NetTypes' BY <1>1, <1>4, <2>1 DEF AcceptSocket, BeginAccept, acceptUnchanged, NetTypes
  <2>3. ConnTypes' BY <1>1, <1>4 DEF AcceptSocket, BeginAccept, acceptUnchanged, ConnTypes
  <2> QED BY <2>2, <2>3
<1>5. ASSUME NEW n \in Servers, NEW a \in accepts[n], PostAccept(n, a)
      PROVE  NetTypes' /\ ConnTypes'
  <2>1. posted' \in [Sessions -> Seq(Handler)]
    BY <1>1, <1>5, QueueTypes, HandlerNames DEF PostAccept, ConnTypes
  <2>2. accepts' \in [Servers -> SUBSET Accept] BY <1>3, <1>5 DEF PostAccept
  <2>3. NetTypes' BY <1>1, <1>5, <2>2 DEF PostAccept, acceptUnchanged, NetTypes
  <2>4. ConnTypes' BY <1>1, <1>5, <2>1 DEF PostAccept, acceptUnchanged, ConnTypes
  <2> QED BY <2>3, <2>4
<1>6. ASSUME NEW n \in Servers, NEW a \in accepts[n], AsyncAccept(n, a)
      PROVE  NetTypes' /\ ConnTypes'
  <2>1. n \in Names /\ createConnection(n) /\ acceptInto(n, accepts[n] \ {a})
    BY <1>6 DEF AsyncAccept, acceptInto, Names
  <2>2. /\ m_current' \in [Names -> Sessions \cup {0}]
        /\ owner' \in Seq(Names) /\ Len(owner') <= MaxSessions
    BY <1>1, <2>1, CreateTypes
  <2>3. accepts[n] \ {a} \in SUBSET Accept BY <1>1 DEF NetTypes
  <2>4. accepts' \in [Servers -> SUBSET Accept] BY <1>1, <2>1, <2>3, AcceptTypes
  <2>5. NetTypes' BY <1>1, <1>6, <2>2, <2>4 DEF AsyncAccept, acceptUnchanged, NetTypes
  <2>6. ConnTypes' BY <1>1, <1>6, <2>2 DEF AsyncAccept, acceptUnchanged, ConnTypes
  <2> QED BY <2>5, <2>6
<1>7. ASSUME NEW s \in Sessions, Handlers(s) PROVE NetTypes' /\ ConnTypes'
  <2>1. posted[s] \in Seq(Handler) /\ posted[s] # << >>
    BY <1>1, <1>7 DEF Handlers, HandlAccept, HandleConnect, HandleConnectError,
                      HandleReadSome, HandleClose, Run, ConnTypes
  <2>2. /\ Tail(posted[s]) \in Seq(Handler)
        /\ \A h \in Handler : Append(Tail(posted[s]), h) \in Seq(Handler)
    BY <2>1, QueueTypes
  <2>3. \/ posted' = [posted EXCEPT ![s] = Tail(@)]
        \/ \E h \in {"handleReadSome", "handleClose"} :
             posted' = [posted EXCEPT ![s] = Append(Tail(@), h)]
        \/ posted' = [posted EXCEPT ![s] = Tail(@) \o Aborted(s)]
    BY <1>7
    DEF Handlers, HandlAccept, HandleConnect, HandleConnectError, HandleReadSome,
        HandleClose, Established
  <2>10. Tail(posted[s]) \o Aborted(s) \in Seq(Handler) BY <1>1, <2>2, AbortedHandlers
  <2>9. posted' \in [Sessions -> Seq(Handler)]
    BY <1>1, <2>2, <2>3, <2>10, HandlerNames DEF ConnTypes
  <2>11. \/ m_call' = m_call
         \/ \E e \in {Event("connect", s), Event("close", s), Restart} : push(owner[s], e)
    BY <1>7
    DEF Handlers, HandlAccept, HandleConnect, HandleConnectError, HandleReadSome,
        HandleClose, Established
  <2>12. Event("connect", s) \in Events /\ Event("close", s) \in Events /\ Restart \in Events
    BY EventTypes
  <2>4. m_call' \in [Names -> Seq(Events)] BY <1>1, <2>11, <2>12, PushTypes DEF NetTypes
  <2>5. UNCHANGED <<m_stop, m_onlines, m_current, acceptor, accepts, owner>>
    BY <1>7 DEF Handlers, HandlAccept, HandleConnect, HandleConnectError, HandleReadSome,
                HandleClose, Run
  <2>6. NetTypes' BY <1>1, <2>4, <2>5 DEF NetTypes
  <2>13. m_connect' \in [Sessions -> BOOLEAN]
    BY <1>1, <1>7
    DEF Handlers, HandlAccept, HandleConnect, HandleConnectError, HandleReadSome,
        HandleClose, Established, ConnTypes
  <2>14. rdOps' \in [Sessions -> Nat]
    <3>1. \/ UNCHANGED rdOps \/ rdOps' = [rdOps EXCEPT ![s] = @ + 1]
          \/ rdOps' = [rdOps EXCEPT ![s] = 0]
      BY <1>7
      DEF Handlers, HandlAccept, HandleConnect, HandleConnectError, HandleReadSome,
          HandleClose, Established
    <3>2. rdOps \in [Sessions -> Nat] /\ rdOps[s] \in Nat BY <1>1 DEF ConnTypes
    <3>3. CASE UNCHANGED rdOps BY <3>2, <3>3
    <3>4. CASE rdOps' = [rdOps EXCEPT ![s] = @ + 1] BY <3>2, <3>4
    <3>5. CASE rdOps' = [rdOps EXCEPT ![s] = 0] BY <3>2, <3>5
    <3> QED BY <3>1, <3>3, <3>4, <3>5
  <2>7. sock' \in [Sessions -> {"new", "connecting", "failed", "open", "closed"}]
    BY <1>1, <1>7
    DEF Handlers, HandlAccept, HandleConnect, HandleConnectError, HandleReadSome,
        HandleClose, ConnTypes
  <2>8. ConnTypes' BY <1>1, <2>9, <2>5, <2>7, <2>13, <2>14 DEF ConnTypes
  <2> QED BY <2>6, <2>8
<1> QED BY <1>2, <1>3, <1>4, <1>5, <1>6, <1>7 DEF Io, Accepting

(* The kernel and the peers *)
LEMMA TypeKernel ==
  ASSUME TypeOK, Kernel
  PROVE  NetTypes' /\ ConnTypes' /\ MainTypes'
<1>1. NetTypes /\ ConnTypes /\ MainTypes BY TypeParts
<1> HIDE DEF Handler, Events, Accept
<1> USE DEF netVars, connVars
<1>2. MainTypes'
  <2>1. UNCHANGED mainVars
    BY DEF Kernel, Accepted, AcceptFails, ConnectDone, ConnectFails, PeerLost
  <2>5. fails' = fails \/ fails' = fails + 1
    BY DEF Kernel, Accepted, AcceptFails, ConnectDone, ConnectFails, PeerLost
  <2>6. fails' \in Nat BY <1>1, <2>5 DEF MainTypes
  <2>2. crashed' \in {crashed, FALSE} \/ \E s : crashed' = Freed(s)
    BY DEF Kernel, Accepted, AcceptFails, ConnectDone, ConnectFails, PeerLost
  <2>3. \A s : Freed(s) \in BOOLEAN BY DEF Freed
  <2>4. crashed' \in BOOLEAN BY <1>1, <2>2, <2>3 DEF MainTypes
  <2> QED BY <1>1, <2>1, <2>4, <2>6 DEF MainTypes, mainVars
<1>3. ASSUME NEW n \in Servers, Accepted(n) \/ AcceptFails(n) PROVE NetTypes' /\ ConnTypes'
  <2>1. PICK a \in accepts[n], st \in {"ok", "err"} : goesOn(n, a, st)
    BY <1>3 DEF Accepted, AcceptFails
  <2>2. accepts' \in [Servers -> SUBSET Accept] BY <1>1, <2>1, GoesOnTypes
  <2>3. NetTypes' BY <1>1, <1>3, <2>2 DEF Accepted, AcceptFails, NetTypes
  <2>4. ConnTypes' BY <1>1, <1>3 DEF Accepted, AcceptFails, ConnTypes
  <2> QED BY <2>3, <2>4
<1>4. ASSUME NEW s \in Sessions, ConnectDone(s) \/ ConnectFails(s) \/ PeerLost(s)
      PROVE  NetTypes' /\ ConnTypes'
  <2>1. posted' \in [Sessions -> Seq(Handler)]
    <3>1. PICK h \in Handler : posted' = [posted EXCEPT ![s] = Append(@, h)]
      BY <1>4, HandlerNames DEF ConnectDone, ConnectFails, PeerLost
    <3> QED BY <1>1, <3>1, QueueTypes DEF ConnTypes
  <2>2. NetTypes' BY <1>1, <1>4 DEF ConnectDone, ConnectFails, PeerLost, NetTypes
  <2>4. sock' \in [Sessions -> {"new", "connecting", "failed", "open", "closed"}]
    BY <1>1, <1>4 DEF ConnectDone, ConnectFails, PeerLost, ConnTypes
  <2>5. rdOps' \in [Sessions -> Nat]
    <3>1. UNCHANGED rdOps \/ (rdOps[s] > 0 /\ rdOps' = [rdOps EXCEPT ![s] = @ - 1])
      BY <1>4 DEF ConnectDone, ConnectFails, PeerLost
    <3> QED BY <1>1, <3>1 DEF ConnTypes
  <2>6. UNCHANGED <<owner, m_connect>> BY <1>4 DEF ConnectDone, ConnectFails, PeerLost
  <2>3. ConnTypes' BY <1>1, <2>1, <2>4, <2>5, <2>6 DEF ConnTypes
  <2> QED BY <2>2, <2>3
<1> QED BY <1>2, <1>3, <1>4 DEF Kernel

(* The connection of a client is made before the client can be used. *)
LEMMA ClientsReadyStep ==
  ASSUME TypeOK, StopsServer, Next
  PROVE  ClientsReady'
<1>1. NetTypes /\ ConnTypes /\ ClientsReady BY TypeParts
<1> USE DEF netVars, mainVars
<1>2. CASE UNCHANGED <<m_current, m_nets>> BY <1>1, <1>2 DEF ClientsReady
<1>3. ASSUME NEW n \in Names, createConnection(n), m_nets' \subseteq m_nets \cup {n}
      PROVE  ClientsReady'
  <2>1. /\ m_current' = [m_current EXCEPT ![n] = NextSession]
        /\ NextSession = Len(owner) + 1 /\ Len(owner) \in Nat
    BY <1>1, <1>3, CreateTypes DEF createConnection
  <2>2. m_current \in [Names -> Sessions \cup {0}] BY <1>1 DEF NetTypes
  <2>3. NextSession # 0 BY <2>1
  <2> HIDE DEF NextSession
  <2> SUFFICES ASSUME NEW k \in Clients, k \in m_nets' PROVE m_current'[k] # 0
    BY DEF ClientsReady
  <2>4. k \in Names BY DEF Names
  <2>5. CASE k = n BY <2>1, <2>2, <2>3, <2>5
  <2>6. CASE k # n
    <3>1. k \in m_nets /\ m_current'[k] = m_current[k] BY <1>3, <2>1, <2>2, <2>4, <2>6
    <3> QED BY <1>1, <3>1 DEF ClientsReady
  <2> QED BY <2>5, <2>6
<1>4. CASE Main
  <2>1. CASE FirstAccept
    <3>1. pc.at \in Names BY <2>1 DEF FirstAccept, StopsServer, Names
    <3> QED BY <1>3, <2>1, <3>1 DEF FirstAccept, acceptInto
  <2>2. ASSUME NEW n \in Names, Add(n) PROVE ClientsReady'
    <3>1. m_nets' = m_nets \cup {n} BY <2>2 DEF Add
    <3>2. CASE createConnection(n) BY <1>3, <3>1, <3>2
    <3>3. CASE n \in Servers /\ UNCHANGED m_current
      <4>1. n \notin Clients BY <3>3, ServiceAssumption
      <4> QED BY <1>1, <3>1, <3>3, <4>1 DEF ClientsReady
    <3> QED BY <2>2, <3>2, <3>3 DEF Add
  <2>3. CASE Start \/ OpenAcceptor \/ BindFails \/ SetStop \/ CloseAcceptor \/ CloseCurrent
             \/ Return
    BY <1>2, <2>3
    DEF Start, OpenAcceptor, BindFails, SetStop, CloseAcceptor, CloseCurrent, Return
  <2>4. ASSUME NEW n \in Names,
               Remove(n) \/ StartClient(n) \/ StartServer(n) \/ StopNet(n) \/ Poll(n)
        PROVE  ClientsReady'
    BY <1>2, <2>4 DEF Remove, StartClient, StartServer, StopNet, Poll
  <2>5. ASSUME NEW s \in Sessions, Kick(s) PROVE ClientsReady' BY <1>2, <2>5 DEF Kick
  <2>6. \A n \in Servers : n \in Names BY DEF Names
  <2> QED BY <1>4, <2>1, <2>2, <2>3, <2>4, <2>5, <2>6 DEF Main
<1>5. ASSUME NEW n \in Servers, Accepting(n) PROVE ClientsReady'
  <2>1. PICK a \in accepts[n] :
          AcceptSocket(n, a) \/ PostAccept(n, a) \/ BeginAccept(n, a) \/ AsyncAccept(n, a)
    BY <1>5 DEF Accepting
  <2>2. CASE AsyncAccept(n, a)
    <3>1. n \in Names BY DEF Names
    <3> QED BY <1>3, <2>2, <3>1 DEF AsyncAccept, acceptInto, acceptUnchanged
  <2> QED
    BY <1>2, <2>1, <2>2 DEF AcceptSocket, PostAccept, BeginAccept, acceptUnchanged
<1>6. ASSUME NEW s \in Sessions, Handlers(s) PROVE ClientsReady'
  BY <1>2, <1>6 DEF Handlers, HandlAccept, HandleConnect, HandleConnectError,
                    HandleReadSome, HandleClose, Run
<1>7. CASE Kernel
  BY <1>2, <1>7 DEF Kernel, Accepted, AcceptFails, ConnectDone, ConnectFails, PeerLost
<1> QED BY <1>4, <1>5, <1>6, <1>7 DEF Next, Io

(* Every action keeps the types. *)
LEMMA TypeStep == TypeOK /\ StopsServer /\ [Next]_vars => TypeOK'
<1> SUFFICES ASSUME TypeOK, StopsServer, [Next]_vars PROVE TypeOK' OBVIOUS
<1>1. CASE UNCHANGED vars
  BY <1>1 DEF vars, netVars, connVars, mainVars, TypeOK
<1>2. CASE Next
  <2>1. NetTypes' /\ ConnTypes' /\ MainTypes' BY <1>2, TypeMain, TypeIo, TypeKernel DEF Next
  <2>2. ClientsReady' BY <1>2, ClientsReadyStep
  <2> QED BY <2>1, <2>2, TypeParts
<1> QED BY <1>1, <1>2

(* TypeOK with the place of the main thread. *)
LEMMA TypeInvariant == Spec => [](TypeOK /\ StopsServer)
<1>1. Init => StopsServer BY DEF Init, Idle, StopsServer
<1> QED BY <1>1, TypeInit, TypeStep, StopsServerStep, PTL DEF Spec

(***************************************************************************)
(* The variables of a NetService keep their types, whatever is called in   *)
(* whatever order: among them, every event of a connection carries the id  *)
(* of a session, and a client that was added never loses its connection.   *)
(***************************************************************************)
THEOREM ServiceTypeCorrect == Spec => []TypeOK
BY TypeInvariant, PTL
-----------------------------------------------------------------------------
(* Layer 2: the sessions and their events. *)

(* The events of session t in the queue q of its network, and whether t is *)
(* online once they have all been polled, on being the sessions online.    *)
EventsOf(q, t) == {i \in 1..Len(q) : q[i] # Restart /\ q[i].s = t}

Told(q, on, t) ==
  IF EventsOf(q, t) = {} THEN t \in on
  ELSE \E i \in EventsOf(q, t) : /\ \A j \in EventsOf(q, t) : j <= i
                                 /\ q[i].ev = "connect"

(* The sessions online after the event e was polled. *)
After(on, e) ==
  IF e.ev = "connect" THEN on \cup {e.s} ELSE IF e.ev = "close" THEN on \ {e.s} ELSE on

(* OnlineOncePolled as what the events of one network tell, before and after a step. *)
LEMMA OnlineTold ==
  /\ \A s : OnlineOncePolled(s) <=> Told(m_call[owner[s]], m_onlines[owner[s]], s)
  /\ \A s : OnlineOncePolled(s)' <=> Told(m_call'[owner'[s]], m_onlines'[owner'[s]], s)
BY DEF OnlineOncePolled, Waiting, Told, EventsOf

(* The last event pushed decides. *)
LEMMA ToldPush ==
  ASSUME NEW q \in Seq(Events), NEW e \in Events, NEW on, NEW t
  PROVE  Told(Append(q, e), on, t) <=>
           IF e # Restart /\ e.s = t THEN e.ev = "connect" ELSE Told(q, on, t)
<1> HIDE DEF Events
<1> DEFINE a == Append(q, e)
           n == Len(q)
<1>1. /\ n \in Nat /\ Len(a) = n + 1
      /\ \A i \in 1..n : a[i] = q[i]
      /\ a[n + 1] = e
  BY AppendProperties, LenProperties
<1> HIDE DEF a
<1>2. \A i \in 1..Len(a) : i \in 1..n \/ i = n + 1 BY <1>1
<1>3. n + 1 \in 1..Len(a) /\ \A i \in 1..n : i \in 1..Len(a) BY <1>1
<1>4. CASE e # Restart /\ e.s = t
  <2>1. n + 1 \in EventsOf(a, t) BY <1>1, <1>3, <1>4 DEF EventsOf
  <2>2. \A j \in EventsOf(a, t) : j \in Int /\ j <= n + 1 BY <1>1 DEF EventsOf
  <2>3. \A i \in EventsOf(a, t) : (\A j \in EventsOf(a, t) : j <= i) => i = n + 1
    BY <1>1, <2>1, <2>2
  <2>4. Told(a, on, t) <=> a[n + 1].ev = "connect"
    BY <2>1, <2>2, <2>3 DEF Told
  <2> QED BY <1>1, <1>4, <2>4 DEF a
<1>5. CASE ~(e # Restart /\ e.s = t)
  <2>1. EventsOf(a, t) = EventsOf(q, t) BY <1>1, <1>2, <1>3, <1>5 DEF EventsOf
  <2>2. \A i \in EventsOf(q, t) : a[i] = q[i] BY <1>1 DEF EventsOf
  <2>3. Told(a, on, t) <=> Told(q, on, t) BY <2>1, <2>2 DEF Told
  <2> QED BY <1>5, <2>3 DEF a
<1> QED BY <1>4, <1>5

(* Polling the first event changes nothing of what they tell together. *)
LEMMA ToldPoll ==
  ASSUME NEW q \in Seq(Events), q # << >>, NEW on, NEW t
  PROVE  Told(Tail(q), After(on, Head(q)), t) <=> Told(q, on, t)
<1> DEFINE r == Tail(q)
           n == Len(q)
           e == Head(q)
<1> HIDE DEF Events
<1>0. IF e = Restart THEN e.ev = "start" ELSE e.ev \in {"connect", "close"}
  <2>1. e \in Events BY QueueTypes
  <2> QED BY <2>1, EventTypes
<1>1. /\ n \in Nat \ {0} /\ Len(r) = n - 1 /\ e = q[1]
      /\ \A i \in 1..Len(r) : r[i] = q[i + 1]
  BY HeadTailProperties, EmptySeq
<1> HIDE DEF r, e
<1>2. \A i \in 1..n : i = 1 \/ (i - 1 \in 1..Len(r) /\ (i - 1) + 1 = i) BY <1>1
<1>3. 1 \in 1..n /\ \A i \in 1..Len(r) : i + 1 \in 1..n BY <1>1
<1>4. \A i \in EventsOf(r, t) : i + 1 \in EventsOf(q, t) /\ r[i] = q[i + 1] /\ i \in Nat
  BY <1>1, <1>3 DEF EventsOf
<1>5. \A i \in EventsOf(q, t) : i = 1 \/ (i - 1 \in EventsOf(r, t) /\ (i - 1) + 1 = i)
  <2> TAKE i \in EventsOf(q, t)
  <2>1. i \in 1..n BY DEF EventsOf
  <2>2. CASE i - 1 \in 1..Len(r) /\ (i - 1) + 1 = i
    <3>1. r[i - 1] = q[i] BY <1>1, <2>2
    <3> QED BY <2>2, <3>1 DEF EventsOf
  <2> QED BY <1>2, <2>1, <2>2
<1>6. \A i \in EventsOf(q, t) : i \in Int /\ i >= 1 BY DEF EventsOf
<1>7. CASE EventsOf(r, t) # {}
  <2>1. PICK k \in EventsOf(r, t) : TRUE BY <1>7
  <2>2. k + 1 \in EventsOf(q, t) /\ k \in Nat /\ k >= 1 BY <1>4, <2>1 DEF EventsOf
  <2>3. ASSUME NEW i \in EventsOf(r, t), \A j \in EventsOf(r, t) : j <= i,
               r[i].ev = "connect"
        PROVE  Told(q, on, t)
    <3>1. i + 1 \in EventsOf(q, t) /\ q[i + 1].ev = "connect" /\ i \in Nat BY <1>4, <2>3
    <3>2. \A j \in EventsOf(q, t) : j <= i + 1
      <4> TAKE j \in EventsOf(q, t)
      <4>1. CASE j = 1 BY <3>1, <4>1
      <4>2. CASE j - 1 \in EventsOf(r, t)
        <5>1. j - 1 <= i /\ j \in Int BY <1>6, <2>3, <4>2
        <5> QED BY <3>1, <5>1
      <4> QED BY <1>5, <4>1, <4>2
    <3> QED BY <3>1, <3>2 DEF Told
  <2>4. ASSUME NEW i \in EventsOf(q, t), \A j \in EventsOf(q, t) : j <= i,
               q[i].ev = "connect"
        PROVE  Told(r, After(on, e), t)
    <3>1. i # 1 /\ i \in Int BY <1>6, <2>2, <2>4
    <3>2. i - 1 \in EventsOf(r, t) /\ (i - 1) + 1 = i BY <1>5, <3>1
    <3>3. r[i - 1].ev = "connect" BY <1>4, <2>4, <3>2
    <3>4. \A j \in EventsOf(r, t) : j <= i - 1
      <4> TAKE j \in EventsOf(r, t)
      <4>1. j + 1 <= i /\ j \in Nat BY <1>4, <2>4
      <4> QED BY <3>1, <4>1
    <3> QED BY <3>2, <3>3, <3>4 DEF Told
  <2>5. EventsOf(q, t) # {} BY <2>2
  <2>6. Told(r, After(on, e), t) => Told(q, on, t) BY <1>7, <2>3 DEF Told
  <2>7. Told(q, on, t) => Told(r, After(on, e), t) BY <2>4, <2>5 DEF Told
  <2> QED BY <2>6, <2>7 DEF r, e
<1>8. CASE EventsOf(r, t) = {}
  <2>1. Told(r, After(on, e), t) <=> t \in After(on, e) BY <1>8 DEF Told
  <2>2. \A i \in EventsOf(q, t) : i = 1 BY <1>5, <1>8
  <2>3. CASE e # Restart /\ e.s = t
    <3>1. 1 \in EventsOf(q, t) BY <1>1, <1>3, <2>3 DEF EventsOf
    <3>2. Told(q, on, t) <=> e.ev = "connect" BY <1>1, <2>2, <3>1 DEF Told
    <3>3. t \in After(on, e) <=> e.ev = "connect" BY <1>0, <2>3 DEF After
    <3> QED BY <2>1, <3>2, <3>3 DEF r, e
  <2>4. CASE ~(e # Restart /\ e.s = t)
    <3>1. 1 \notin EventsOf(q, t) BY <1>1, <2>4 DEF EventsOf
    <3>2. EventsOf(q, t) = {} BY <2>2, <3>1
    <3>3. Told(q, on, t) <=> t \in on BY <3>2 DEF Told
    <3>4. t \in After(on, e) <=> t \in on BY <1>0, <2>4 DEF After
    <3> QED BY <2>1, <3>3, <3>4 DEF r, e
  <2> QED BY <2>3, <2>4
<1> QED BY <1>7, <1>8

(* The types of the terms of SessionInv. *)
LEMMA SessionFacts ==
  ASSUME TypeOK
  PROVE  /\ owner \in Seq(Names) /\ Len(owner) \in Nat /\ MaxSessions \in Nat
         /\ Sessions = 1..MaxSessions /\ 1..Len(owner) \subseteq Sessions
         /\ \A s \in 1..Len(owner) : owner[s] \in Names
         /\ \A n \in Names : /\ m_call[n] \in Seq(Events)
                             /\ m_onlines[n] \subseteq Sessions
                             /\ m_current[n] \in Nat
<1>1. NetTypes /\ ConnTypes BY TypeParts
<1>2. owner \in Seq(Names) /\ Len(owner) <= MaxSessions BY <1>1 DEF ConnTypes
<1>3. Len(owner) \in Nat /\ MaxSessions \in Nat BY <1>2, LenProperties, ServiceAssumption
<1>4. \A s \in 1..Len(owner) : owner[s] \in Names BY <1>2, ElementOfSeq
<1>5. Sessions = 1..MaxSessions /\ 1..Len(owner) \subseteq Sessions
  BY <1>2, <1>3 DEF Sessions
<1>6. \A n \in Names : /\ m_call[n] \in Seq(Events)
                       /\ m_onlines[n] \subseteq Sessions
                       /\ m_current[n] \in Nat
  <2> HIDE DEF Events
  <2> QED BY <1>1, <1>3, <1>5 DEF NetTypes
<1> QED BY <1>2, <1>3, <1>4, <1>5, <1>6

(* Steps that push or poll no event. *)
LEMMA EventsKeep ==
  ASSUME EventsTellState, UNCHANGED <<m_call, m_onlines, owner, m_connect>>
  PROVE  EventsTellState'
BY OnlineTold DEF EventsTellState

(* A step that leaves the sessions not yet used as they are. *)
LEMMA SessionKeep ==
  ASSUME SessionInv, UNCHANGED <<m_call, m_onlines, m_current, owner>>,
         \A n \in Servers : \A a \in accepts'[n] : a.s <= Len(owner),
         \A s \in Sessions :
           s > Len(owner) =>
             /\ m_connect'[s] = m_connect[s] /\ rdOps'[s] = rdOps[s]
             /\ sock'[s] = sock[s] /\ posted'[s] = posted[s]
  PROVE  SessionInv'
<1>1. KnownNets' BY DEF SessionInv, KnownNets
<1>2. KnownAccepts' BY DEF KnownAccepts
<1>3. OthersUntouched' BY DEF SessionInv, OthersUntouched
<1> QED BY <1>1, <1>2, <1>3 DEF SessionInv

(* Steps of the main thread and of the accept loop that touch no connection. *)
LEMMA SessionQuiet ==
  ASSUME TypeOK, SessionInv, EventsTellState,
         UNCHANGED <<m_call, m_onlines, m_current, connVars>>,
         \A n \in Servers : \A a \in accepts'[n] : \E b \in accepts[n] : a.s = b.s
  PROVE  SessionInv' /\ EventsTellState'
<1>1. \A n \in Servers : \A a \in accepts'[n] : a.s <= Len(owner)
  BY DEF SessionInv, KnownAccepts
<1>2. UNCHANGED <<owner, m_connect, sock, rdOps, posted>> BY DEF connVars
<1> QED BY <1>1, <1>2, SessionKeep, EventsKeep

(* Steps that post handlers for, or change the socket of, known sessions only. *)
LEMMA SessionTouch ==
  ASSUME TypeOK, SessionInv, EventsTellState, NEW ss,
         UNCHANGED <<m_call, m_onlines, m_current, owner, m_connect>>,
         \A n \in Servers : \A a \in accepts'[n] : \E b \in accepts[n] : a.s = b.s,
         \A s \in ss : s \in Sessions => s <= Len(owner),
         \A s \in Sessions \ ss :
           rdOps'[s] = rdOps[s] /\ sock'[s] = sock[s] /\ posted'[s] = posted[s]
  PROVE  SessionInv' /\ EventsTellState'
<1>1. Len(owner) \in Nat /\ Sessions = 1..MaxSessions /\ MaxSessions \in Nat BY SessionFacts
<1>2. \A s \in Sessions : s > Len(owner) => s \notin ss BY <1>1
<1>3. \A n \in Servers : \A a \in accepts'[n] : a.s <= Len(owner)
  BY DEF SessionInv, KnownAccepts
<1> QED BY <1>2, <1>3, SessionKeep, EventsKeep

(* A step of one connection that pushes no event. *)
LEMMA SessionTouchOne ==
  ASSUME TypeOK, SessionInv, EventsTellState, NEW s,
         UNCHANGED <<m_call, m_onlines, m_current, owner, m_connect>>,
         \A n \in Servers : \A a \in accepts'[n] : \E b \in accepts[n] : a.s = b.s,
         s <= Len(owner),
         \A t \in Sessions \ {s} :
           rdOps'[t] = rdOps[t] /\ sock'[t] = sock[t] /\ posted'[t] = posted[t]
  PROVE  SessionInv' /\ EventsTellState'
<1> DEFINE ss == {s}
<1>1. /\ \A t \in ss : t \in Sessions => t <= Len(owner)
      /\ \A t \in Sessions \ ss :
           rdOps'[t] = rdOps[t] /\ sock'[t] = sock[t] /\ posted'[t] = posted[t]
  OBVIOUS
<1> HIDE DEF ss
<1> QED BY <1>1, SessionTouch

(* createConnection: the new session is offline, and no event speaks of it. *)
LEMMA SessionCreate ==
  ASSUME TypeOK, SessionInv, EventsTellState, NEW n \in Names, createConnection(n),
         UNCHANGED <<m_call, m_onlines, m_connect, sock, rdOps, posted>>,
         \A k \in Servers : \A a \in accepts'[k] :
           a.s = NextSession \/ \E b \in accepts[k] : a.s = b.s
  PROVE  SessionInv' /\ EventsTellState'
<1> DEFINE new == NextSession
           k == Len(owner)
<1>1. /\ owner \in Seq(Names) /\ k \in Nat /\ Sessions = 1..MaxSessions /\ MaxSessions \in Nat
      /\ \A m \in Names : m_current[m] \in Nat
      /\ \A m \in Names : m_onlines[m] \subseteq Sessions
      /\ m_current \in [Names -> Sessions \cup {0}]
      /\ accepts \in [Servers -> SUBSET Accept]
  BY SessionFacts, TypeParts DEF NetTypes
<1>2. /\ new = k + 1 /\ new \in Sessions
      /\ owner' = Append(owner, n) /\ m_current' = [m_current EXCEPT ![n] = new]
  BY CreateTypes, TypeParts DEF createConnection
<1>3. Len(owner') = k + 1 /\ (\A t \in 1..k : owner'[t] = owner[t]) /\ owner'[k + 1] = n
  BY <1>1, <1>2, AppendProperties
<1> HIDE DEF new, k
<1>4. \A t \in 1..(k + 1) : t \in 1..k \/ t = k + 1 BY <1>1
<1>5. \A m \in Names : /\ m_current[m] <= k
                       /\ \A s \in m_onlines[m] : s <= k
                       /\ \A i \in 1..Len(m_call[m]) :
                            m_call[m][i] # Restart => m_call[m][i].s <= k
  BY DEF SessionInv, KnownNets, k
<1>6. KnownNets'
  <2> SUFFICES ASSUME NEW m \in Names
               PROVE  /\ m_current'[m] <= k + 1
                      /\ \A s \in m_onlines[m] : s <= k + 1
                      /\ \A i \in 1..Len(m_call[m]) :
                           m_call[m][i] # Restart => m_call[m][i].s <= k + 1
    BY <1>3 DEF KnownNets
  <2>1. m_current'[m] <= k + 1 BY <1>1, <1>2, <1>5
  <2>2. \A s \in m_onlines[m] : s <= k + 1 BY <1>1, <1>5
  <2>3. \A i \in 1..Len(m_call[m]) : m_call[m][i] # Restart => m_call[m][i].s <= k + 1
    <3> TAKE i \in 1..Len(m_call[m])
    <3>1. m_call[m] \in Seq(Events) BY SessionFacts
    <3>2. m_call[m][i] \in Events
      <4> HIDE DEF Events
      <4> QED BY <3>1, ElementOfSeq
    <3>3. m_call[m][i] # Restart => m_call[m][i].s \in Nat BY <1>1, <3>2, EventTypes
    <3> QED BY <1>1, <1>5, <3>3
  <2> QED BY <2>1, <2>2, <2>3
<1>7. KnownAccepts'
  <2> SUFFICES ASSUME NEW m \in Servers, NEW a \in accepts'[m] PROVE a.s <= k + 1
    BY <1>3 DEF KnownAccepts
  <2>1. CASE a.s = new BY <1>1, <1>2, <2>1
  <2>2. CASE \E b \in accepts[m] : a.s = b.s
    <3>1. PICK b \in accepts[m] : a.s = b.s BY <2>2
    <3>2. b.s \in Nat BY <1>1 DEF Accept
    <3>3. b.s <= k BY DEF SessionInv, KnownAccepts, k
    <3> QED BY <1>1, <3>1, <3>2, <3>3
  <2> QED BY <2>1, <2>2 DEF new
<1>8. OthersUntouched'
  <2>1. \A s \in Sessions : s > k + 1 => s > k BY <1>1
  <2> QED BY <1>3, <2>1 DEF SessionInv, OthersUntouched, k
<1>9. EventsTellState'
  <2> SUFFICES ASSUME NEW t \in 1..(k + 1) PROVE OnlineOncePolled(t)' <=> m_connect[t]
    BY <1>3 DEF EventsTellState
  <2>1. CASE t \in 1..k
    <3>1. owner'[t] = owner[t] BY <1>3, <2>1
    <3>2. OnlineOncePolled(t)' <=> OnlineOncePolled(t) BY <3>1, OnlineTold
    <3> QED BY <2>1, <3>2 DEF EventsTellState, k
  <2>2. CASE t = k + 1
    <3>1. ~(t <= k) /\ t > k /\ t \in Sessions BY <1>1, <1>2, <2>2
    <3>2. ~m_connect[t] BY <3>1 DEF SessionInv, OthersUntouched, k
    <3>3. owner'[t] = n BY <1>3, <2>2
    <3>4. EventsOf(m_call[n], t) = {} BY <1>5, <3>1 DEF EventsOf
    <3>5. t \notin m_onlines[n] BY <1>5, <3>1
    <3>6. ~Told(m_call[n], m_onlines[n], t) BY <3>4, <3>5 DEF Told
    <3> QED BY <3>2, <3>3, <3>6, OnlineTold
  <2> QED BY <1>4, <2>1, <2>2
<1> QED BY <1>6, <1>7, <1>8, <1>9 DEF SessionInv

(* beginAccept keeps SessionInv. *)
LEMMA SessionAccept ==
  ASSUME TypeOK, SessionInv, EventsTellState, NEW n \in Servers,
         NEW ops \in SUBSET accepts[n], acceptInto(n, ops),
         UNCHANGED <<m_call, m_onlines, m_connect, sock, rdOps, posted>>
  PROVE  SessionInv' /\ EventsTellState'
<1>1. PICK st \in {"wait", "err"} :
        accepts' = [accepts EXCEPT ![n] = ops \cup {[s |-> NextSession, st |-> st]}]
  BY DEF acceptInto
<1>2. n \in Names /\ createConnection(n) BY DEF acceptInto, Names
<1>3. accepts \in [Servers -> SUBSET Accept] BY TypeParts DEF NetTypes
<1>4. \A k \in Servers : \A a \in accepts'[k] :
        a.s = NextSession \/ \E b \in accepts[k] : a.s = b.s
  <2> HIDE DEF Accept, NextSession
  <2> QED BY <1>1, <1>3
<1> QED BY <1>2, <1>4, SessionCreate

(* A handler of session s pushes an event to the network that owns s. *)
LEMMA EventsPush ==
  ASSUME TypeOK, EventsTellState, NEW s \in 1..Len(owner),
         NEW e \in {Event("connect", s), Event("close", s), Restart}, push(owner[s], e),
         UNCHANGED <<m_onlines, owner>>,
         \A t \in 1..Len(owner) :
           m_connect'[t] <=> IF e # Restart /\ t = s THEN e.ev = "connect" ELSE m_connect[t]
  PROVE  EventsTellState'
<1>1. /\ s \in Sessions /\ \A t \in 1..Len(owner) : owner[t] \in Names
      /\ \A n \in Names : m_call[n] \in Seq(Events)
      /\ DOMAIN m_call = Names
  BY SessionFacts, TypeParts DEF NetTypes
<1>2. e \in Events /\ (e # Restart => e.s = s) BY <1>1, EventTypes
<1>3. m_call' = [m_call EXCEPT ![owner[s]] = Append(@, e)] BY DEF push
<1> HIDE DEF Events
<1> SUFFICES ASSUME NEW t \in 1..Len(owner) PROVE OnlineOncePolled(t)' <=> m_connect'[t]
  BY DEF EventsTellState
<1> DEFINE q == m_call[owner[t]]
           on == m_onlines[owner[t]]
<1>4. Told(q, on, t) <=> m_connect[t] BY OnlineTold DEF EventsTellState
<1>5. OnlineOncePolled(t)' <=> Told(m_call'[owner[t]], on, t) BY OnlineTold
<1>6. CASE owner[t] = owner[s]
  <2>1. m_call'[owner[t]] = Append(q, e) BY <1>1, <1>3, <1>6
  <2>2. q \in Seq(Events) BY <1>1
  <2> HIDE DEF q, on
  <2>3. Told(Append(q, e), on, t) <=>
          IF e # Restart /\ e.s = t THEN e.ev = "connect" ELSE Told(q, on, t)
    BY <1>2, <2>2, ToldPush
  <2> QED BY <1>2, <1>4, <1>5, <2>1, <2>3
<1>7. CASE owner[t] # owner[s]
  <2>1. m_call'[owner[t]] = q /\ t # s BY <1>1, <1>3, <1>7
  <2> QED BY <1>4, <1>5, <2>1
<1> QED BY <1>6, <1>7

(* poll() runs the first event of network n. *)
LEMMA EventsPoll ==
  ASSUME TypeOK, EventsTellState, NEW n \in Names, m_call[n] # << >>,
         m_call' = [m_call EXCEPT ![n] = Tail(@)],
         \A k \in Names :
           m_onlines'[k] = IF k = n THEN After(m_onlines[k], Head(m_call[k])) ELSE m_onlines[k],
         UNCHANGED <<owner, m_connect>>
  PROVE  EventsTellState'
<1>1. /\ \A t \in 1..Len(owner) : owner[t] \in Names
      /\ \A k \in Names : m_call[k] \in Seq(Events)
      /\ DOMAIN m_call = Names
  BY SessionFacts, TypeParts DEF NetTypes
<1> HIDE DEF Events
<1> SUFFICES ASSUME NEW t \in 1..Len(owner) PROVE OnlineOncePolled(t)' <=> m_connect[t]
  BY DEF EventsTellState
<1> DEFINE q == m_call[owner[t]]
           on == m_onlines[owner[t]]
<1>2. Told(q, on, t) <=> m_connect[t] BY OnlineTold DEF EventsTellState
<1>3. OnlineOncePolled(t)' <=> Told(m_call'[owner[t]], m_onlines'[owner[t]], t) BY OnlineTold
<1>4. CASE owner[t] = n
  <2>1. m_call'[owner[t]] = Tail(q) /\ m_onlines'[owner[t]] = After(on, Head(q))
    BY <1>1, <1>4
  <2>2. q \in Seq(Events) /\ q # << >> BY <1>1, <1>4
  <2> HIDE DEF q, on
  <2>3. Told(Tail(q), After(on, Head(q)), t) <=> Told(q, on, t) BY <2>2, ToldPoll
  <2> QED BY <1>2, <1>3, <2>1, <2>3
<1>5. CASE owner[t] # n
  <2>1. m_call'[owner[t]] = q /\ m_onlines'[owner[t]] = on BY <1>1, <1>5
  <2> QED BY <1>2, <1>3, <2>1
<1> QED BY <1>4, <1>5

(* A handler runs only on a session that was created. *)
LEMMA HandlerSession ==
  ASSUME TypeOK, SessionInv, NEW s \in Sessions, posted[s] # << >>
  PROVE  s \in 1..Len(owner)
<1>1. Len(owner) \in Nat /\ Sessions = 1..MaxSessions /\ MaxSessions \in Nat BY SessionFacts
<1>2. ~(s > Len(owner)) BY DEF SessionInv, OthersUntouched
<1> QED BY <1>1, <1>2

(* What has to be shown of a handler of session s, or of a poll. *)
LEMMA SessionEvent ==
  ASSUME TypeOK, SessionInv, UNCHANGED <<m_current, accepts, owner>>,
         \A n \in Names : \A t \in m_onlines'[n] : t <= Len(owner),
         \A n \in Names : \A i \in 1..Len(m_call'[n]) :
           m_call'[n][i] # Restart => m_call'[n][i].s <= Len(owner),
         NEW s, s \in Sessions => s <= Len(owner),
         \A t \in Sessions \ {s} :
           /\ m_connect'[t] = m_connect[t] /\ rdOps'[t] = rdOps[t]
           /\ sock'[t] = sock[t] /\ posted'[t] = posted[t]
  PROVE  SessionInv'
<1>1. Len(owner) \in Nat /\ Sessions = 1..MaxSessions /\ MaxSessions \in Nat BY SessionFacts
<1>2. \A t \in Sessions : t > Len(owner) => t # s BY <1>1
<1>3. KnownNets' BY DEF SessionInv, KnownNets
<1>4. KnownAccepts' BY DEF SessionInv, KnownAccepts
<1>5. OthersUntouched' BY <1>2 DEF SessionInv, OthersUntouched
<1> QED BY <1>3, <1>4, <1>5 DEF SessionInv

(* The handlers of a connection keep SessionInv. *)
LEMMA SessionHandlers ==
  ASSUME TypeOK, SessionInv, EventsTellState, NEW s \in Sessions, Handlers(s)
  PROVE  SessionInv' /\ EventsTellState'
<1>1. posted[s] # << >> /\ UNCHANGED <<m_onlines, m_current, accepts, owner>>
  BY DEF Handlers, HandlAccept, HandleConnect, HandleConnectError, HandleReadSome,
         HandleClose, Run
<1>2. s \in 1..Len(owner) /\ s <= Len(owner) BY <1>1, HandlerSession, SessionFacts
<1>3. /\ m_connect \in [Sessions -> BOOLEAN] /\ m_connect' \in [Sessions -> BOOLEAN]
      /\ posted \in [Sessions -> Seq(Handler)] /\ rdOps \in [Sessions -> Nat]
      /\ sock \in [Sessions -> {"new", "connecting", "failed", "open", "closed"}]
      /\ 1..Len(owner) \subseteq Sessions
  <2>2. ConnTypes /\ ConnTypes' BY TypeIo, TypeParts DEF Io
  <2> HIDE DEF Handler
  <2> QED BY <2>2, SessionFacts DEF ConnTypes
<1>4. \A t \in Sessions \ {s} : /\ m_connect'[t] = m_connect[t] /\ rdOps'[t] = rdOps[t]
                                /\ sock'[t] = sock[t] /\ posted'[t] = posted[t]
  <2> HIDE DEF Handler
  <2>1. \A t \in Sessions \ {s} : m_connect'[t] = m_connect[t] /\ rdOps'[t] = rdOps[t]
    BY <1>3 DEF Handlers, HandlAccept, HandleConnect, HandleConnectError, HandleReadSome,
                HandleClose, Established
  <2>2. \A t \in Sessions \ {s} : sock'[t] = sock[t]
    BY <1>3 DEF Handlers, HandlAccept, HandleConnect, HandleConnectError, HandleReadSome,
                HandleClose
  <2>3. \A t \in Sessions \ {s} : posted'[t] = posted[t]
    BY <1>3 DEF Handlers, HandlAccept, HandleConnect, HandleConnectError, HandleReadSome,
                HandleClose, Established
  <2> QED BY <2>1, <2>2, <2>3
<1>5. CASE m_call' = m_call /\ m_connect' = m_connect
  <2>1. \A n \in Names : /\ \A t \in m_onlines'[n] : t <= Len(owner)
                         /\ \A i \in 1..Len(m_call'[n]) :
                              m_call'[n][i] # Restart => m_call'[n][i].s <= Len(owner)
    BY <1>1, <1>5 DEF SessionInv, KnownNets
  <2>2. SessionInv' BY <1>1, <1>2, <1>4, <2>1, SessionEvent
  <2>3. EventsTellState' BY <1>1, <1>5, EventsKeep
  <2> QED BY <2>2, <2>3
<1>6. ASSUME NEW e \in {Event("connect", s), Event("close", s), Restart}, push(owner[s], e),
             m_connect'[s] = IF e = Restart THEN m_connect[s] ELSE (e.ev = "connect")
      PROVE  SessionInv' /\ EventsTellState'
  <2>1. \A n \in Names : \A i \in 1..Len(m_call'[n]) :
          m_call'[n][i] # Restart => m_call'[n][i].s <= Len(owner)
    <3> SUFFICES ASSUME NEW n \in Names, NEW i \in 1..Len(m_call'[n]), m_call'[n][i] # Restart
                 PROVE  m_call'[n][i].s <= Len(owner)
      OBVIOUS
    <3> DEFINE q == m_call[n]
    <3>1. q \in Seq(Events) /\ DOMAIN m_call = Names BY SessionFacts, TypeParts DEF NetTypes
    <3>2. e \in Events /\ (e # Restart => e.s = s) BY EventTypes
    <3>3. m_call' = [m_call EXCEPT ![owner[s]] = Append(@, e)] BY <1>6 DEF push
    <3>4. \A j \in 1..Len(q) : q[j] # Restart => q[j].s <= Len(owner)
      BY DEF SessionInv, KnownNets
    <3> HIDE DEF Events
    <3>5. CASE n = owner[s]
      <4>1. m_call'[n] = Append(q, e) BY <3>1, <3>3, <3>5
      <4>2. /\ Len(Append(q, e)) = Len(q) + 1 /\ Len(q) \in Nat
            /\ \A j \in 1..Len(q) : Append(q, e)[j] = q[j]
            /\ Append(q, e)[Len(q) + 1] = e
        BY <3>1, <3>2, AppendProperties, LenProperties
      <4>3. i \in 1..Len(q) \/ i = Len(q) + 1 BY <4>1, <4>2
      <4> HIDE DEF q
      <4> QED BY <1>2, <3>2, <3>4, <4>1, <4>2, <4>3
    <3>6. CASE n # owner[s]
      <4>1. m_call'[n] = q BY <3>1, <3>3, <3>6
      <4> QED BY <3>4, <4>1
    <3> QED BY <3>5, <3>6
  <2>2. \A n \in Names : \A t \in m_onlines'[n] : t <= Len(owner)
    BY <1>1 DEF SessionInv, KnownNets
  <2>3. SessionInv' BY <1>1, <1>2, <1>4, <2>1, <2>2, SessionEvent
  <2>4. \A t \in 1..Len(owner) :
          m_connect'[t] <=> IF e # Restart /\ t = s THEN e.ev = "connect" ELSE m_connect[t]
    BY <1>3, <1>4, <1>6
  <2>5. EventsTellState' BY <1>1, <1>2, <1>6, <2>4, EventsPush
  <2> QED BY <2>3, <2>5
<1>7. CASE HandlAccept(s) \/ HandleConnect(s)
  <2>1. CASE Established(s)
    <3>1. push(owner[s], Event("connect", s)) /\ m_connect'[s] = TRUE
      BY <1>3, <2>1 DEF Established
    <3>2. Event("connect", s) # Restart /\ Event("connect", s).ev = "connect" BY EventTypes
    <3> QED BY <1>6, <3>1, <3>2
  <2> QED BY <1>5, <1>7, <2>1 DEF HandlAccept, HandleConnect
<1>8. CASE HandleConnectError(s)
  <2>1. m_connect' = m_connect /\ (m_call' = m_call \/ push(owner[s], Restart))
    BY <1>8 DEF HandleConnectError
  <2> QED BY <1>5, <1>6, <2>1
<1>9. CASE HandleReadSome(s) BY <1>5, <1>9 DEF HandleReadSome
<1>10. CASE HandleClose(s)
  <2>1. push(owner[s], Event("close", s)) /\ m_connect'[s] = FALSE
    BY <1>3, <1>10 DEF HandleClose
  <2>2. Event("close", s) # Restart /\ Event("close", s).ev = "close" BY EventTypes
  <2> QED BY <1>6, <2>1, <2>2
<1> QED BY <1>7, <1>8, <1>9, <1>10 DEF Handlers

(* Running an event keeps SessionInv. *)
LEMMA SessionPoll ==
  ASSUME TypeOK, SessionInv, EventsTellState, NEW n \in Names, Poll(n)
  PROVE  SessionInv' /\ EventsTellState'
<1> DEFINE q == m_call[n]
           e == Head(q)
<1>1. /\ q # << >> /\ m_call' = [m_call EXCEPT ![n] = Tail(@)]
      /\ UNCHANGED <<m_current, accepts, owner, m_connect, rdOps>>
  BY DEF Poll
<1>2. /\ NetTypes /\ ConnTypes /\ q \in Seq(Events) /\ Len(owner) \in Nat
      /\ DOMAIN m_call = Names /\ DOMAIN m_onlines = Names
      /\ m_current[n] <= Len(owner)
  BY SessionFacts, TypeParts DEF NetTypes, SessionInv, KnownNets
<1> HIDE DEF Events
<1>3. /\ IF e = Restart THEN e.ev = "start" ELSE e.ev \in {"connect", "close"}
      /\ e = q[1] /\ 1 \in 1..Len(q)
  <2>1. e \in Events BY <1>1, <1>2, QueueTypes
  <2>2. e = q[1] /\ Len(q) \in Nat \ {0} BY <1>1, <1>2, HeadTailProperties, EmptySeq
  <2> QED BY <2>1, <2>2, EventTypes
<1>4. \A k \in Names :
        m_onlines'[k] = IF k = n THEN After(m_onlines[k], e) ELSE m_onlines[k]
  BY <1>2, <1>3 DEF Poll, After
<1>5. EventsTellState' BY <1>1, <1>4, EventsPoll
<1>6. \A k \in Names : /\ \A t \in m_onlines[k] : t <= Len(owner)
                       /\ \A i \in 1..Len(m_call[k]) :
                            m_call[k][i] # Restart => m_call[k][i].s <= Len(owner)
  BY DEF SessionInv, KnownNets
<1>7. \A k \in Names : \A t \in m_onlines'[k] : t <= Len(owner)
  <2>1. e # Restart => e.s <= Len(owner) BY <1>3, <1>6
  <2>2. \A t \in After(m_onlines[n], e) : t \in m_onlines[n] \/ (e # Restart /\ t = e.s)
    BY <1>3 DEF After
  <2> HIDE DEF e
  <2> QED BY <1>4, <1>6, <2>1, <2>2
<1>8. \A k \in Names : \A i \in 1..Len(m_call'[k]) :
        m_call'[k][i] # Restart => m_call'[k][i].s <= Len(owner)
  <2> SUFFICES ASSUME NEW k \in Names, NEW i \in 1..Len(m_call'[k]), m_call'[k][i] # Restart
               PROVE  m_call'[k][i].s <= Len(owner)
    OBVIOUS
  <2>1. CASE k = n
    <3>1. m_call'[k] = Tail(q) BY <1>1, <1>2, <2>1
    <3>2. /\ Len(Tail(q)) = Len(q) - 1 /\ Len(q) \in Nat \ {0}
          /\ \A j \in 1..Len(Tail(q)) : Tail(q)[j] = q[j + 1]
      BY <1>1, <1>2, HeadTailProperties, EmptySeq
    <3>3. i \in 1..Len(Tail(q)) /\ i + 1 \in 1..Len(q) BY <3>1, <3>2
    <3>4. m_call'[k][i] = q[i + 1] BY <3>1, <3>2, <3>3
    <3> QED BY <1>6, <3>3, <3>4
  <2>2. CASE k # n
    <3>1. m_call'[k] = m_call[k] BY <1>1, <1>2, <2>2
    <3> QED BY <1>6, <3>1
  <2> QED BY <2>1, <2>2
<1>9. \A t \in Sessions \ {m_current[n]} : sock'[t] = sock[t] /\ posted'[t] = posted[t]
  <2>1. CASE UNCHANGED <<sock, posted>> BY <2>1
  <2>2. CASE connect(n)
    <3> HIDE DEF Handler
    <3> QED BY <1>2, <2>2 DEF connect, ConnTypes
  <2> QED BY <2>1, <2>2 DEF Poll
<1>10. SessionInv' BY <1>1, <1>2, <1>7, <1>8, <1>9, SessionEvent
<1> QED BY <1>5, <1>10

(* No session was used at the start. *)
LEMMA SessionInit == Init => SessionInv /\ EventsTellState
<1> SUFFICES ASSUME Init PROVE SessionInv /\ EventsTellState OBVIOUS
<1>1. Len(owner) = 0 BY EmptySeq DEF Init
<1>2. KnownNets BY <1>1, EmptySeq DEF Init, KnownNets
<1>3. KnownAccepts BY DEF Init, KnownAccepts
<1>4. OthersUntouched BY DEF Init, OthersUntouched
<1>5. EventsTellState BY <1>1 DEF EventsTellState
<1> QED BY <1>2, <1>3, <1>4, <1>5 DEF SessionInv

(* The steps of the main thread keep SessionInv. *)
LEMMA SessionMain ==
  ASSUME TypeOK, StopsServer, SessionInv, EventsTellState, Main
  PROVE  SessionInv' /\ EventsTellState'
<1> USE DEF netVars
<1>1. NetTypes /\ ConnTypes BY TypeParts
<1>2. \A n \in Names : /\ m_current[n] <= Len(owner)
                       /\ \A s \in m_onlines[n] : s <= Len(owner)
  BY DEF SessionInv, KnownNets
<1>3. CASE UNCHANGED <<m_call, m_onlines, m_current, accepts, connVars>>
  BY <1>3, SessionQuiet
<1>4. ASSUME NEW ss, close(ss), \A s \in ss : s \in Sessions => s <= Len(owner),
             UNCHANGED <<m_call, m_onlines, m_current, accepts, owner, m_connect, sock, rdOps>>
      PROVE  SessionInv' /\ EventsTellState'
  <2>1. \A s \in Sessions \ ss : posted'[s] = posted[s] BY <1>4 DEF close
  <2> QED BY <1>4, <2>1, SessionTouch
<1>5. CASE Start \/ SetStop \/ Return \/ BindFails
  BY <1>3, <1>5 DEF Start, SetStop, Return, BindFails
<1>6. CASE CloseAcceptor \/ OpenAcceptor
  <2>1. /\ accepts' = [accepts EXCEPT ![pc.at] = aborted(@)]
        /\ UNCHANGED <<m_call, m_onlines, m_current, connVars>>
    BY <1>6 DEF CloseAcceptor, OpenAcceptor
  <2>2. \A n \in Servers : \A a \in accepts'[n] : \E b \in accepts[n] : a.s = b.s
    <3> SUFFICES ASSUME NEW n \in Servers, NEW a \in accepts'[n]
                 PROVE  \E b \in accepts[n] : a.s = b.s
      OBVIOUS
    <3>1. accepts'[n] = accepts[n] \/ accepts'[n] = aborted(accepts[n])
      BY <1>1, <2>1 DEF NetTypes
    <3>2. \A b \in accepts[n] : b \in Accept BY <1>1 DEF NetTypes
    <3> QED BY <3>1, <3>2 DEF aborted, Accept
  <2> QED BY <2>1, <2>2, SessionQuiet
<1>7. CASE CloseCurrent
  <2>1. pc.at \in Names BY <1>7 DEF CloseCurrent, StopsServer, Names
  <2>2. m_current[pc.at] <= Len(owner) BY <1>2, <2>1
  <2> QED BY <1>4, <1>7, <2>2 DEF CloseCurrent
<1>8. ASSUME NEW n \in Names, Add(n) PROVE SessionInv' /\ EventsTellState'
  <2>1. UNCHANGED <<m_call, m_onlines, accepts, m_connect, sock, rdOps, posted>>
    BY <1>8 DEF Add
  <2>2. CASE createConnection(n) BY <2>1, <2>2, SessionCreate
  <2>3. CASE UNCHANGED <<owner, m_current>> BY <1>3, <2>1, <2>3 DEF connVars
  <2> QED BY <1>8, <2>2, <2>3 DEF Add
<1>9. ASSUME NEW n \in Names, Remove(n) \/ StartServer(n) PROVE SessionInv' /\ EventsTellState'
  BY <1>3, <1>9 DEF Remove, StartServer
<1>10. ASSUME NEW n \in Names, StartClient(n) PROVE SessionInv' /\ EventsTellState'
  <2>1. UNCHANGED <<m_call, m_onlines, m_current, accepts, owner, m_connect, rdOps>>
    BY <1>10 DEF StartClient
  <2>2. \A s \in Sessions \ {m_current[n]} : sock'[s] = sock[s] /\ posted'[s] = posted[s]
    <3> HIDE DEF Handler
    <3> QED BY <1>1, <1>10 DEF StartClient, connect, ConnTypes
  <2>3. m_current[n] <= Len(owner) BY <1>2
  <2> QED BY <2>1, <2>2, <2>3, SessionTouchOne
<1>11. ASSUME NEW n \in Names, StopNet(n) PROVE SessionInv' /\ EventsTellState'
  BY <1>2, <1>4, <1>11 DEF StopNet
<1>12. CASE FirstAccept
  <2> DEFINE n == pc.at
  <2>1. n \in Servers /\ n \in Names BY <1>12 DEF FirstAccept, StopsServer, Names
  <2>2. /\ acceptInto(n, accepts[n])
        /\ UNCHANGED <<m_call, m_onlines, m_connect, sock, rdOps, posted>>
    BY <1>12 DEF FirstAccept
  <2> HIDE DEF n
  <2> QED BY <2>1, <2>2, SessionAccept
<1>13. ASSUME NEW s \in Sessions, Kick(s) PROVE SessionInv' /\ EventsTellState'
  <2>1. s <= Len(owner) BY <1>2, <1>13 DEF Kick, poolOnlines
  <2> QED BY <1>4, <1>13, <2>1 DEF Kick
<1>14. \A n \in Servers : n \in Names BY DEF Names
<1> QED
  BY <1>5, <1>6, <1>7, <1>8, <1>9, <1>10, <1>11, <1>12, <1>13, <1>14, SessionPoll DEF Main

(* The steps of the io threads keep SessionInv. *)
LEMMA SessionIo ==
  ASSUME TypeOK, SessionInv, EventsTellState, Io \/ Kernel
  PROVE  SessionInv' /\ EventsTellState'
<1>1. NetTypes /\ ConnTypes BY TypeParts
<1>2. /\ \A n \in Names : m_current[n] <= Len(owner)
      /\ \A n \in Servers : n \in Names /\ \A a \in accepts[n] : a.s <= Len(owner)
  BY DEF SessionInv, KnownNets, KnownAccepts, Names
<1>3. ASSUME NEW n \in Servers, NEW a \in accepts[n], NEW st, goesOn(n, a, st)
      PROVE  \A k \in Servers : \A b \in accepts'[k] : \E c \in accepts[k] : b.s = c.s
  <2>1. a \in Accept BY <1>1 DEF NetTypes
  <2>2. [a EXCEPT !.st = st].s = a.s BY <2>1 DEF Accept
  <2>3. accepts' = [accepts EXCEPT ![n] = (@ \ {a}) \cup {[a EXCEPT !.st = st]}]
    BY <1>3 DEF goesOn
  <2> QED BY <1>1, <2>2, <2>3 DEF NetTypes
<1>4. ASSUME NEW n \in Servers, NEW a \in accepts[n], returns(n, a)
      PROVE  \A k \in Servers : \A b \in accepts'[k] : \E c \in accepts[k] : b.s = c.s
  BY <1>1, <1>4 DEF returns, NetTypes
<1>5. ASSUME NEW n \in Servers, NEW a \in accepts[n], AcceptSocket(n, a) \/ BeginAccept(n, a)
      PROVE  SessionInv' /\ EventsTellState'
  <2>1. UNCHANGED <<m_call, m_onlines, m_current, connVars>>
    BY <1>5 DEF AcceptSocket, BeginAccept, acceptUnchanged, connVars
  <2>2. returns(n, a) \/ \E st : goesOn(n, a, st) BY <1>5 DEF AcceptSocket, BeginAccept
  <2> QED BY <1>3, <1>4, <2>1, <2>2, SessionQuiet
<1>6. ASSUME NEW n \in Servers, NEW a \in accepts[n], PostAccept(n, a)
      PROVE  SessionInv' /\ EventsTellState'
  <2>1. UNCHANGED <<m_call, m_onlines, m_current, owner, m_connect, rdOps, sock>>
    BY <1>6 DEF PostAccept, acceptUnchanged
  <2>2. \A s \in Sessions \ {m_current[n]} : posted'[s] = posted[s]
    <3> HIDE DEF Handler
    <3> QED BY <1>1, <1>6 DEF PostAccept, ConnTypes
  <2>3. m_current[n] <= Len(owner) BY <1>2
  <2>4. \A k \in Servers : \A b \in accepts'[k] : \E c \in accepts[k] : b.s = c.s
    BY <1>3, <1>6 DEF PostAccept
  <2> QED BY <2>1, <2>2, <2>3, <2>4, SessionTouchOne
<1>7. ASSUME NEW n \in Servers, NEW a \in accepts[n], AsyncAccept(n, a)
      PROVE  SessionInv' /\ EventsTellState'
  <2> DEFINE ops == accepts[n] \ {a}
  <2>1. /\ ops \in SUBSET accepts[n] /\ acceptInto(n, ops)
        /\ UNCHANGED <<m_call, m_onlines, m_connect, sock, rdOps, posted>>
    BY <1>7 DEF AsyncAccept, acceptUnchanged
  <2> HIDE DEF ops
  <2> QED BY <2>1, SessionAccept
<1>9. ASSUME NEW n \in Servers, AcceptFails(n) PROVE SessionInv' /\ EventsTellState'
  <2>1. PICK a \in accepts[n] : goesOn(n, a, "err") BY <1>9 DEF AcceptFails
  <2>2. \A k \in Servers : \A b \in accepts'[k] : \E c \in accepts[k] : b.s = c.s
    BY <1>3, <2>1
  <2>3. UNCHANGED <<m_call, m_onlines, m_current, connVars>> BY <1>9 DEF AcceptFails
  <2> QED BY <2>2, <2>3, SessionQuiet
<1>10. ASSUME NEW n \in Servers, Accepted(n) PROVE SessionInv' /\ EventsTellState'
  <2>1. PICK a \in accepts[n] : goesOn(n, a, "ok") /\ sock' = [sock EXCEPT ![a.s] = "open"]
    BY <1>10 DEF Accepted
  <2>2. \A k \in Servers : \A b \in accepts'[k] : \E c \in accepts[k] : b.s = c.s
    BY <1>3, <2>1
  <2>3. UNCHANGED <<m_call, m_onlines, m_current, owner, m_connect, rdOps, posted>>
    BY <1>10 DEF Accepted
  <2>4. a.s <= Len(owner) BY <1>2
  <2>5. \A t \in Sessions \ {a.s} : sock'[t] = sock[t] BY <1>1, <2>1 DEF ConnTypes
  <2> DEFINE s == a.s
  <2>6. s <= Len(owner) /\ \A t \in Sessions \ {s} : sock'[t] = sock[t] BY <2>4, <2>5
  <2> HIDE DEF s
  <2> QED BY <2>2, <2>3, <2>6, SessionTouchOne
<1>8. ASSUME NEW s \in Sessions, ConnectDone(s) \/ ConnectFails(s) \/ PeerLost(s)
      PROVE  SessionInv' /\ EventsTellState'
  <2>1. UNCHANGED <<m_call, m_onlines, m_current, accepts, owner, m_connect>>
    BY <1>8 DEF ConnectDone, ConnectFails, PeerLost, netVars
  <2>2. Len(owner) \in Nat /\ Sessions = 1..MaxSessions /\ MaxSessions \in Nat BY SessionFacts
  <2>3. sock[s] # "new" \/ rdOps[s] # 0 BY <1>8 DEF ConnectDone, ConnectFails, PeerLost
  <2>4. ~(s > Len(owner)) BY <2>3 DEF SessionInv, OthersUntouched
  <2>5. s <= Len(owner) BY <2>2, <2>4
  <2>6. \A t \in Sessions \ {s} :
          rdOps'[t] = rdOps[t] /\ sock'[t] = sock[t] /\ posted'[t] = posted[t]
    <3> HIDE DEF Handler
    <3> QED BY <1>1, <1>8 DEF ConnectDone, ConnectFails, PeerLost, ConnTypes
  <2> QED BY <2>1, <2>5, <2>6, SessionTouchOne
<1> QED
  BY <1>5, <1>6, <1>7, <1>8, <1>9, <1>10, SessionHandlers DEF Io, Accepting, Kernel

(* Every action keeps SessionInv. *)
LEMMA SessionStep ==
  TypeOK /\ StopsServer /\ SessionInv /\ EventsTellState /\ [Next]_vars
    => SessionInv' /\ EventsTellState'
<1> SUFFICES ASSUME TypeOK, StopsServer, SessionInv, EventsTellState, [Next]_vars
             PROVE  SessionInv' /\ EventsTellState'
  OBVIOUS
<1>1. CASE UNCHANGED vars
  <2>1. UNCHANGED <<m_call, m_onlines, m_current, accepts, connVars>>
    BY <1>1 DEF vars, netVars
  <2> QED BY <2>1, SessionQuiet
<1> QED BY <1>1, SessionMain, SessionIo DEF Next

(* SessionInv holds in every state. *)
LEMMA SessionInvariant == Spec => [](SessionInv /\ EventsTellState)
BY TypeInvariant, SessionInit, SessionStep, PTL DEF Spec

(***************************************************************************)
(* The events tell the truth: whatever the order in which handlers on the  *)
(* io threads push connects and closes, and however many closes a session  *)
(* gets, once poll() has run what waits the sessions online are exactly    *)
(* the connected ones.  setStop() and kick() close what is online, so they *)
(* depend on it.                                                           *)
(***************************************************************************)
THEOREM ServiceEventsTellState == Spec => []EventsTellState
BY SessionInvariant, PTL
=============================================================================
