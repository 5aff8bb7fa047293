----------------------------- MODULE NetService -----------------------------
(***************************************************************************)
(* The life of the networks of a NetService: add, start, setStop, kick,    *)
(* remove and poll on the main thread (src/service.cpp), the accept loop   *)
(* of TcpServer and the connection attempts of TcpClient on the io threads *)
(* (src/tcp_object.cpp), and the sessions that come and go.                *)
(*                                                                         *)
(* What a connection sends and receives is in Connection: here a close     *)
(* that waits for unsent data is a handleClose that has not yet been run,  *)
(* and a read completes only with an error.  Handlers of one connection    *)
(* run in order; those of different connections, and of the acceptor, run  *)
(* on any io thread, so in any order.                                      *)
(*                                                                         *)
(* stop(sec) changes nothing itself: it polls until no session is online   *)
(* or the time is over, and is a sequence of Poll steps here.              *)
(***************************************************************************)
EXTENDS Integers, Sequences, FiniteSets

CONSTANTS Servers, Clients,  \* names of the networks, by Config::m_serviceType
          AutoReconnect,     \* Config::m_autoReconnect
          MaxSessions,       \* bound: connections created
          MaxStarts,         \* bound: calls of start()
          MaxStops,          \* bound: calls of setStop()
          MaxKicks,          \* bound: calls of kick()
          MaxRemoves,        \* bound: calls of remove()
          MaxFails           \* bound: failed accepts and connects

ASSUME ServiceAssumption ==
  /\ Servers \cap Clients = {}
  /\ AutoReconnect \in BOOLEAN
  /\ MaxSessions \in Nat /\ MaxStarts \in Nat /\ MaxStops \in Nat
  /\ MaxKicks \in Nat /\ MaxRemoves \in Nat /\ MaxFails \in Nat

Names    == Servers \cup Clients
Sessions == 1..MaxSessions

VARIABLES
  m_state,      \* NetService::m_state
  m_nets,       \* names in NetService::m_nets
  m_stop,       \* of each network
  m_call,       \* of each network: the events that wait for poll()
  m_onlines,    \* of each network: its sessions that are online
  m_current,    \* TcpServer::m_current or TcpClient::m_session, 0 is null
  acceptor,     \* of each server: "none", "open" or "closed"
  accepts,      \* of each server: its async_accepts, outstanding or completed,
                \* and how far the acceptSocket of a completed one has got
  owner,        \* owner[s] is the network that created connection s
  m_connect,    \* of each connection
  sock,         \* of each connection: its socket
  rdOps,        \* of each connection: how many async_read_some are outstanding
  posted,       \* of each connection: handlers queued in its io_service
  pc,           \* where the main thread is
  stopped,      \* sessions that TcpObj::stop asked to close
  starts, stops, kicks, removes, fails,
  crashed       \* an uncaught exception or a null dereference

netVars  == <<m_stop, m_call, m_onlines, m_current, acceptor, accepts>>
connVars == <<owner, m_connect, sock, rdOps, posted>>
mainVars == <<m_state, m_nets, pc, removes, stopped, starts, stops, kicks>>
vars     == <<netVars, connVars, mainVars, fails, crashed>>

(* The main thread is inside no call of NetService, or between the networks  *)
(* of start() or setStop(), or inside TcpObj::start or stop of the network   *)
(* at.                                                                       *)
Idle == [op |-> "idle", todo |-> {}, at |-> "none"]

Init ==
  /\ m_state = "INIT"
  /\ m_nets = {}
  /\ m_stop = [n \in Names |-> TRUE]
  /\ m_call = [n \in Names |-> << >>]
  /\ m_onlines = [n \in Names |-> {}]
  /\ m_current = [n \in Names |-> 0]
  /\ acceptor = [n \in Servers |-> "none"]
  /\ accepts = [n \in Servers |-> {}]
  /\ owner = << >>
  /\ m_connect = [s \in Sessions |-> FALSE]
  /\ sock = [s \in Sessions |-> "new"]
  /\ rdOps = [s \in Sessions |-> 0]
  /\ posted = [s \in Sessions |-> << >>]
  /\ pc = Idle
  /\ stopped = {}
  /\ starts = 0 /\ stops = 0 /\ kicks = 0 /\ removes = 0 /\ fails = 0
  /\ crashed = FALSE

(* IoObjectPool::m_onlines, which addSession and delSession keep. *)
poolOnlines == UNION {m_onlines[n] : n \in Names}

(* An event of connection s, and the one that starts a client again. *)
Event(ev, s) == [ev |-> ev, s |-> s]
Restart      == [ev |-> "start"]

push(n, e) == m_call' = [m_call EXCEPT ![n] = Append(@, e)]

(* Mutant: m_curSessionId++ *)
NextSessionLate == Len(owner)

(* nextSession *)
NextSession == Len(owner) + 1

(* createConnection: a connection with a new session id, for network n. *)
createConnection(n) ==
  /\ Len(owner) < MaxSessions
  /\ owner' = Append(owner, n)
  /\ m_current' = [m_current EXCEPT ![n] = NextSession]

(* Connection::close for every connection of a set. *)
close(ss) ==
  posted' = [s \in Sessions |->
               IF s \in ss THEN Append(posted[s], "handleClose") ELSE posted[s]]
-----------------------------------------------------------------------------
(* The main thread *)

(* add: a client's connection is made by its constructor. *)
Add(n) ==
  /\ ~crashed /\ pc = Idle
  /\ n \notin m_nets
  /\ m_nets' = m_nets \cup {n}
  /\ \/ n \in Clients /\ createConnection(n)
     \/ n \in Servers /\ UNCHANGED <<owner, m_current>>
  /\ UNCHANGED <<m_stop, m_call, m_onlines, acceptor, accepts, m_connect,
                 sock, rdOps, posted, m_state, pc, removes, stopped, starts, stops,
                 kicks, fails, crashed>>

(* remove: a network that exists is left alone, the iterator of one that   *)
(* does not exist is dereferenced.                                         *)
Remove(n) ==
  /\ ~crashed /\ pc = Idle
  /\ removes < MaxRemoves
  /\ \/ /\ n \in m_nets
        /\ removes' = removes + 1
        /\ UNCHANGED crashed
     \/ /\ n \notin m_nets
        /\ crashed' = TRUE
        /\ UNCHANGED removes
  /\ UNCHANGED <<netVars, connVars, m_state, m_nets, pc, stopped, starts, stops, kicks,
                 fails>>

Start ==
  /\ ~crashed /\ pc = Idle
  /\ starts < MaxStarts
  /\ starts' = starts + 1
  /\ m_state' = "RUN"
  /\ pc' = [Idle EXCEPT !.op = "start", !.todo = m_nets]
  /\ UNCHANGED <<netVars, connVars, m_nets, removes, stopped, stops, kicks, fails, crashed>>

(* An acceptor that is closed or replaced aborts what is outstanding on it. *)
aborted(ops) == {[a EXCEPT !.st = IF @ = "wait" THEN "err" ELSE @] : a \in ops}

(* beginAccept, once m_stop was seen to be false: m_current is replaced and *)
(* an accept started on it, which fails at once if the acceptor is closed.  *)
acceptInto(n, ops) ==
  /\ createConnection(n)
  /\ accepts' = [accepts EXCEPT ![n] = ops \cup
       {[s |-> NextSession, st |-> IF acceptor[n] = "open" THEN "wait" ELSE "err"]}]

(***************************************************************************)
(* TcpObj::start of a server and doStart, in the three steps that the      *)
(* accept handlers of an earlier start() can see: m_stop, the new acceptor *)
(* in place of the old, beginAccept.                                       *)
(***************************************************************************)
StartServer(n) ==
  /\ pc.op = "start" /\ n \in pc.todo \cap Servers
  /\ pc' = [op |-> "doStart", todo |-> pc.todo \ {n}, at |-> n]
  /\ m_stop' = [m_stop EXCEPT ![n] = FALSE]
  /\ UNCHANGED <<m_call, m_onlines, m_current, acceptor, accepts, connVars, m_state, m_nets,
                 removes, stopped, starts, stops, kicks, fails, crashed>>

OpenAcceptor ==
  /\ pc.op = "doStart"
  /\ pc' = [pc EXCEPT !.op = "beginAccept"]
  /\ acceptor' = [acceptor EXCEPT ![pc.at] = "open"]
  /\ accepts' = [accepts EXCEPT ![pc.at] = aborted(@)]
  /\ UNCHANGED <<m_stop, m_call, m_onlines, m_current, connVars, m_state, m_nets, removes,
                 stopped, starts, stops, kicks, fails, crashed>>

(* bind or listen throws a system_error, which catch(const NetErrorType&)  *)
(* does not catch.                                                         *)
BindFails ==
  /\ pc.op = "doStart"
  /\ fails < MaxFails
  /\ fails' = fails + 1
  /\ crashed' = TRUE
  /\ pc' = Idle
  /\ UNCHANGED <<netVars, connVars, m_state, m_nets, removes, stopped, starts, stops, kicks>>

FirstAccept ==
  /\ pc.op = "beginAccept"
  /\ pc' = [pc EXCEPT !.op = "start", !.at = "none"]
  /\ acceptInto(pc.at, accepts[pc.at])
  /\ UNCHANGED <<m_stop, m_call, m_onlines, acceptor, m_connect, sock, rdOps, posted, m_state,
                 m_nets, removes, stopped, starts, stops, kicks, fails, crashed>>

(* TcpObj::start of a client: a connect on a socket that is connecting or *)
(* connected already fails.                                               *)
connect(n) ==
  LET s     == m_current[n]
      inUse == sock[s] \in {"connecting", "open"}
  IN  /\ m_stop' = [m_stop EXCEPT ![n] = FALSE]
      /\ sock' = [sock EXCEPT ![s] = IF inUse THEN @ ELSE "connecting"]
      /\ posted' = [posted EXCEPT ![s] = IF inUse THEN Append(@, "handleConnectError") ELSE @]

StartClient(n) ==
  /\ pc.op = "start" /\ n \in pc.todo \cap Clients
  /\ pc' = [pc EXCEPT !.todo = @ \ {n}]
  /\ connect(n)
  /\ UNCHANGED <<m_call, m_onlines, m_current, acceptor, accepts, owner, m_connect,
                 rdOps, m_state, m_nets, removes, stopped, starts, stops, kicks,
                 fails, crashed>>

SetStop ==
  /\ ~crashed /\ pc = Idle
  /\ stops < MaxStops
  /\ stops' = stops + 1
  /\ m_state' = "STOP"
  /\ pc' = [Idle EXCEPT !.op = "setStop", !.todo = m_nets]
  /\ UNCHANGED <<netVars, connVars, m_nets, removes, stopped, starts, kicks, fails, crashed>>

(***************************************************************************)
(* TcpObj::stop and doStop, in the three steps that the accept handler on  *)
(* its io thread can see: m_stop and the closes of the onlines, the close  *)
(* of the acceptor, the close of m_current.                                *)
(***************************************************************************)
(* Mutant: the sessions are not closed. *)
StopNetSilent(n) ==
  /\ pc.op = "setStop" /\ n \in pc.todo
  /\ pc' = [op |-> IF n \in Servers THEN "doStop" ELSE "setStop",
            todo |-> pc.todo \ {n}, at |-> IF n \in Servers THEN n ELSE "none"]
  /\ m_stop' = [m_stop EXCEPT ![n] = TRUE]
  /\ stopped' = stopped \cup m_onlines[n]
  /\ UNCHANGED <<m_call, m_onlines, m_current, acceptor, accepts, connVars,
                 m_state, m_nets, removes, starts, stops, kicks, fails, crashed>>

StopNet(n) ==
  /\ pc.op = "setStop" /\ n \in pc.todo
  /\ pc' = [op |-> IF n \in Servers THEN "doStop" ELSE "setStop",
            todo |-> pc.todo \ {n}, at |-> IF n \in Servers THEN n ELSE "none"]
  /\ m_stop' = [m_stop EXCEPT ![n] = TRUE]
  /\ close(m_onlines[n])
  /\ stopped' = stopped \cup m_onlines[n]
  /\ UNCHANGED <<m_call, m_onlines, m_current, acceptor, accepts, owner, m_connect,
                 sock, rdOps, m_state, m_nets, removes, starts, stops, kicks, fails, crashed>>

CloseAcceptor ==
  /\ pc.op = "doStop"
  /\ pc' = [pc EXCEPT !.op = "closeCurrent"]
  /\ acceptor' = [acceptor EXCEPT ![pc.at] = IF @ = "none" THEN "none" ELSE "closed"]
  /\ accepts' = [accepts EXCEPT ![pc.at] = aborted(@)]
  /\ UNCHANGED <<m_stop, m_call, m_onlines, m_current, connVars, m_state, m_nets,
                 removes, stopped, starts, stops, kicks, fails, crashed>>

CloseCurrent ==
  /\ pc.op = "closeCurrent"
  /\ pc' = [pc EXCEPT !.op = "setStop", !.at = "none"]
  /\ close({m_current[pc.at]})
  /\ crashed' = (m_current[pc.at] = 0)
  /\ UNCHANGED <<netVars, owner, m_connect, sock, rdOps, m_state, m_nets, removes, stopped,
                 starts, stops, kicks, fails>>

(* The loop of start() or setStop() has come to its end. *)
Return ==
  /\ pc.op \in {"start", "setStop"} /\ pc.todo = {} /\ ~crashed
  /\ pc' = Idle
  /\ UNCHANGED <<netVars, connVars, m_state, m_nets, removes, stopped, starts, stops, kicks,
                 fails, crashed>>

Kick(s) ==
  /\ ~crashed /\ pc = Idle
  /\ s \in poolOnlines
  /\ kicks < MaxKicks
  /\ kicks' = kicks + 1
  /\ close({s})
  /\ UNCHANGED <<netVars, owner, m_connect, sock, rdOps, m_state, m_nets, pc, removes,
                 stopped, starts, stops, fails, crashed>>

(* poll runs the next event of network n: eventConnect, eventCloseFun or the *)
(* restart that a failed connect asked for.                                  *)
Poll(n) ==
  /\ ~crashed /\ pc = Idle
  /\ n \in m_nets /\ m_call[n] # << >>
  /\ m_call' = [m_call EXCEPT ![n] = Tail(@)]
  /\ LET e == Head(m_call[n]) IN
       \/ /\ e.ev = "connect"
          /\ m_onlines' = [m_onlines EXCEPT ![n] = @ \cup {e.s}]
          /\ UNCHANGED <<m_stop, sock, posted>>
       \/ /\ e.ev = "close"
          /\ m_onlines' = [m_onlines EXCEPT ![n] = @ \ {e.s}]
          /\ UNCHANGED <<m_stop, sock, posted>>
       \/ /\ e.ev = "start"
          /\ connect(n)
          /\ UNCHANGED m_onlines
  /\ UNCHANGED <<m_current, acceptor, accepts, owner, m_connect, rdOps,
                 mainVars, fails, crashed>>
-----------------------------------------------------------------------------
(* The io threads *)

(***************************************************************************)
(* acceptSocket, for an accept a that completed.  After a second start()   *)
(* there may be several of them, on the io threads of several acceptors.   *)
(***************************************************************************)
acceptUnchanged ==
  UNCHANGED <<m_stop, m_call, m_onlines, acceptor, m_connect, sock, rdOps, mainVars, fails,
              crashed>>

(* a goes on, or its acceptSocket returns. *)
goesOn(n, a, st) == accepts' = [accepts EXCEPT ![n] = (@ \ {a}) \cup {[a EXCEPT !.st = st]}]
returns(n, a)    == accepts' = [accepts EXCEPT ![n] = @ \ {a}]

(* It looks at m_stop and m_current ... *)
AcceptSocket(n, a) ==
  /\ ~crashed /\ a.st \in {"ok", "err"}
  /\ \/ /\ m_stop[n] \/ m_current[n] = 0
        /\ returns(n, a)
     \/ /\ ~m_stop[n] /\ m_current[n] # 0
        /\ goesOn(n, a, IF a.st = "ok" THEN "postAccept" ELSE "onError")
  /\ UNCHANGED <<m_current, owner, posted>> /\ acceptUnchanged

(* Mutant: after an accept that failed the loop is not taken up again. *)
PostAcceptOnce(n, a) ==
  /\ ~crashed /\ a.st \in {"postAccept", "onError"}
  /\ IF a.st = "postAccept" THEN goesOn(n, a, "beginAccept") ELSE returns(n, a)
  /\ posted' = [posted EXCEPT ![m_current[n]] =
       Append(@, IF a.st = "postAccept" THEN "handlAccept" ELSE "handleClose")]
  /\ UNCHANGED <<m_current, owner>> /\ acceptUnchanged

(* ... and calls postAccept or onError of m_current, whichever accept it was *)
(* that completed, and whether or not setStop() has closed it meanwhile.     *)
PostAccept(n, a) ==
  /\ ~crashed /\ a.st \in {"postAccept", "onError"}
  /\ goesOn(n, a, "beginAccept")
  /\ posted' = [posted EXCEPT ![m_current[n]] =
       Append(@, IF a.st = "postAccept" THEN "handlAccept" ELSE "handleClose")]
  /\ UNCHANGED <<m_current, owner>> /\ acceptUnchanged

(* beginAccept looks at m_stop ... *)
BeginAccept(n, a) ==
  /\ ~crashed /\ a.st = "beginAccept"
  /\ \/ m_stop[n] /\ returns(n, a)
     \/ ~m_stop[n] /\ goesOn(n, a, "async_accept")
  /\ UNCHANGED <<m_current, owner, posted>> /\ acceptUnchanged

(* ... and goes on, although setStop() may have closed the acceptor meanwhile. *)
AsyncAccept(n, a) ==
  /\ ~crashed /\ a.st = "async_accept"
  /\ acceptInto(n, accepts[n] \ {a})
  /\ UNCHANGED posted /\ acceptUnchanged

(* The io thread of connection s takes its next handler, which is h. *)
Run(s, h) ==
  /\ ~crashed
  /\ posted[s] # << >> /\ Head(posted[s]) = h
  /\ UNCHANGED <<m_stop, m_onlines, m_current, acceptor, accepts, owner, mainVars,
                 fails, crashed>>

(* m_connect = true, the connect event, beginRead; a read on a socket that *)
(* is not open fails at once.                                              *)
Established(s) ==
  /\ m_connect' = [m_connect EXCEPT ![s] = TRUE]
  /\ push(owner[s], Event("connect", s))
  /\ \/ /\ sock[s] \notin {"new", "closed"}
        /\ rdOps' = [rdOps EXCEPT ![s] = @ + 1]
        /\ posted' = [posted EXCEPT ![s] = Tail(@)]
     \/ /\ sock[s] \in {"new", "closed"}
        /\ posted' = [posted EXCEPT ![s] = Append(Tail(@), "handleReadSome")]
        /\ UNCHANGED rdOps

HandlAccept(s) ==
  /\ Run(s, "handlAccept")
  /\ Established(s)
  /\ UNCHANGED sock

HandleConnect(s) ==
  /\ Run(s, "handleConnect")
  /\ \/ /\ ~m_connect[s]
        /\ Established(s)
     \/ /\ m_connect[s]
        /\ posted' = [posted EXCEPT ![s] = Tail(@)]
        /\ UNCHANGED <<m_connect, m_call, rdOps>>
  /\ UNCHANGED sock

(* Mutant: handleConnect does not return when m_connect is set. *)
HandleConnectErrorAgain(s) ==
  /\ Run(s, "handleConnectError")
  /\ posted' = [posted EXCEPT ![s] = Tail(@)]
  /\ m_connect' = [m_connect EXCEPT ![s] = FALSE]
  /\ \/ AutoReconnect /\ push(owner[s], Restart)
     \/ ~AutoReconnect /\ UNCHANGED m_call
  /\ UNCHANGED <<sock, rdOps>>

(* handleConnect with an error, and _eventConnectFailedFun *)
HandleConnectError(s) ==
  /\ Run(s, "handleConnectError")
  /\ posted' = [posted EXCEPT ![s] = Tail(@)]
  /\ \/ ~m_connect[s] /\ AutoReconnect /\ push(owner[s], Restart)
     \/ (m_connect[s] \/ ~AutoReconnect) /\ UNCHANGED m_call
  /\ UNCHANGED <<m_connect, sock, rdOps>>

(* Mutant: the error of a read is not acted upon. *)
HandleReadSomeIgnores(s) ==
  /\ Run(s, "handleReadSome")
  /\ posted' = [posted EXCEPT ![s] = Tail(@)]
  /\ UNCHANGED <<m_call, m_connect, sock, rdOps>>

(* A read that ended with an error: of the peer, or because of a close. *)
HandleReadSome(s) ==
  /\ Run(s, "handleReadSome")
  /\ posted' = [posted EXCEPT ![s] =
                  IF m_connect[s] THEN Append(Tail(@), "handleClose") ELSE Tail(@)]
  /\ UNCHANGED <<m_call, m_connect, sock, rdOps>>

(* What closing the socket completes with operation_aborted. *)
Aborted(s) ==
  [i \in 1..rdOps[s] |-> "handleReadSome"]
    \o (IF sock[s] = "connecting" THEN << "handleConnectError" >> ELSE << >>)

(* Mutant: m_connect is not reset. *)
HandleCloseConnected(s) ==
  /\ Run(s, "handleClose")
  /\ sock' = [sock EXCEPT ![s] = "closed"]
  /\ rdOps' = [rdOps EXCEPT ![s] = 0]
  /\ posted' = [posted EXCEPT ![s] = Tail(@) \o Aborted(s)]
  /\ push(owner[s], Event("close", s))
  /\ UNCHANGED m_connect

HandleClose(s) ==
  /\ Run(s, "handleClose")
  /\ sock' = [sock EXCEPT ![s] = "closed"]
  /\ rdOps' = [rdOps EXCEPT ![s] = 0]
  /\ posted' = [posted EXCEPT ![s] = Tail(@) \o Aborted(s)]
  /\ push(owner[s], Event("close", s))
  /\ m_connect' = [m_connect EXCEPT ![s] = FALSE]
-----------------------------------------------------------------------------
(* The kernel and the peers *)

(***************************************************************************)
(* A server's connection is held by m_current, by the handlers that        *)
(* postAccept and close posted, by events and by m_onlines.                *)
(***************************************************************************)
Freed(s) ==
  /\ owner[s] \in Servers /\ s # m_current[owner[s]]
  /\ s \notin m_onlines[owner[s]]
  /\ \A i \in 1..Len(posted[s]) : posted[s][i] \notin {"handlAccept", "handleClose"}
  /\ \A i \in 1..Len(m_call[owner[s]]) :
       m_call[owner[s]][i] \notin {Event("connect", s), Event("close", s)}

(* A peer connects to server n: its socket is stored in the connection of the *)
(* accept, also if that has been freed.                                       *)
Accepted(n) ==
  /\ ~crashed /\ acceptor[n] = "open"
  /\ \E a \in accepts[n] :
       /\ a.st = "wait"
       /\ goesOn(n, a, "ok")
       /\ sock' = [sock EXCEPT ![a.s] = "open"]
       /\ crashed' \in {FALSE, Freed(a.s)}
  /\ UNCHANGED <<m_stop, m_call, m_onlines, m_current, acceptor, owner, m_connect, rdOps,
                 posted, mainVars, fails>>

AcceptFails(n) ==
  /\ ~crashed /\ fails < MaxFails
  /\ fails' = fails + 1
  /\ \E a \in accepts[n] : a.st = "wait" /\ goesOn(n, a, "err")
  /\ UNCHANGED <<m_stop, m_call, m_onlines, m_current, acceptor, connVars, mainVars, crashed>>

ConnectDone(s) ==
  /\ ~crashed /\ sock[s] = "connecting"
  /\ sock' = [sock EXCEPT ![s] = "open"]
  /\ posted' = [posted EXCEPT ![s] = Append(@, "handleConnect")]
  /\ UNCHANGED <<netVars, owner, m_connect, rdOps, mainVars, fails, crashed>>

ConnectFails(s) ==
  /\ ~crashed /\ sock[s] = "connecting" /\ fails < MaxFails
  /\ fails' = fails + 1
  /\ sock' = [sock EXCEPT ![s] = "failed"]
  /\ posted' = [posted EXCEPT ![s] = Append(@, "handleConnectError")]
  /\ UNCHANGED <<netVars, owner, m_connect, rdOps, mainVars, crashed>>

(* End of file or reset by the peer, or a read on a socket that connects again. *)
PeerLost(s) ==
  /\ ~crashed /\ rdOps[s] > 0
  /\ rdOps' = [rdOps EXCEPT ![s] = @ - 1]
  /\ posted' = [posted EXCEPT ![s] = Append(@, "handleReadSome")]
  /\ UNCHANGED <<netVars, owner, m_connect, sock, mainVars, fails, crashed>>
-----------------------------------------------------------------------------
Main ==
  \/ Start \/ OpenAcceptor \/ BindFails \/ FirstAccept
  \/ SetStop \/ CloseAcceptor \/ CloseCurrent \/ Return
  \/ \E n \in Names : Add(n) \/ Remove(n) \/ StartClient(n) \/ StopNet(n) \/ Poll(n)
  \/ \E n \in Servers : StartServer(n)
  \/ \E s \in Sessions : Kick(s)

Accepting(n) ==
  \E a \in accepts[n] :
    AcceptSocket(n, a) \/ PostAccept(n, a) \/ BeginAccept(n, a) \/ AsyncAccept(n, a)

Handlers(s) ==
  \/ HandlAccept(s) \/ HandleConnect(s) \/ HandleConnectError(s)
  \/ HandleReadSome(s) \/ HandleClose(s)

Io ==
  \/ \E n \in Servers : Accepting(n)
  \/ \E s \in Sessions : Handlers(s)

Kernel ==
  \/ \E n \in Servers : Accepted(n) \/ AcceptFails(n)
  \/ \E s \in Sessions : ConnectDone(s) \/ ConnectFails(s) \/ PeerLost(s)

Next == Main \/ Io \/ Kernel

Spec == Init /\ [][Next]_vars

(***************************************************************************)
(* The io threads run queued handlers; a call of the main thread comes to  *)
(* its end, and the program polls for ever (test.cpp:116, and the loop of  *)
(* stop()).  Nothing is assumed of peers and of the other calls.           *)
(***************************************************************************)
Fairness ==
  /\ \A n \in Servers : WF_vars(Accepting(n))
  /\ \A s \in Sessions : WF_vars(Handlers(s))
  /\ \A n \in Names : WF_vars(Poll(n))
  /\ \A n \in Names : WF_vars(StopNet(n) \/ StartClient(n))
  /\ \A n \in Servers : WF_vars(StartServer(n))
  /\ WF_vars(OpenAcceptor \/ FirstAccept \/ CloseAcceptor \/ CloseCurrent \/ Return)

FairSpec == Spec /\ Fairness
-----------------------------------------------------------------------------
Handler == {"handlAccept", "handleConnect", "handleConnectError", "handleReadSome",
            "handleClose"}

(* Types. *)
TypeOK ==
  /\ m_state \in {"INIT", "RUN", "STOP"}
  /\ m_nets \in SUBSET Names
  /\ m_stop \in [Names -> BOOLEAN]
  /\ m_call \in [Names -> Seq([ev : {"connect", "close"}, s : Sessions] \cup {Restart})]
  /\ m_onlines \in [Names -> SUBSET Sessions]
  /\ m_current \in [Names -> Sessions \cup {0}]
  /\ \A n \in Clients \cap m_nets : m_current[n] # 0
  /\ acceptor \in [Servers -> {"none", "open", "closed"}]
  /\ accepts \in [Servers -> SUBSET [s : Sessions, st : {"wait", "ok", "err", "postAccept",
                                       "onError", "beginAccept", "async_accept"}]]
  /\ owner \in Seq(Names) /\ Len(owner) <= MaxSessions
  /\ m_connect \in [Sessions -> BOOLEAN]
  /\ sock \in [Sessions -> {"new", "connecting", "failed", "open", "closed"}]
  /\ rdOps \in [Sessions -> Nat]
  /\ posted \in [Sessions -> Seq(Handler)]
  /\ pc \in [op : {"idle", "start", "doStart", "beginAccept", "setStop", "doStop",
                   "closeCurrent"},
             todo : SUBSET Names, at : Names \cup {"none"}]
  /\ stopped \in SUBSET Sessions
  /\ starts \in Nat /\ stops \in Nat /\ kicks \in Nat /\ removes \in Nat /\ fails \in Nat
  /\ crashed \in BOOLEAN

(***************************************************************************)
(* The events tell the truth: if everything that waits in m_call were      *)
(* polled now, the sessions online would be exactly the connections that   *)
(* are connected, although connects and closes of a session may be pushed  *)
(* in an order, and a number, that nobody expects.                         *)
(***************************************************************************)
Waiting(s) == {i \in 1..Len(m_call[owner[s]]) :
                 m_call[owner[s]][i] # Restart /\ m_call[owner[s]][i].s = s}

OnlineOncePolled(s) ==
  IF Waiting(s) = {} THEN s \in m_onlines[owner[s]]
  ELSE \E i \in Waiting(s) : /\ \A j \in Waiting(s) : j <= i
                             /\ m_call[owner[s]][i].ev = "connect"

EventsTellState ==
  \A s \in 1..Len(owner) : OnlineOncePolled(s) <=> m_connect[s]

(***************************************************************************)
(* net_type.h:59: _eventConnectFun posts the event of a connection that    *)
(* was made.  acceptSocket is not told which connection was accepted and   *)
(* takes m_current for it: no connection is reported whose socket was      *)
(* never connected.                                                        *)
(***************************************************************************)
RightConnection ==
  \A n \in Names : \A s \in Sessions : \A i \in 1..Len(m_call[n]) :
    m_call[n][i] = Event("connect", s) => sock[s] # "new"

(* setStop() closes every session that is online when it reaches its        *)
(* network: it goes offline and stays so.                                   *)
SetStopCloses ==
  \A s \in Sessions : s \in stopped ~> (crashed \/ [](s \notin poolOnlines))

(***************************************************************************)
(* A connection whose socket was closed is forgotten, even if the close    *)
(* overtakes the handler that announces it.                                *)
(***************************************************************************)
ClosedIsForgotten ==
  \A s \in Sessions : sock[s] = "closed" ~> (crashed \/ [](s \notin poolOnlines))

(***************************************************************************)
(* A server that was started and not stopped always has an accept          *)
(* outstanding again, also after an accept that failed.                    *)
(***************************************************************************)
KeepsAccepting ==
  \A n \in Servers :
    acceptor[n] = "open" ~>
      \/ \E a \in accepts[n] : a.st = "wait"
      \/ m_stop[n] \/ crashed \/ NextSession \notin Sessions

(***************************************************************************)
(* manager.h:30 says that setStop() closes the networks: a network that it *)
(* stopped is not started again before the next start().                   *)
(***************************************************************************)
StopIsFinal ==
  [][\A n \in Names : m_state = "STOP" /\ m_stop[n] => m_stop'[n]]_vars
=============================================================================
