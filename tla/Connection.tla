----------------------------- MODULE Connection -----------------------------
(***************************************************************************)
(* One Connection (src/connection.cpp) between the three parties that      *)
(* touch it:                                                               *)
(*                                                                         *)
(*   - the main thread: NetService::start, setStop, send, kick and poll;   *)
(*   - the io thread that runs the connection's io_service: one handler at *)
(*     a time from the FIFO ioQueue;                                       *)
(*   - the kernel and the peer (external): accept, connect, transfer of    *)
(*     bytes, completions, end of file, reset.                             *)
(*                                                                         *)
(* A server's connection waits for one accept as TcpServer::m_current; the *)
(* accept loop is here as far as it calls this connection.  A client's is  *)
(* TcpClient::m_session and connects as often as start() is called.  (That *)
(* after a second start() of a server the accept of the first may complete *)
(* on a connection that is not its own is in NetService.)                  *)
(*                                                                         *)
(* Bytes are the numbers 1, 2, ... in the order in which send() accepted   *)
(* them, so that the contents of every buffer and of the wire tell which   *)
(* bytes they are.  The framing of received bytes is in ConnectionRecv;    *)
(* here a completed read yields one or no recv event.                      *)
(*                                                                         *)
(* Not kept: m_totalSend and m_totalRevc (written and never read) and      *)
(* m_session.                                                              *)
(***************************************************************************)
EXTENDS NetBuffer

CONSTANTS SendBufSize,    \* capacity of m_bufferSend (65535 in the code)
          BlockLens,      \* lengths of the blocks handed to send()
          AutoReconnect,  \* Config::m_autoReconnect of a client
          MaxBytes,       \* bound: bytes accepted by send()
          MaxStarts,      \* bound: calls of start() by the application
          MaxKicks,       \* bound: calls of close() by the main thread
          MaxReads,       \* bound: reads that complete with data
          MaxFails        \* bound: failed connection attempts

ASSUME ConnectionAssumption ==
  /\ SendBufSize \in Nat \ {0}
  /\ BlockLens \subseteq Nat \ {0}
  /\ AutoReconnect \in BOOLEAN
  /\ MaxBytes \in Nat /\ MaxStarts \in Nat /\ MaxKicks \in Nat
  /\ MaxReads \in Nat /\ MaxFails \in Nat

VARIABLES
  owner,         \* "server" or "client": which TcpObj created the connection
  accept,        \* of a server's: its accept, and "gone": m_current no longer
  m_connect,
  m_isSend,
  m_sendList,    \* blocks (their data() buffers) waiting to be sent
  m_bufferSend,
  sock,          \* m_socket as the kernel sees it
  rdOps,         \* how many async_read_some are outstanding
  wrOp,          \* the async_write: its state, where its bytes lie, progress
  ioQueue,       \* handlers queued in the io_service, first to run first
  pc,            \* where the io thread is inside a handler
  m_call,        \* every event ever pushed to TcpObj::m_call
  polled,        \* how many of them poll() has run
  online,        \* is the session in m_onlines (of TcpObj and of the pool)?
  accepted,      \* number of bytes accepted by send()
  wire,          \* bytes that left on the socket since it was opened
  sent,          \* all of the bytes 1 .. sent have left on some socket
  starts, kicks, reads, fails,
  crashed        \* a handler ran on a connection that had been freed

connVars == <<m_connect, m_isSend, m_sendList, m_bufferSend>>
kernVars == <<sock, rdOps, wrOp, wire, sent, reads, fails>>
mainVars == <<accept, m_call, polled, online, accepted, starts, kicks>>
vars == <<owner, connVars, kernVars, ioQueue, pc, mainVars, crashed>>

(* A queued handler.  er: was it given an error code?  size: its byte count. *)
Handler(h, er, size) == [h |-> h, er |-> er, size |-> size]

(* Handlers bound to a raw this instead of shared_from_this(). *)
RawHandlers == {"handleReadSome", "handleWrite", "handleConnect"}

NoWrite == [st |-> "none", base |-> 0, len |-> 0, n |-> 0]

Init ==
  /\ owner \in {"server", "client"}
  /\ accept = IF owner = "server" THEN "wait" ELSE "none"
  /\ m_connect = FALSE
  /\ m_isSend = FALSE
  /\ m_sendList = << >>
  /\ m_bufferSend = NewBuffer(SendBufSize)
  /\ sock = "new"
  /\ rdOps = 0
  /\ wrOp = NoWrite
  /\ ioQueue = << >>
  /\ pc = "idle"
  /\ m_call = << >>
  /\ polled = 0
  /\ online = FALSE
  /\ accepted = 0
  /\ wire = << >>
  /\ sent = 0
  /\ starts = 0 /\ kicks = 0 /\ reads = 0 /\ fails = 0
  /\ crashed = FALSE

(***************************************************************************)
(* Lifetime.  A client's connection is held by TcpClient::m_session.  A    *)
(* server's is held by m_current, by handlers posted with                  *)
(* shared_from_this(), by events in m_call and by m_onlines, and is freed  *)
(* when none of them is left.                                              *)
(***************************************************************************)
Freed ==
  /\ owner = "server" /\ accept = "gone"
  /\ pc = "idle"
  /\ ~online
  /\ \A i \in 1..Len(ioQueue) : ioQueue[i].h \in RawHandlers
  /\ \A i \in polled+1..Len(m_call) : m_call[i] = "recv"

(* The io thread takes the next handler, which is h. *)
Run(h) ==
  /\ ~crashed
  /\ pc = "idle"
  /\ ioQueue # << >>
  /\ Head(ioQueue).h = h
  /\ h \in RawHandlers => ~Freed
  /\ UNCHANGED <<owner, crashed>>

(* TcpObj::push *)
push(ev) == m_call' = Append(m_call, ev)

(* close(er): post handleClose *)
close(queue, er) == Append(queue, Handler("handleClose", er, 0))
-----------------------------------------------------------------------------
(* Handlers that run on the io thread *)

(* beginRead, with the queue that is left: on a socket that is not open the *)
(* operation fails at once.                                                 *)
beginRead(queue) ==
  \/ /\ sock \notin {"new", "closed"}
     /\ rdOps' = rdOps + 1
     /\ ioQueue' = queue
  \/ /\ sock \in {"new", "closed"}
     /\ ioQueue' = Append(queue, Handler("handleReadSome", TRUE, 0))
     /\ UNCHANGED rdOps

HandlAccept ==
  /\ Run("handlAccept")
  /\ m_connect' = TRUE
  /\ push("connect")
  /\ beginRead(Tail(ioQueue))
  /\ UNCHANGED <<accept, m_isSend, m_sendList, m_bufferSend, sock, wrOp, wire, sent, reads,
                 fails, pc, polled, online, accepted, starts, kicks>>

(* Mutant: handleConnect does not look at m_connect. *)
HandleConnectAgain ==
  /\ Run("handleConnect")
  /\ \/ /\ ~Head(ioQueue).er
        /\ m_connect' = TRUE
        /\ push("connect")
        /\ beginRead(Tail(ioQueue))
     \/ /\ Head(ioQueue).er
        /\ ioQueue' = Tail(ioQueue)
        /\ m_call' = IF AutoReconnect THEN Append(m_call, "start") ELSE m_call
        /\ UNCHANGED <<m_connect, rdOps>>
  /\ UNCHANGED <<accept, m_isSend, m_sendList, m_bufferSend, sock, wrOp, wire, sent, reads,
                 fails, pc, polled, online, accepted, starts, kicks>>

HandleConnect ==
  /\ Run("handleConnect")
  /\ \/ /\ m_connect
        /\ ioQueue' = Tail(ioQueue)
        /\ UNCHANGED <<m_connect, m_call, rdOps>>
     \/ /\ ~m_connect /\ ~Head(ioQueue).er
        /\ m_connect' = TRUE
        /\ push("connect")
        /\ beginRead(Tail(ioQueue))
     \/ /\ ~m_connect /\ Head(ioQueue).er
        /\ ioQueue' = Tail(ioQueue)
        /\ m_call' = IF AutoReconnect THEN Append(m_call, "start") ELSE m_call
        /\ UNCHANGED <<m_connect, rdOps>>
  /\ UNCHANGED <<accept, m_isSend, m_sendList, m_bufferSend, sock, wrOp, wire, sent, reads,
                 fails, pc, polled, online, accepted, starts, kicks>>

(* Mutant: a completion that arrives after the close is not ignored. *)
HandleReadSomeStale ==
  /\ Run("handleReadSome")
  /\ \/ /\ Head(ioQueue).er
        /\ ioQueue' = close(Tail(ioQueue), TRUE)
        /\ UNCHANGED <<m_call, rdOps>>
     \/ /\ ~Head(ioQueue).er
        /\ push("recv")
        /\ beginRead(Tail(ioQueue))
  /\ UNCHANGED <<accept, connVars, sock, wrOp, wire, sent, reads, fails, pc, polled, online,
                 accepted, starts, kicks>>

HandleReadSome ==
  /\ Run("handleReadSome")
  /\ \/ /\ ~m_connect
        /\ ioQueue' = Tail(ioQueue)
        /\ UNCHANGED <<m_call, rdOps>>
     \/ /\ m_connect /\ Head(ioQueue).er
        /\ ioQueue' = close(Tail(ioQueue), TRUE)
        /\ UNCHANGED <<m_call, rdOps>>
     \/ /\ m_connect /\ ~Head(ioQueue).er
        /\ push("recv") \/ UNCHANGED m_call
        /\ beginRead(Tail(ioQueue))
  /\ UNCHANGED <<accept, connVars, sock, wrOp, wire, sent, reads, fails, pc, polled, online,
                 accepted, starts, kicks>>

(***************************************************************************)
(* writeMessage(size) holds m_mutex from its guards to its end; it is cut  *)
(* into one step per iteration of its loop.  EnterWriteMessage is what     *)
(* comes before the loop.                                                  *)
(***************************************************************************)
(* Mutant: m_isSend is not looked at. *)
EnterWriteMessageBusy(isSend, size) ==
  \/ /\ m_connect
     /\ m_bufferSend' = clearReadBuffer(readData(m_bufferSend, size))
     /\ pc' = "fill"
  \/ /\ ~m_connect
     /\ UNCHANGED <<m_bufferSend, pc>>

EnterWriteMessage(isSend, size) ==
  \/ /\ m_connect /\ ~isSend
     /\ m_bufferSend' = clearReadBuffer(readData(m_bufferSend, size))
     /\ pc' = "fill"
  \/ /\ ~m_connect \/ isSend
     /\ UNCHANGED <<m_bufferSend, pc>>

WriteMessage ==
  /\ Run("writeMessage")
  /\ ioQueue' = Tail(ioQueue)
  /\ EnterWriteMessage(m_isSend, Head(ioQueue).size)
  /\ UNCHANGED <<m_connect, m_isSend, m_sendList, kernVars, mainVars>>

(* Mutant: a block that did not fit is popped with the rest of it. *)
FillSendBufferPops ==
  /\ pc = "fill"
  /\ m_sendList # << >>
  /\ m_bufferSend' = readBufferInto(Head(m_sendList), m_bufferSend)
  /\ m_sendList' = Tail(m_sendList)
  /\ pc' = IF hasRead(readBufferFrom(Head(m_sendList), m_bufferSend)) THEN "start" ELSE pc
  /\ UNCHANGED <<owner, m_connect, m_isSend, kernVars, ioQueue, mainVars, crashed>>

(* One iteration of the loop over m_sendList. *)
FillSendBuffer ==
  /\ pc = "fill"
  /\ m_sendList # << >>
  /\ LET p == readBufferFrom(Head(m_sendList), m_bufferSend) IN
       /\ m_bufferSend' = readBufferInto(Head(m_sendList), m_bufferSend)
       /\ \/ /\ hasRead(p)
             /\ m_sendList' = << p >> \o Tail(m_sendList)
             /\ pc' = "start"
          \/ /\ ~hasRead(p)
             /\ m_sendList' = Tail(m_sendList)
             /\ UNCHANGED pc
  /\ UNCHANGED <<owner, m_connect, m_isSend, kernVars, ioQueue, mainVars, crashed>>

(* The end of writeMessage: hand what is in m_bufferSend to async_write,    *)
(* which fails at once on a socket that is not open.                        *)
StartWrite ==
  /\ pc = "start" \/ (pc = "fill" /\ m_sendList = << >>)
  /\ pc' = "idle"
  /\ \/ /\ hasRead(m_bufferSend)
        /\ m_isSend' = TRUE
        /\ LET w(st) == [st |-> st, base |-> m_bufferSend.readPos,
                         len |-> needReadLength(m_bufferSend), n |-> 0] IN
             \/ /\ sock \notin {"new", "closed"}
                /\ wrOp' = w("flight")
                /\ UNCHANGED ioQueue
             \/ /\ sock \in {"new", "closed"}
                /\ wrOp' = w("done")
                /\ ioQueue' = Append(ioQueue, Handler("handleWrite", TRUE, 0))
     \/ /\ ~hasRead(m_bufferSend)
        /\ UNCHANGED <<m_isSend, wrOp, ioQueue>>
  /\ UNCHANGED <<owner, m_connect, m_sendList, m_bufferSend, sock, rdOps, wire, sent,
                 reads, fails, mainVars, crashed>>

(* Mutant: a completed write does not go on with the rest of m_sendList. *)
HandleWriteStops ==
  /\ Run("handleWrite")
  /\ m_isSend' = FALSE
  /\ wrOp' = NoWrite
  /\ ioQueue' = IF Head(ioQueue).er THEN close(Tail(ioQueue), TRUE) ELSE Tail(ioQueue)
  /\ m_bufferSend' = IF Head(ioQueue).er \/ ~m_connect THEN m_bufferSend
                     ELSE clearReadBuffer(readData(m_bufferSend, Head(ioQueue).size))
  /\ UNCHANGED <<m_connect, m_sendList, sock, rdOps, wire, sent, reads, fails, pc, mainVars>>

(* Mutant: the data of a write that failed is given up. *)
HandleWriteGivesUp ==
  /\ Run("handleWrite")
  /\ m_isSend' = FALSE
  /\ wrOp' = NoWrite
  /\ \/ /\ Head(ioQueue).er
        /\ ioQueue' = close(Tail(ioQueue), TRUE)
        /\ m_bufferSend' = clearReadBuffer(readData(m_bufferSend, length(m_bufferSend)))
        /\ UNCHANGED pc
     \/ /\ ~Head(ioQueue).er
        /\ ioQueue' = Tail(ioQueue)
        /\ EnterWriteMessage(FALSE, Head(ioQueue).size)
  /\ UNCHANGED <<m_connect, m_sendList, sock, rdOps, wire, sent, reads, fails, mainVars>>

HandleWrite ==
  /\ Run("handleWrite")
  /\ m_isSend' = FALSE
  /\ wrOp' = NoWrite
  /\ \/ /\ Head(ioQueue).er
        /\ ioQueue' = close(Tail(ioQueue), TRUE)
        /\ UNCHANGED <<m_bufferSend, pc>>
     \/ /\ ~Head(ioQueue).er
        /\ ioQueue' = Tail(ioQueue)
        /\ EnterWriteMessage(FALSE, Head(ioQueue).size)
  /\ UNCHANGED <<m_connect, m_sendList, sock, rdOps, wire, sent, reads, fails, mainVars>>

(* Mutant: blocks that wait in m_sendList are forgotten. *)
UnsentBuffered == m_isSend \/ hasRead(m_bufferSend)

(* Is there still something to send? (the test handleClose makes under m_mutex) *)
Unsent == m_isSend \/ m_sendList # << >> \/ hasRead(m_bufferSend)

(* Mutant: a close that has to wait is not posted again. *)
HandleCloseOnce ==
  /\ Run("handleClose")
  /\ ioQueue' = Tail(ioQueue)
  /\ pc' = IF Head(ioQueue).er \/ ~Unsent THEN "close" ELSE pc
  /\ UNCHANGED <<connVars, kernVars, mainVars>>

HandleClose ==
  /\ Run("handleClose")
  /\ \/ /\ ~Head(ioQueue).er /\ Unsent
        /\ ioQueue' = close(Tail(ioQueue), FALSE)
        /\ UNCHANGED pc
     \/ /\ Head(ioQueue).er \/ ~Unsent
        /\ ioQueue' = Tail(ioQueue)
        /\ pc' = "close"
  /\ UNCHANGED <<connVars, kernVars, mainVars>>

(* What closing the socket completes with operation_aborted. *)
Aborted ==
  [i \in 1..rdOps |-> Handler("handleReadSome", TRUE, 0)]
    \o (IF sock = "connecting" THEN << Handler("handleConnect", TRUE, 0) >> ELSE << >>)
    \o (IF wrOp.st = "flight" THEN << Handler("handleWrite", TRUE, wrOp.n) >> ELSE << >>)

(* Mutant: the application is not told of the close. *)
CloseSocketSilent ==
  /\ pc = "close"
  /\ pc' = "idle"
  /\ sock' = "closed"
  /\ rdOps' = 0
  /\ wrOp' = IF wrOp.st = "flight" THEN [wrOp EXCEPT !.st = "done"] ELSE wrOp
  /\ ioQueue' = ioQueue \o Aborted
  /\ m_connect' = FALSE
  /\ UNCHANGED <<owner, m_isSend, m_sendList, m_bufferSend, wire, sent, reads, fails,
                 mainVars, crashed>>

(* The rest of handleClose, after m_mutex was released. *)
CloseSocket ==
  /\ pc = "close"
  /\ pc' = "idle"
  /\ sock' = "closed"
  /\ rdOps' = 0
  /\ wrOp' = IF wrOp.st = "flight" THEN [wrOp EXCEPT !.st = "done"] ELSE wrOp
  /\ ioQueue' = ioQueue \o Aborted
  /\ push("close")
  /\ m_connect' = FALSE
  /\ UNCHANGED <<owner, accept, m_isSend, m_sendList, m_bufferSend, wire, sent, reads,
                 fails, polled, online, accepted, starts, kicks, crashed>>

(* A raw handler is run although the connection is gone. *)
UseAfterFree ==
  /\ ~crashed
  /\ Freed
  /\ ioQueue # << >>
  /\ crashed' = TRUE
  /\ UNCHANGED <<owner, connVars, kernVars, ioQueue, pc, mainVars>>
-----------------------------------------------------------------------------
(* The kernel and the peer *)

kernelUnchanged ==
  UNCHANGED <<owner, connVars, pc, m_call, polled, online, accepted, starts, kicks, crashed>>

(* A peer connects to the server: the next bytes are the first of a stream. *)
Accepted ==
  /\ accept = "wait"
  /\ accept' = "ok"
  /\ sock' = "open"
  /\ wire' = << >>
  /\ UNCHANGED <<rdOps, wrOp, sent, reads, fails, ioQueue>> /\ kernelUnchanged

(* The accept fails, or doStop closes the acceptor. *)
AcceptFails ==
  /\ accept = "wait"
  /\ accept' = "err"
  /\ UNCHANGED <<kernVars, ioQueue>> /\ kernelUnchanged

ConnectDone ==
  /\ sock = "connecting"
  /\ sock' = "open"
  /\ wire' = << >>
  /\ ioQueue' = Append(ioQueue, Handler("handleConnect", FALSE, 0))
  /\ UNCHANGED <<accept, rdOps, wrOp, sent, reads, fails>> /\ kernelUnchanged

ConnectFail ==
  /\ sock = "connecting" /\ fails < MaxFails
  /\ sock' = "failed"
  /\ fails' = fails + 1
  /\ ioQueue' = Append(ioQueue, Handler("handleConnect", TRUE, 0))
  /\ UNCHANGED <<accept, rdOps, wrOp, wire, sent, reads>> /\ kernelUnchanged

(* The byte that now lies at position i of the memory given to async_write. *)
Memory(i) == IF i \in 1..length(m_bufferSend) THEN m_bufferSend.buf[i] ELSE 0

(* async_write moves one more byte. *)
Transfer ==
  /\ sock = "open" /\ wrOp.st = "flight" /\ wrOp.n < wrOp.len
  /\ LET byte == Memory(wrOp.base + wrOp.n + 1) IN
       /\ wire' = Append(wire, byte)
       /\ sent' = IF byte = sent + 1 THEN byte ELSE sent
  /\ wrOp' = [wrOp EXCEPT !.n = @ + 1]
  /\ UNCHANGED <<accept, sock, rdOps, reads, fails, ioQueue>> /\ kernelUnchanged

WriteDone ==
  /\ wrOp.st = "flight" /\ wrOp.n = wrOp.len
  /\ wrOp' = [wrOp EXCEPT !.st = "done"]
  /\ ioQueue' = Append(ioQueue, Handler("handleWrite", FALSE, wrOp.len))
  /\ UNCHANGED <<accept, sock, rdOps, wire, sent, reads, fails>> /\ kernelUnchanged

(* An operation fails on a lost connection; where the handler of an earlier *)
(* connect started it on a socket that connects again, it fails with it, or *)
(* at once.                                                                 *)
Unconnected == {"connecting", "failed", "broken"}

WriteFail ==
  /\ sock \in Unconnected /\ wrOp.st = "flight" /\ wrOp.n < wrOp.len
  /\ wrOp' = [wrOp EXCEPT !.st = "done"]
  /\ ioQueue' = Append(ioQueue, Handler("handleWrite", TRUE, wrOp.n))
  /\ UNCHANGED <<accept, sock, rdOps, wire, sent, reads, fails>> /\ kernelUnchanged

ReadDone ==
  /\ sock = "open" /\ rdOps > 0 /\ reads < MaxReads
  /\ rdOps' = rdOps - 1
  /\ reads' = reads + 1
  /\ ioQueue' = Append(ioQueue, Handler("handleReadSome", FALSE, 1))
  /\ UNCHANGED <<accept, sock, wrOp, wire, sent, fails>> /\ kernelUnchanged

(* The peer shut down its side: end of file, while our side may still write. *)
PeerEof ==
  /\ sock = "open" /\ rdOps > 0
  /\ rdOps' = rdOps - 1
  /\ ioQueue' = Append(ioQueue, Handler("handleReadSome", TRUE, 0))
  /\ UNCHANGED <<accept, sock, wrOp, wire, sent, reads, fails>> /\ kernelUnchanged

PeerReset ==
  /\ sock = "open"
  /\ sock' = "broken"
  /\ UNCHANGED <<accept, rdOps, wrOp, wire, sent, reads, fails, ioQueue>> /\ kernelUnchanged

ReadFail ==
  /\ sock \in Unconnected /\ rdOps > 0
  /\ rdOps' = rdOps - 1
  /\ ioQueue' = Append(ioQueue, Handler("handleReadSome", TRUE, 0))
  /\ UNCHANGED <<accept, sock, wrOp, wire, sent, reads, fails>> /\ kernelUnchanged
-----------------------------------------------------------------------------
(* The accept loop of TcpServer, on the io thread of the acceptor, as far as *)
(* it concerns this connection                                               *)

acceptUnchanged ==
  UNCHANGED <<owner, connVars, kernVars, pc, m_call, polled, online, accepted, starts,
              crashed>>

(* acceptSocket calls postAccept or onError, or neither after a stop(). *)
AcceptSocket ==
  /\ accept \in {"ok", "err"}
  /\ accept' = "posted"
  /\ \/ UNCHANGED ioQueue
     \/ accept = "ok" /\ ioQueue' = Append(ioQueue, Handler("handlAccept", FALSE, 0))
     \/ accept = "err" /\ ioQueue' = close(ioQueue, TRUE)
  /\ UNCHANGED kicks /\ acceptUnchanged

(* beginAccept, of acceptSocket or of a new start(), makes a new m_current. *)
BeginAccept ==
  /\ accept \in {"ok", "err", "posted"}
  /\ accept' = "gone"
  /\ UNCHANGED <<ioQueue, kicks>> /\ acceptUnchanged

(* TcpServer::doStop closes m_current, after the acceptor: the accept has    *)
(* completed.                                                                *)
CloseCurrent ==
  /\ accept \in {"ok", "err", "posted"}
  /\ kicks < MaxKicks
  /\ kicks' = kicks + 1
  /\ ioQueue' = close(ioQueue, FALSE)
  /\ UNCHANGED accept /\ acceptUnchanged
-----------------------------------------------------------------------------
(* The main thread *)

(* TcpClient::doStart, and async_connect: it fails at once on a socket that  *)
(* connects already or was connected and not closed.                         *)
connect ==
  \/ /\ sock \in {"new", "failed", "closed"}
     /\ sock' = "connecting"
     /\ UNCHANGED <<fails, ioQueue>>
  \/ /\ sock \in {"connecting", "open", "broken"}
     /\ fails < MaxFails
     /\ fails' = fails + 1
     /\ ioQueue' = Append(ioQueue, Handler("handleConnect", TRUE, 0))
     /\ UNCHANGED sock

(* NetService::start *)
Start ==
  /\ owner = "client"
  /\ starts < MaxStarts
  /\ starts' = starts + 1
  /\ connect
  /\ UNCHANGED <<owner, accept, connVars, rdOps, wrOp, wire, sent, reads, pc, m_call, polled,
                 online, accepted, kicks, crashed>>

(* Mutant: the connect event does not keep the connection in m_onlines. *)
PollForgets ==
  /\ ~crashed
  /\ polled < Len(m_call)
  /\ polled' = polled + 1
  /\ \/ m_call[polled'] = "start" /\ connect
     \/ m_call[polled'] # "start" /\ UNCHANGED <<sock, fails, ioQueue>>
  /\ UNCHANGED <<owner, accept, connVars, rdOps, wrOp, wire, sent, reads, pc, m_call, online,
                 accepted, starts, kicks, crashed>>

(* poll() runs the next event of m_call. *)
Poll ==
  /\ ~crashed
  /\ polled < Len(m_call)
  /\ polled' = polled + 1
  /\ online' = CASE m_call[polled'] = "connect" -> TRUE
                 [] m_call[polled'] = "close"   -> FALSE
                 [] OTHER                       -> online
  /\ \/ m_call[polled'] = "start" /\ connect
     \/ m_call[polled'] # "start" /\ UNCHANGED <<sock, fails, ioQueue>>
  /\ UNCHANGED <<owner, accept, connVars, rdOps, wrOp, wire, sent, reads, pc, m_call,
                 accepted, starts, kicks, crashed>>

(* NetService::send finds the session and calls Connection::send, which     *)
(* blocks while writeMessage holds m_mutex.                                 *)
Send ==
  \E len \in BlockLens :
    /\ online
    /\ pc \notin {"fill", "start"}
    /\ accepted + len <= MaxBytes
    /\ m_sendList' = Append(m_sendList,
                       tailData(NewBuffer(len), [i \in 1..len |-> accepted + i]))
    /\ ioQueue' = Append(ioQueue, Handler("writeMessage", FALSE, 0))
    /\ accepted' = accepted + len
    /\ UNCHANGED <<owner, accept, m_connect, m_isSend, m_bufferSend, kernVars, pc,
                   m_call, polled, online, starts, kicks, crashed>>

(* NetService::kick, and TcpObj::stop for each of its onlines. *)
Kick ==
  /\ online
  /\ kicks < MaxKicks
  /\ kicks' = kicks + 1
  /\ ioQueue' = close(ioQueue, FALSE)
  /\ UNCHANGED <<owner, accept, connVars, kernVars, pc, m_call, polled, online, accepted,
                 starts, crashed>>
-----------------------------------------------------------------------------
Io ==
  \/ HandlAccept
  \/ HandleConnect
  \/ HandleReadSome
  \/ WriteMessage
  \/ FillSendBuffer
  \/ StartWrite
  \/ HandleWrite
  \/ HandleClose
  \/ CloseSocket
  \/ UseAfterFree

Kernel ==
  \/ Accepted
  \/ AcceptFails
  \/ ConnectDone
  \/ ConnectFail
  \/ Transfer
  \/ WriteDone
  \/ WriteFail
  \/ ReadDone
  \/ PeerEof
  \/ PeerReset
  \/ ReadFail

Accepting == AcceptSocket \/ BeginAccept

Main ==
  \/ CloseCurrent
  \/ Start
  \/ Poll
  \/ Send
  \/ Kick

Next == Io \/ Kernel \/ Accepting \/ Main

Spec == Init /\ [][Next]_vars

(***************************************************************************)
(* The io thread runs handlers as long as there are any, the program polls *)
(* for ever (test.cpp:116), and TCP delivers what is written, or an error, *)
(* to a peer that keeps reading.  Nothing is assumed of the main thread's  *)
(* calls, nor of accepts, connects, end of file and reset.                 *)
(***************************************************************************)
Fairness ==
  /\ WF_vars(Io)
  /\ WF_vars(Poll)
  /\ WF_vars(Transfer \/ WriteDone \/ (sock = "broken" /\ WriteFail))
  /\ WF_vars(sock = "broken" /\ ReadFail)

FairSpec == Spec /\ Fairness
-----------------------------------------------------------------------------
(* Types. *)
TypeOK ==
  /\ owner \in {"server", "client"}
  /\ accept \in {"none", "wait", "ok", "err", "posted", "gone"}
  /\ m_connect \in BOOLEAN /\ m_isSend \in BOOLEAN
  /\ m_sendList \in Seq(Buffer(Nat))
  /\ m_bufferSend \in Buffer(Nat)
  /\ sock \in {"new", "connecting", "failed", "open", "broken", "closed"}
  /\ rdOps \in Nat
  /\ wrOp \in [st : {"none", "flight", "done"}, base : Nat, len : Nat, n : Nat]
  /\ ioQueue \in Seq([h : RawHandlers \cup {"handlAccept", "writeMessage", "handleClose"},
                      er : BOOLEAN, size : Nat])
  /\ pc \in {"idle", "fill", "start", "close"}
  /\ m_call \in Seq({"connect", "recv", "close", "start"})
  /\ polled \in Nat
  /\ online \in BOOLEAN
  /\ accepted \in Nat
  /\ wire \in Seq(Nat) /\ sent \in Nat
  /\ starts \in Nat /\ kicks \in Nat /\ reads \in Nat /\ fails \in Nat
  /\ crashed \in BOOLEAN

(***************************************************************************)
(* The peer sees the bytes of the accepted blocks in the order of the      *)
(* send() calls, none skipped, none twice.  async_write reads m_bufferSend *)
(* while it runs; this is what m_isSend, clearReadBuffer and the partial   *)
(* readBuffer of a block larger than the send buffer have to preserve.  A  *)
(* client that was closed and connects again may repeat bytes, because it  *)
(* does not know what became of its last write, but leaves none out.       *)
(***************************************************************************)
WireInOrder ==
  /\ \A i \in 1..(Len(wire) - 1) : wire[i + 1] = wire[i] + 1
  /\ \A i \in 1..Len(wire) : wire[i] \in 1..sent

(***************************************************************************)
(* connection.cpp:52 "send all data  then close": when a close without     *)
(* error goes ahead, every byte accepted until then has left.              *)
(***************************************************************************)
FlushBeforeClose ==
  [][pc = "idle" /\ pc' = "close" /\ ~Head(ioQueue).er => sent = accepted]_vars

(***************************************************************************)
(* A Connection implements the byte stream of ByteStream: whatever the io  *)
(* thread, send(), kick(), start() and the peer do, each step is one of    *)
(* its steps or none.  A lost connection is known by its broken socket, or *)
(* by the error that a queued handler carries until handleClose acts on    *)
(* it.                                                                     *)
(***************************************************************************)
ErrorQueued ==
  \E i \in 1..Len(ioQueue) :
    /\ ioQueue[i].er
    /\ \/ ioQueue[i].h \in {"handleWrite", "handleClose"}
       \/ ioQueue[i].h = "handleReadSome" /\ m_connect

StreamState ==
  CASE sock \notin {"open", "broken"}                                -> "closed"
    [] sock \in {"open", "broken"} /\ pc = "close"                   -> "closing"
    [] /\ sock \in {"open", "broken"} /\ pc # "close"
       /\ sock = "broken" \/ ErrorQueued                             -> "faulty"
    [] OTHER                                                         -> "open"

Stream == INSTANCE ByteStream WITH st <- StreamState

ImplementsStream == Stream!Spec

(***************************************************************************)
(* What the callbacks of the application rely on, across closes before the *)
(* connection was made, repeated closes and reconnects: it is told of a    *)
(* connection only when the last it was told is that there is none, and is *)
(* given messages only in between, although a completed read may still be  *)
(* queued behind the handler that closes, and an earlier connect behind    *)
(* that.  (It is about a connection that is told of its own accept; the    *)
(* other case, after a second start() of a server, breaks RightConnection  *)
(* in NetService.)                                                         *)
(***************************************************************************)
Told(k) ==
  \E i \in 1..k : m_call[i] = "connect" /\ \A j \in (i + 1)..k : m_call[j] # "close"

EventOrder ==
  \A k \in 1..Len(m_call) :
    /\ m_call[k] = "recv" => Told(k - 1)
    /\ m_call[k] \in {"connect", "start"} => ~Told(k - 1)

(***************************************************************************)
(* The kinds of owning references together keep a server's connection      *)
(* alive until the application, told that it is connected, has been told   *)
(* of the close.                                                           *)
(***************************************************************************)
HeldUntilClosePolled ==
  Freed => \A i \in 1..Len(m_call) :
             m_call[i] = "connect" => \E j \in (i + 1)..polled : m_call[j] = "close"

(***************************************************************************)
(* No message is forgotten in m_sendList: every byte accepted reaches the  *)
(* wire, unless the connection is lost or closed.                          *)
(***************************************************************************)
EventuallySent ==
  \A k \in 1..MaxBytes :
    accepted >= k ~> (sent >= k \/ sock # "open")

(* What kick() or setStop() closes is closed, whatever waits to be sent. *)
KickCloses == kicks > 0 ~> sock = "closed"

(***************************************************************************)
(* A connection that was lost or closed is reported: its session leaves    *)
(* m_onlines for good.                                                     *)
(***************************************************************************)
LossReported ==
  (sock \in {"broken", "closed"} /\ m_connect) ~> (crashed \/ [](~online /\ ~m_connect))

(***************************************************************************)
(* connection.cpp:52 "send all data  then close": a request to close comes *)
(* to an end.                                                              *)
(***************************************************************************)
CloseRequested == \E i \in 1..Len(ioQueue) : ioQueue[i].h = "handleClose"

CloseEnds == CloseRequested ~> ~CloseRequested
=============================================================================
