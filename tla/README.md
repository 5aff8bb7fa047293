# fannynet: a verification development

fannynet is a small C++ network library on boost::asio: length-prefixed or Redis
messages over TCP, several io threads, and one main thread that sends and polls
for events. This directory holds TLA+ modules that model it, TLC configurations
that check them on small instances, and theorems that TLAPS proves for every
value of their constants. Paths of source files are relative to the repository.

## 1. Inventory

### Parts, their state and operations

| component | state | operations | interacts with |
|---|---|---|---|
| `NetBuffer` (include/net_buffer.h, src/net_buffer.cpp) | bytes, `m_readPos`, `m_writePos`, `m_maxLen`, `m_lock` | append, prepend, commit, read, compact, reset, lock, transfer to another buffer | owned by connections and blocks |
| `NetBlock` (src/block.cpp) | `m_state`, `m_head`, `m_data` | `push`/`encrypt` (sender), `recv` (receiver), `clone` | reads the connection's receive buffer |
| `Connection` (src/connection.cpp) | `m_connect`, `m_isSend`, `m_sendList`, both buffers, `m_waitMessage`, the socket | `send`, `close`, `connect`, and the handlers `handlAccept`, `handleConnect`, `handleReadSome`, `writeMessage`, `handleWrite`, `handleClose` | handlers run on one io thread; `send` and `close` are called by the main thread; events go to `TcpObj` |
| `TcpObj` (src/tcp_object.h) | `m_call` (event queue), `m_onlines`, `m_stop` | `push` (io threads), `poll`, `start`, `stop` (main thread) | events run the application's callbacks and change `m_onlines` |
| `TcpServer` (src/tcp_object.cpp) | `m_acceptor`, `m_current` | `doStart`, `doStop`, `beginAccept`, `acceptSocket` | the accept handler runs on an io thread |
| `TcpClient` (src/tcp_object.cpp) | `m_session`, `m_endpoint` | `doStart`, `doStop`, reconnect | a failed connect pushes a restart event |
| `IoObjectPool` (src/io_pool.h) | io threads, `m_curIndex`, `m_curSessionId`, `m_onlines` | `getIoService`, `nextSession`, `addSession`, `delSession`, `session`, `hasOnline` | called by the main thread and by io threads |
| `NetService`, `NetManager` (src/service.cpp, src/manager.cpp) | `m_nets`, `m_state` | `add`, `remove`, `start`, `setStop`, `stop`, `poll`, `send`, `kick` | the library's interface |
| `RedisParse`, `RedisBlock`, `RedisBlock2`, `RedisCommand` (include/redisparser.h, src/redisblock.cpp) | reply type, partial text, elements | incremental parsing of Redis replies; `makeCommand`, `push`, `clone` | read the connection's receive buffer |

### How they interact

The main thread calls `NetService`. `send` and `kick` find the session in the
pool and end in `Connection::send`, which appends to `m_sendList` under
`m_mutex` and posts `writeMessage`, and in `Connection::close`, which posts
`handleClose`. Every handler of a connection runs on the one io thread of its
`io_service`, one at a time, in the order of the queue. A handler tells the
application what happened by pushing an event to `TcpObj::m_call`; `poll` on the
main thread runs those events, and only there do `m_onlines` and the pool change.
Acceptors and connections get the pool's `io_service`s in turn, so the accept handler
runs beside the main thread and beside the handlers of other connections.

### What is hard

- *Interleaving.* `async_write` reads `m_bufferSend` while `send` goes on;
  `handleClose` tests for unsent data under the mutex and closes after releasing
  it; `acceptSocket` tests `m_stop` and uses `m_current` while `stop()` and `start()` on
  the main thread change both.
- *Order.* Completions that were queued before a close run after it; several
  closes are posted for one loss, and some for a connection that was never made;
  connect and close events of one session can be pushed in unexpected numbers.
- *Unreliable delivery.* TCP cuts the stream anywhere: in a header, in a body, in
  a line of a Redis reply, in an element of a Redis list.
- *Bounds.* A block larger than the send buffer, a frame larger than the receive
  buffer, a buffer that is full when the next read starts.
- *Retry and stop.* A failed connect is retried through the event queue, which
  may be polled after `setStop()`.
- *Lifetime.* Some handlers are bound to a raw `this`.

The `hazards` of PROJECT.json list each of these at its line, with the properties
that would catch it going wrong.

### What makes each part correct

| component | properties |
|---|---|
| `NetBuffer` | it is a queue (`Fifo`), within its allocation (`Bounds`), transfers neither lose, repeat nor reorder a byte (`TransferConserves`) |
| receive path of `Connection` with `NetBlock` | `FramesIntact`, `NothingHeldBack`, `RoomToRead`; it is the stream of frames of FrameStream (`ImplementsFrames`) |
| both ends with `NetBlock` | what one end pushes the other is given (`MessagesDelivered`) |
| `Connection` | `WireInOrder`, `FlushBeforeClose`, `EventOrder`, `HeldUntilClosePolled`, and `EventuallySent`, `KickCloses`, `LossReported`; it is the byte stream of ByteStream (`ImplementsStream`) |
| event queue of `TcpObj` | it is a queue (`ImplementsQueue`, `QueueInv`) and every event is run (`EventsRun`) |
| `TcpServer`, `TcpClient`, `NetService` | `EventsTellState`, `SetStopCloses`, `ClosedIsForgotten`, `KeepsAccepting`; and `RightConnection`, `StopIsFinal` (violated) |
| receive path with `RedisParse` and `RedisBlock` | `RepliesIntact`, `ThrowsOnlyOnUnfit`, `BufferFilled`, `RoomToRead`; and `LengthLine` (violated) |

## 2. Modules

| module | extends | implements | proofs |
|---|---|---|---|
| NetBuffer | | | CommonLemmas |
| NetBufferOps | NetBuffer | | NetBufferOpsProofs |
| NetBlock | NetBuffer | | |
| ConnectionRecv | NetBlock | FrameStream | MessagesProofs |
| Messages | ConnectionRecv | | MessagesProofs |
| Connection | NetBuffer | ByteStream | ConnectionProofs |
| TcpObj | | EventQueue | TcpObjProofs |
| NetService | | | NetServiceProofs |
| RedisParse | | | |
| RedisBlock | RedisParse, NetBuffer | | |
| RedisRecv | RedisBlock | | RedisProofs, RedisRepliesProofs |

All operators are those of a build with `NDEBUG`, in which `MYASSERT` is empty:
that is how the code behaves when it goes on. What an assertion demands is stated
as a property instead.

**NetBuffer.** A buffer is a record of its written bytes, its read position, its
capacity and its lock; each member function is one operator of the same name. A
call that changes two objects (`src.readBuffer(dst)`) is two operators.

**NetBufferOps** drives one buffer, and a second one that it is transferred to, by
any sequence of the public calls, refused calls included. Bytes are their numbers
in the stream, so that a state shows which bytes were lost, repeated or reordered.

**NetBlock** holds `recv`, `recvHead` and `recvBody` as operators on a pair of block
and buffer, and the sender's constructor, `push`, `encrypt` and `clone` as operators
on a block. What a header says is abstracted to its `_len` field; `_mask` and
`_check` are constant in the code and their check is commented out.

**ConnectionRecv** composes the two: `ReadSome` is the completion of
`async_read_some` with a piece of any size, `ReadMessage` one iteration of the loop
of `handleReadSome`, `ReadAgain` the end of that loop. The lengths of the peer's
frames are chosen in the initial state. **FrameStream** is what it promises: bytes
arrive, but only when no complete frame is left behind, and the next frame is
delivered once its last byte is there. The mapping turns the delivered blocks into
the bytes they hold; buffer, block under construction and `pc` are hidden.

**Messages** adds the other end to ConnectionRecv: an application that builds messages
with any calls of `push()` and sends the block (`send(msg)`) or a clone of it
(`send(name, msg)`). The blocks it builds determine the stream and what its headers
say; the steps are those of ConnectionRecv. The session id varies because it is what
the sender's buffer is allocated with.

**Connection** is one connection between the main thread (`Start`, `CloseCurrent`, `Send`,
`Kick`, `Poll`), its io thread, the accept loop and the kernel. A server's connection waits for its
accept as `m_current`: `Accepted` and `AcceptFails` complete it, `AcceptSocket` posts
`handlAccept` or, after a failed accept, a close, `CloseCurrent` is the close that `doStop` posts whatever has become of it, and
`BeginAccept` replaces it. A client's connects with every `start()` and with every restart
event: on a socket that connects or is connected already this fails, on one that was
closed it connects again. `ioQueue` is the queue of its `io_service`. A handler
is one action, unless the main thread can act inside it: `writeMessage` is
`WriteMessage`, `FillSendBuffer` for each block, and `StartWrite`, with `Send`
blocked on `m_mutex` meanwhile; `handleClose` is the test under the mutex and
`CloseSocket` after it. An `async_write` is an operation that copies byte after byte
from where its bytes lie in `m_bufferSend` at that moment, so that an early
compaction would show on the wire. `wire` is what left since the socket was opened, `sent` how many of all bytes have
left. `Freed` says when no owning reference is left. **ByteStream** is what it promises:
accepted bytes leave one by one and in order, and unless something failed before, a
close is begun only when everything accepted so far has left; what is accepted after
that may be lost. A stream that is opened again goes on without a gap: it may repeat bytes of
the last one, because a write that failed is not known to have left. The mapping hides both buffers, `m_sendList`, the queue and the handlers.

**TcpObj** is the event queue at the granularity of its mutex: `push` is the lock and the
`push_back`, `poll` is the lock, the copy, the clear, the events one by one and the
return. The callbacks themselves are in Connection and NetService, where `push` and
the running of an event are one step each; **EventQueue**, a plain queue, is what makes
that sound, and TcpObj implements it (between copy and clear the events lie in both
lists, and the mapping counts them once).

**NetService** is the life of the networks: `add`, `remove`, `start`, `setStop`, `kick`
and `poll`, the accept loop cut at each test of `m_stop`, connection attempts and
retries, and the sessions. `pc` tells where the main thread is inside `start()` or
`setStop()`, so that io threads can interleave: the start of a server is cut after
`m_stop`, after the new acceptor and at `beginAccept`, its stop after `m_stop` and after
the close of the acceptor. `accepts` has every `async_accept` of a server that is outstanding or whose `acceptSocket` is under way,
of earlier starts too. `m_current` is read and written whole (the code's `shared_ptr` is
assigned on several threads without a lock; what a torn pointer does is not modelled). What a connection sends and receives
is left to `Connection`: a close that waits for unsent data is a handler that has not
yet run. `stop(sec)` only polls.

**RedisParse** holds `parse`, `parseType`, `parseBule`, `readLine` and `readLen` as
operators on the members of the parser; a character is a token that keeps what the
parser tells apart (line ends, the type characters, digits with their number, text).
**RedisBlock** is the recv of the older block class, which takes lines and bulks out
of the receive buffer itself, and its `makeRedisBuffer`; what is the same in both
parsers it takes from RedisParse. It also holds `makeCommand`, and the `push` and
`clone` of both classes. **RedisRecv** composes both with the receive buffer,
like ConnectionRecv; `block` is the class that the application's maker makes,
`ParseType`, `ParseBulk`, `ParseElement` and `RecvDone` are RedisBlock2::recv, and `RecvType`,
`RecvBulk`, `RecvElement` and `RecvEnd` are RedisBlock::recv. The server's replies are chosen in the initial state and written down by `encode`; a list
of strings is written by `makeCommand`, `push` and `clone`, so that the parser is also
checked to read what this library writes. Status lines and errors have any length, shorter
than what is cut off and longer than the receive buffer, with the prefix "ERR " and without;
an integer is one that is an int or one that is not, for which `makeRedisBufferThrows`.
`Intact` says what the application may be given for a reply.

`map` in PROJECT.json gives the source lines of every definition. An operator whose
comment starts with "Mutant" is a deliberately wrong form of the one that follows
it; no specification uses it. With it in the place of the right one, TLC finds the
property violated that PROJECT.json names.

## 3. Runs

Deadlock is checked where the system cannot stop (`netbuffer_ops`, `events`). The other
configurations say `CHECK_DEADLOCK FALSE`: the peer's stream, the calls and the
failures are bounded, and a connection that is closed has nothing more to do.

| run | what it asks | bounds | states |
|---|---|---|---|
| `netbuffer_ops` | `Bounds`, `Fifo`, `TransferConserves` for every sequence of calls | capacities 2, calls of up to 2 bytes, 4 bytes appended: full, empty and reallocated buffers, transfers that do not fit and over-reads all occur | 45 thousand |
| `connection_recv` | `FramesIntact`, `NothingHeldBack`, `RoomToRead`, `MessagesDelivered`, `ImplementsFrames` | headers of 2 bytes, a receive buffer of 3, three messages of one or two pushes of 0, 1 or 2 bytes, the first 8 bytes of the stream, session ids 0 and 3: frames without a body, frames larger than the buffer, several frames in a read, cuts anywhere, send buffers that must grow and that need not | 694 thousand |
| `connection` | `WireInOrder`, `EventOrder`, `HeldUntilClosePolled`, `FlushBeforeClose`, `ImplementsStream` | send buffer of 2, blocks of 1 and 2 bytes (one fits beside another, one fits only in part and needs two writes), 3 bytes, two `start()`, one kick or close of `m_current`, one read, one failed connect; server and client: a start while connecting, connected, failed and after a close | 2.5 million |
| `connection_live` | `EventuallySent`, `KickCloses`, `LossReported` under fairness | send buffer of 1, blocks of 1 and 2, 3 bytes, one kick, one failed connect | 34 thousand |
| `connection_close_ends` | "send all data then close" as a progress property | as above | violated, see 5 |
| `service` | `EventsTellState` | one server, one client, three sessions, two starts, one kick, one failure (`setStop` occurs in `service_live` and `service_stop_final`) | 3.0 million |
| `service_right_connection` | what `acceptSocket` takes for granted of `m_current` | one server, two starts, one setStop | violated, see 5 |
| `service_live` | `SetStopCloses`, `ClosedIsForgotten`, `KeepsAccepting` under fairness | one server, two sessions, one of each call, one failure | 93 thousand |
| `events` | `QueueInv`, `ImplementsQueue`, `EventsRun` (under fairness) | two io threads, three events each: pushes before, inside and after every step of `poll` | 3670 |
| `service_stop_final` | what manager.h says of `setStop` | one server, one client | violated, see 5 |
| `redis_recv` | `RepliesIntact`, `ThrowsOnlyOnUnfit`, `BufferFilled`, `RoomToRead` | both block classes, two replies of every kind, lines of up to 3 characters with and without "ERR " (so errors too short for `substr(4)`, and one line longer than the buffer of 8), integers within and beyond an int, bulks of up to 2 characters with line ends among them, lists of up to 2 elements; reads end anywhere but inside an element of a list | 2.3 million |
| `redis_recv_cut` | that a length is read only from a `$` line, with reads that end anywhere | bulks of up to 1 character | violated, see 5 |

The bounds are small because the code is uniform in them: what it does depends on
whether a piece fits, is empty, is complete or is larger than a buffer, and each
of these cases occurs at these sizes. The theorems of section 4 remove the bounds altogether,
for every safety property. Two constants hide behaviour and are
meant to: `CutElements = FALSE` in `redis_recv` (finding 4 below), and
`HeadAfterRead = FALSE`, which says that nobody prepends to a buffer that was partly read;
so it is in the repository, where nothing calls `headData` at all. Connection, which is about one connection, leaves one thing
to NetService: that after a second `start()` of a server its connection may be told of an
accept that was not its own (finding 3).

**Fairness.** `Connection` and `NetService` assume weak fairness of the io threads
(`io_service::run` runs queued handlers as long as there are any), of `poll` (the
program polls for ever, test/test.cpp:116, and `stop()` polls in a loop) and of the
rest of a call that the main thread has begun. In `Connection` the kernel is
assumed to move the bytes of an outstanding write, to complete it, and to complete
operations on a broken socket with an error: this is TCP with a peer that keeps
reading. Nothing is assumed about `send`, `kick`, end of file, resets, accepts or
completed reads. `TcpObj` assumes weak fairness of `poll`'s steps, of a thread that
holds the mutex, and of the main thread taking a mutex that stays free; as the
pushes are bounded this asks no fairness of the mutex between contenders.

## 4. Proofs

Every theorem holds for all values of the constants that satisfy the assumptions below.

| theorem | states |
|---|---|
| `OpsInvariant`, `OpsTypeCorrect`, `OpsBounds`, `OpsFifo` (NetBufferOpsProofs) | the two buffers of NetBufferOps stay within their allocation under any calls; with `~HeadAfterRead` the buffer is a queue |
| `OpsTransferConserves` (NetBufferOpsProofs) | no call of `readBuffer` loses, repeats or reorders a byte |
| `RecvInvariant`, `RecvTypeCorrect`, `RecvFramesIntact`, `RecvNothingHeldBack`, `RecvRoomToRead` (MessagesProofs) | the properties of ConnectionRecv for every header size, receive buffer, stream and frame length |
| `RecvImplementsFrames` (MessagesProofs) | ConnectionRecv implements FrameStream |
| `MessagesAreDelivered` (MessagesProofs) | what one end pushes the other is given, for any number and length of pushes and messages, any session ids, and any cuts |
| `ConnectionTypeCorrect`, `ConnectionEventOrder`, `ConnectionHeld`, `ConnectionWireInOrder`, `ConnectionFlushBeforeClose` (ConnectionProofs) | the safety properties of Connection for every send buffer, block length and number of starts, kicks, reads and failures |
| `ConnectionImplementsStream` (ConnectionProofs) | Connection implements ByteStream |
| `TcpObjQueueInv`, `TcpObjImplementsQueue` (TcpObjProofs) | for every set of io threads and number of events, the invariant of the mutex and the two lists, and that TcpObj implements EventQueue |
| `ServiceTypeCorrect`, `ServiceEventsTellState` (NetServiceProofs) | the safety properties of NetService for any servers, clients, sessions and calls, several starts included |
| `RedisTypeCorrect`, `RedisBufferFilled` (RedisProofs) | both Redis parsers keep their types and never step over what was read, and RedisBlock's buffer is filled exactly, for any replies and cuts, `CutElements = TRUE` included |
| `RedisRepliesIntact`, `RedisThrowsOnlyOnUnfit`, `RedisRoomToRead` (RedisRepliesProofs) | with `CutElements = FALSE`, for any replies and receive buffer, both Redis block classes hand on the server's replies complete, in order, without delay and intact (of an error all but its head); no cut makes them throw, only an error that is too short or an integer that is no int; and only a line that does not fit in the receive buffer can fill it |

CommonLemmas says what each operator of NetBuffer does to the length, the positions and
the bytes of a buffer, and how functions defined by recursion on 0..N behave. The
library's induction theorems take an operator, which the provers cannot instantiate;
here induction is over *sets*, from the well-foundedness of < on Nat (`LeastNatural`,
`IntervalInduction`), and a step function makes recursion definable (`RecursionLemma`).
What is built by repeated concatenation, a stream from its messages or a buffer
from its strings, is then a `Concat` of `Pieces` with known prefixes and positions
(`ConcatLemma`, `ConcatPrefix`, `ConcatPiece`).

*Buffers.* `OpsInv` is the type invariant with both buffers in bounds and peer
unlocked (a transfer into a locked buffer would lose the bytes). For the
queue property, `Fifo` itself completes it: the bytes left to read are the numbers
after `taken` up to `given`. It needs `~HeadAfterRead` because `headData` puts its
bytes at the start of the allocation. `TransferLemma` is the byte-for-byte statement about
`readBuffer` that the action property needs.

*Receive path.* `FramesIntact` speaks only of delivered blocks and is not inductive:
whether the next block is right depends on what the buffer and the block under
construction hold. `RecvInv` adds that the buffer holds the last bytes that arrived
(`BufferInv`), that with no header read yet it starts at the next frame and has
fewer bytes than a header when a read is started (`HeadInv`), and that
a block with a header holds the first bytes of its body, the buffer goes on where
it ends and is empty when a read is started (`BodyInv`). The last conjunct of each
of the two is what `NothingHeldBack` and `RoomToRead` need. The step proof has one
lemma per action; `RecvBodyLemma` and those after it say what `recvBody`,
`recvHead` and `recv` do to block and buffer.

*Refinement of the receive path.* `SameNext` says that both specifications agree on where
the next frame starts. A completed read is an `Arrive` because `RecvInv` implies
`NothingHeldBack` in the state before it (`ReadSomeArrives`). An iteration of the loop that
delivers a block is a `Deliver`: `RecvInv` *after* the step says that the last block is
the frame at the old `NextHead`, and that the buffer now starts at the new one, so all
of the frame had arrived (`ReadMessageDelivers`). Everything else is a stutter.

*Both ends.* The steps of Messages are those of ConnectionRecv, so `RecvInv` holds; `StreamInv`
adds that the stream is what the sender wrote, and does not change. The rest is about
operators: a block holds its header and the numbered bytes of its pushes after every
`push` (`HoldingPush`), `encrypt` writes the length into the header, and a clone holds
the same (`SentEncoded`); `Aligned` shows by induction over the delivered blocks that
frame k begins where message k does, because the header there says how long it is.

*Connection.* The invariant comes in layers, each proved with the ones before.
`TypeInv` has the types and the bounds of the buffers. `ControlInv` says what has been told
and what may be queued. `EventOrder` alone is not inductive, because it says nothing of what
the queued handlers will push. `EventInv` ties it to the state: `m_connect` is what the
application will have been told once every event is polled, and `online` what it was told so far, so a handler that
pushes a connect event needs `~m_connect` and one that pushes a message needs `m_connect`.
The code tests that in `handleConnect` and `handleReadSome`, but not in `handlAccept`; there
`AcceptInv` supplies it: a connection is accepted once at most, and until `handlAccept` runs nothing else
can connect it, because a server's connection never has a `handleConnect`. `HandlerInv` has the kinds of queued
handlers, and that no write is under way before the connect event, which a reconnect relies on. `DataInv` says
where the bytes are: the blocks of `m_sendList` hold the last accepted bytes in order, `m_bufferSend`
the ones before them up to `Front`, an outstanding write owns the front of that buffer
and `m_isSend` is set while it does (`WriteOwnsBuffer`, `WriteQueued`), and what has left ends
between the bytes of that buffer and where it ends on the wire (`WireUpTo`): after a write that failed the buffer may begin with
bytes that had left, so that a reconnect repeats some but skips none. `FlushBeforeClose` and the refinement follow: a byte that leaves is the next of
ByteStream because the write copies from where `WriteOwnsBuffer` says its bytes lie,
and `handleClose` closes a healthy socket only with list and buffer empty.

*Event queue.* `QueueInv` is inductive as it stands. Its core is that the main thread has
the mutex exactly between the lock and the clear, hence `recv = m_call` at the clear:
that makes the copy and the clear stutters of EventQueue, and `PollCopyUnlocks`, where
the guard covers only the copy, breaks it.

*Service.* `TypeOK` is inductive together with `StopsServer`, which says that the main thread is
inside `doStart` or `doStop` only of a server. `EventsTellState` needs `SessionInv`: sessions with numbers beyond those given out
appear in no event, accept or list and have no handler. Nothing in it limits the number of
starts: what `EventsTellState` says holds even of the connection that finding 3 announces wrongly.

*Redis.* `Shape` describes a parse between two steps: which types can be unfinished, that a
finished one has its one string, and that what was collected of a bulk is shorter than
`m_tempMaxLen`, which keeps `need` from going below zero and `erase(m_tempMaxLen - 2)` inside the
string. `Sized` ties `m_recvSize` to what `makeRedisBuffer` would write, for a list
through the function of partial sums `Sums`. `RedisInv` adds where the read position
is at each place of the code. Nothing in it assumes where reads end, so both theorems hold even
with the cuts that finding 4 is about: a list parsed wrongly is still written down exactly.

*Redis replies.* `RepliesIntact` speaks only of delivered replies; whether the next one is
right depends on what the parser has of it. `ReplyInv` says this in terms of the layout
of the stream. `Start` is where a reply begins, `FirstLen` how long its first line is and `Off`
where each element of a list is; all three are functions of partial sums, and
`EncodeAt` and `StreamAt` say that the stream has there what `encode` writes. `PlaceInv`
then says that the receive buffer holds the last characters that arrived, and that the
parser is at a place `c` of the stream where one of four cases of `Parsed` applies: the reply is
`Complete`; or `temp` holds what lies between the beginning of its first line and `c`
(`InFirstLine`); or what lies between the beginning of the one string of a bulk and `c`
(`InString`); or the elements before were parsed and `temp` holds what there is of the
next one's length line (`InLength`). There is no case for the inside of an element of a list:
the parser has no state for it, which is finding 4, and so `SentInv` needs `CutElements = FALSE`.
While a read is outstanding the next reply has not arrived completely, and `StopsAt` holds:
what lies between `c` and the last character that arrived has no line end (`NoEnd`), and in RedisBlock, which takes
all there is into `temp`, it is empty. So the receive buffer of RedisParse holds then at most the
beginning of one line, which is `RoomToRead`. `ThrowStep` is the other end of a step: `lexical_cast` and
`substr` are applied to what `InFirstLine` and `InLength` say is the whole line, which is a number
or has the characters that are cut off, unless the reply is `Unfit`; hence `ThrowsOnlyOnUnfit` is part of `ReplyInv`. The step proof has a lemma for each operator of both parsers (`ParseTypeSeen` to
`RecvElementSeen`), which takes one case of `Parsed` to another, and one for each action.

*Assumptions.* `HeadAssumption` (a header has at least one byte), `RecvAssumption` (the
receive buffer holds a header: 65535 and 12 bytes in the code; frames are at least
as long as a header), `MessagesAssumption` (bounds are naturals), `BufferAssumption` (sizes are naturals), `ConnectionAssumption` (the send buffer
has room for a byte: 65535 in the code; blocks are not empty: a NetBlock holds its header,
`makeCommand` writes at least two lines), `TcpObjAssumption` (the main thread is no io thread),
`ServiceAssumption` (a network is a server or a client), `RedisAssumption` (bounds are naturals; the
length of a bulk with its line end and the number of elements of a list are ints, which
Redis itself guarantees with its limit of 512 MB; integers need not be).
TLC evaluates them in every run.

*Only model-checked.* Liveness and ENABLED are out of the prover's reach: `EventsRun`,
`EventuallySent`, `KickCloses`, `LossReported`, `SetStopCloses`, `ClosedIsForgotten` and `KeepsAccepting` are
checked by TLC alone, and so is what the violated runs show. Every invariant, action property
and refinement that a passing run checks is a theorem.

## 5. Where code and documentation disagree

1. `connection_close_ends`: `handleClose` posts itself again while data is unsent and
   does not look at `m_connect` (src/connection.cpp:54-56). If the connection was lost
   meanwhile nothing sends that data any more: a kick that is still queued posts
   itself for ever. The comment says "send all data  then close". The session is
   taken out of `m_onlines` nevertheless (`LossReported`).
2. `service_stop_final`: a failed connect that was queued around `setStop()` calls
   `start()` after it (src/tcp_object.cpp:116), and the client connects again.
3. `service_right_connection`: `acceptSocket` takes `m_current` for the connection that was
   accepted (src/tcp_object.cpp:66). After `setStop()` and a second `start()` an accept of the first
   start, completed but not yet handled, finds the `m_current` of the second: the application is told of
   a connection that was never made (src/net_type.h:59 says that the event is of one that
   was), and the accepted one is forgotten.
4. `redis_recv_cut`: `parseBule` does not remember that it was inside an element of a
   list (include/redisparser.h:173) and takes the rest of the element for the line
   with its length; RedisBlock::recv does the same (src/redisblock.cpp:281).

Some disagreements show in a single line of the code, and no run is spent on them:

- `recvHead` reads the header whenever the buffer is not empty and relies on a null
  result, while `readData` asserts that the bytes are there (src/net_buffer.cpp:57). A build
  with assertions stops when TCP cuts a header; in a build without them it is
  handled (`connection_recv`).
- include/net_buffer.h:103 says that a locked buffer can only be read; every writer tests
  `m_lock` but `writeData(len)` (src/net_buffer.cpp:50), which makes new bytes readable. No
  caller uses it so: a buffer is locked in a block that is complete (src/block.cpp:82), and only read from then on.
- The comment at include/redisparser.h:125 gives the prefix of an error as "-ERR ", the
  constant at line 26 too: five characters. `substr(4)` cuts off four and leaves the space;
  of an error that begins otherwise, "-WRONGTYPE" for one, four characters are lost.
  src/redisblock.cpp:204 does the same. `RepliesIntact` allows exactly this for an error, and no loss elsewhere.

`NetService::remove` returns false for a network that exists and dereferences the end
iterator for one that does not (src/service.cpp:68 has `!=` for `==`); the action
`Remove` does the same, and no property is spent on the one guard.

Two kinds of replies that Redis may send end the program: an error line with fewer than three
characters after its "-", and, with RedisBlock, an integer that is no int, for which `makeRedisBuffer`
calls `get_int_reply` (src/redisblock.cpp:99). `ThrowsOnlyOnUnfit` says that there are no others; the repository says nothing about them.

## 6. Not modelled

- A `NetBlock` made with size 0 that is then cloned (its `m_data` is null), and one that
  is sent without any `push` (its `_len` stays 0, and the receiver's body length wraps):
  the repository always pushes before it sends.
- A callback that calls `poll()` itself: the events pushed meanwhile would run before
  the rest of the list.
- The timeout of `stop(sec)`: it only decides how often it polls.
- `IoObjectPool::getIoService`: the round robin, and its unlocked counter, a data race
  about which the repository states nothing. `NetService` lets handlers of different
  connections run in any order, which covers every assignment to io threads.
- Destruction of the service, the networks and the pool.
- Malformed headers; empty and nested Redis lists: the repository does not say what should
  happen.
- The data race on `TcpServer::m_current` as such: see NetService in section 2.
- `NetManager` (forwards), configuration types, the test program, build files.
- Host name resolution and the options set on sockets: library calls without
  state.

## 7. Plan

Done: models of all parts of section 1 that have state of their own, with their abstract
specifications; proofs of all safety properties and refinements. What is left are the
liveness properties, which stay with TLC, and the parts of section 6.
