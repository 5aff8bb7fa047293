----------------------------- MODULE RedisRecv ------------------------------
(***************************************************************************)
(* How a connection to a Redis server turns the bytes it reads into        *)
(* replies: async_read_some, handleReadSome (src/connection.cpp) and the   *)
(* recv of the block class that _blockMakerFun makes: RedisBlock2          *)
(* (src/redisblock.h), which calls RedisParse, or RedisBlock.  The server  *)
(* sends any replies of the kinds below; TCP hands them over in pieces.    *)
(***************************************************************************)
EXTENDS RedisBlock

CONSTANTS RecvBufSize,  \* capacity of m_bufferRecv (65535 in the code)
          CutElements,  \* may a read end inside an element of a multi-bulk reply?
          MaxReplies,   \* bound: replies in the stream
          MaxLine,      \* bound: characters in a line, but for its prefix
          MaxPayload,   \* bound: characters in a bulk
          MaxElements   \* bound: bulks in a multi-bulk reply

ASSUME RedisAssumption ==
  /\ RecvBufSize \in Nat /\ CutElements \in BOOLEAN
  /\ MaxReplies \in Nat /\ MaxLine \in Nat /\ MaxPayload \in Nat /\ MaxElements \in Nat
  /\ INT_MAX \in Nat /\ MaxPayload + 2 <= INT_MAX /\ MaxElements <= INT_MAX
-----------------------------------------------------------------------------
(* The server: what it means, and how it is written down. *)

(* A bulk is a string that may hold line ends, or missing. *)
Strings  == UNION {[1..k -> {<<"x", 0>>, <<"lf", 0>>}] : k \in 0..MaxPayload}
Bulks    == Strings \cup {REDIS_MISSING}
Lists    == UNION {[1..k -> Bulks] : k \in 1..MaxElements}
Commands == UNION {[1..k -> Strings] : k \in 1..MaxElements}

(* A status or an error is a line of any length.  Many errors, not all, begin *)
(* with "ERR ".  An integer of Redis has 64 bits, and need not be an int.      *)
Lines    == UNION {[1..k -> {<<"x", 0>>}] : k \in 0..MaxLine}
ERR      == << <<"E", 0>>, <<"R", 0>>, <<"R", 0>>, <<"sp", 0>> >>
Errors   == Lines \cup {ERR \o text : text \in Lines}
Numbers  == {<< <<"d", n>> >> : n \in {-1, INT_MAX, INT_MAX + 1}}

Replies ==
  [type : {"status_code_reply"}, list : [1..1 -> Lines]]
  \cup [type : {"error_reply"}, list : [1..1 -> Errors]]
  \cup [type : {"int_reply"}, list : [1..1 -> Numbers]]
  \cup [type : {"bulk_reply"}, list : [1..1 -> Bulks]]
  \cup [type : {"multi_bulk_reply"}, list : Lists \cup {<< >>}]  \* << >>: a null list

(***************************************************************************)
(* A list of strings is written down as a client writes a command: made by *)
(* makeCommand, pushed to a block of a session with id 1, and cloned as    *)
(* send(name, msg) does.  Elements that makeCommand does not write follow  *)
(* the same form.                                                          *)
(***************************************************************************)
encodeLine(first, text) ==
  <<Char(first, 0, FALSE)>> \o written(text, FALSE) \o REDIS_LBR(FALSE)

encodeBulk(b) == IF b = REDIS_MISSING THEN lengthLine("$", -1) ELSE bulkText(b)

encodeCommand(list) == clone(push(NewBuffer(1), makeCommand(Head(list), Tail(list)))).buf

encode(r) ==
  CASE r.type = "status_code_reply" -> encodeLine("+", r.list[1])
    [] r.type = "error_reply"       -> encodeLine("-", r.list[1])
    [] r.type = "int_reply"         -> encodeLine(":", r.list[1])
    [] r.type = "bulk_reply"        ->
         LET text == encodeBulk(r.list[1])
         IN  [i \in 1..Len(text) |-> [text[i] EXCEPT !.in = FALSE]]
    [] r.type = "multi_bulk_reply" /\ r.list = << >>    -> lengthLine("*", -1)
    [] r.type = "multi_bulk_reply" /\ r.list \in Commands -> encodeCommand(r.list)
    [] r.type = "multi_bulk_reply" /\ r.list \notin Commands \cup {<< >>} ->
         LET elems[k \in 0..Len(r.list)] ==
               IF k = 0 THEN lengthLine("*", Len(r.list))
               ELSE elems[k - 1] \o encodeBulk(r.list[k])
         IN  elems[Len(r.list)]
-----------------------------------------------------------------------------
VARIABLES
  replies,       \* what the server answers
  stream,        \* the same, written down
  arrived,       \* characters read from the socket so far
  block,         \* the class of the blocks, the same for all
  m_bufferRecv,
  m_parse,       \* of m_waitMessage; nullptr is a NewParse
  m_recvSize,    \* of m_waitMessage, if it is a RedisBlock
  pc,            \* "read": in async_read_some; otherwise inside handleReadSome
  delivered      \* type, strings and m_data of the blocks given to _eventPostRecv

serverVars == <<replies, stream, arrived, block>>
vars == <<serverVars, m_bufferRecv, m_parse, m_recvSize, pc, delivered>>

(* The characters of the first k replies. *)
sent(rs) ==
  LET w[k \in 0..Len(rs)] == IF k = 0 THEN << >> ELSE w[k - 1] \o encode(rs[k])
  IN  w

Init ==
  /\ replies \in [1..MaxReplies -> Replies]
  /\ stream = sent(replies)[MaxReplies]
  /\ arrived = 0
  /\ block \in {"RedisBlock", "RedisBlock2"}
  /\ m_bufferRecv = NewBuffer(RecvBufSize)
  /\ m_parse = NewParse
  /\ m_recvSize = 0
  /\ pc = "read"
  /\ delivered = << >>

(* Into a full buffer nothing is read: handleReadSome is called with no bytes, *)
(* finds what it found before and reads again.                                 *)
ReadSome ==
  /\ pc = "read"
  /\ \E n \in 1..(m_bufferRecv.maxLen - length(m_bufferRecv)) :
       /\ arrived + n <= Len(stream)
       /\ CutElements \/ ~stream[arrived + n].in
       /\ m_bufferRecv' = writeData(m_bufferRecv, SubSeq(stream, arrived + 1, arrived + n))
       /\ arrived' = arrived + n
  /\ pc' = "recv"
  /\ UNCHANGED <<replies, stream, block, m_parse, m_recvSize, delivered>>

(* recv is called and finds a block that has no type yet. *)
AtType ==
  /\ pc = "recv" /\ hasWrite(m_bufferRecv)
  /\ m_parse.type = "no_reply"

(* recv goes on with the body of a reply of this type. *)
InBody(type) ==
  /\ \/ pc = "recv" /\ hasWrite(m_bufferRecv)
     \/ pc = "body"
  /\ m_parse.type = type

(* Where recv goes after the first line. *)
AfterType(p) == IF p.threw THEN "terminate" ELSE IF p.done THEN "end" ELSE "body"
AfterElement(e) == IF e.p.threw THEN "terminate" ELSE IF e.again THEN "body" ELSE "end"

(* RedisBlock2: parse(), and the end of recv. *)
ParseType ==
  /\ block = "RedisBlock2" /\ AtType
  /\ LET buf == unread(m_bufferRecv)
         p   == parseType(readLine(m_parse, buf), lineOf(m_parse, buf))
     IN  \/ /\ ~hasLine(m_parse, buf)
            /\ pc' = "end"
            /\ UNCHANGED m_parse
         \/ /\ hasLine(m_parse, buf)
            /\ m_parse' = p
            /\ pc' = AfterType(p)
  /\ UNCHANGED <<serverVars, m_bufferRecv, m_recvSize, delivered>>

ParseBulk ==
  /\ block = "RedisBlock2" /\ InBody("bulk_reply")
  /\ m_parse' = parseBulk(m_parse, unread(m_bufferRecv))
  /\ pc' = "end"
  /\ UNCHANGED <<serverVars, m_bufferRecv, m_recvSize, delivered>>

ParseElement ==
  /\ block = "RedisBlock2" /\ InBody("multi_bulk_reply")
  /\ LET e == parseElement(m_parse, unread(m_bufferRecv)) IN
       /\ m_parse' = e.p
       /\ pc' = AfterElement(e)
  /\ UNCHANGED <<serverVars, m_bufferRecv, m_recvSize, delivered>>

Delivery(data) == [type |-> m_parse.type, list |-> m_parse.list, data |-> data]

(* Mutant: what was parsed stays in the buffer. *)
RecvDoneUncleared ==
  /\ block = "RedisBlock2" /\ pc = "end"
  /\ m_bufferRecv' = readData(m_bufferRecv, m_parse.readPos)
  /\ IF m_parse.done
     THEN /\ delivered' = Append(delivered, Delivery(NewBuffer(0)))
          /\ m_parse' = NewParse
          /\ pc' = "recv"
     ELSE /\ m_parse' = [m_parse EXCEPT !.readPos = 0]
          /\ pc' = "read"
          /\ UNCHANGED delivered
  /\ UNCHANGED <<serverVars, m_recvSize>>

(* Mutant: the read position of the last call is kept. *)
RecvDoneUnreset ==
  /\ block = "RedisBlock2" /\ pc = "end"
  /\ m_bufferRecv' = clearReadBuffer(readData(m_bufferRecv, m_parse.readPos))
  /\ IF m_parse.done
     THEN /\ delivered' = Append(delivered, Delivery(NewBuffer(0)))
          /\ m_parse' = NewParse
          /\ pc' = "recv"
     ELSE /\ pc' = "read"
          /\ UNCHANGED <<m_parse, delivered>>
  /\ UNCHANGED <<serverVars, m_recvSize>>

(* The end of RedisBlock2::recv, and what handleReadSome does with the block. *)
RecvDone ==
  /\ block = "RedisBlock2" /\ pc = "end"
  /\ m_bufferRecv' = clearReadBuffer(readData(m_bufferRecv, m_parse.readPos))
  /\ \/ /\ m_parse.done
        /\ delivered' = Append(delivered, Delivery(NewBuffer(0)))
        /\ m_parse' = NewParse
        /\ pc' = "recv"
     \/ /\ ~m_parse.done
        /\ m_parse' = [m_parse EXCEPT !.readPos = 0]
        /\ pc' = "read"
        /\ UNCHANGED delivered
  /\ UNCHANGED <<serverVars, m_recvSize>>

(* RedisBlock::recv *)
RecvType ==
  /\ block = "RedisBlock" /\ AtType
  /\ LET w == takeLine(m_parse, m_bufferRecv)
         p == parseType(w.p, w.text)
     IN  /\ m_bufferRecv' = w.buf
         /\ \/ /\ ~w.ok
               /\ m_parse' = w.p
               /\ pc' = "end"
               /\ UNCHANGED m_recvSize
            \/ /\ w.ok
               /\ m_parse' = p
               /\ m_recvSize' = lineSize(p)
               /\ pc' = AfterType(p)
  /\ UNCHANGED <<serverVars, delivered>>

RecvBulk ==
  /\ block = "RedisBlock" /\ InBody("bulk_reply")
  /\ LET w == recvBulk(m_parse, m_bufferRecv, m_recvSize) IN
       /\ m_parse' = w.p
       /\ m_bufferRecv' = w.buf
       /\ m_recvSize' = w.size
  /\ pc' = "end"
  /\ UNCHANGED <<serverVars, delivered>>

RecvElement ==
  /\ block = "RedisBlock" /\ InBody("multi_bulk_reply")
  /\ LET e == recvElement(m_parse, m_bufferRecv, m_recvSize) IN
       /\ m_parse' = e.p
       /\ m_bufferRecv' = e.buf
       /\ m_recvSize' = e.size
       /\ pc' = AfterElement(e)
  /\ UNCHANGED <<serverVars, delivered>>

(* The end of RedisBlock::recv, makeRedisBuffer included. *)
RecvEnd ==
  /\ block = "RedisBlock" /\ pc = "end"
  /\ \/ /\ m_parse.done /\ makeRedisBufferThrows(m_parse)
        /\ pc' = "terminate"
        /\ UNCHANGED <<m_parse, m_recvSize, delivered>>
     \/ /\ m_parse.done /\ ~makeRedisBufferThrows(m_parse)
        /\ delivered' = Append(delivered, Delivery(makeRedisBuffer(m_parse, m_recvSize)))
        /\ m_parse' = NewParse
        /\ m_recvSize' = 0
        /\ pc' = "recv"
     \/ /\ ~m_parse.done
        /\ pc' = "read"
        /\ UNCHANGED <<m_parse, m_recvSize, delivered>>
  /\ UNCHANGED <<serverVars, m_bufferRecv>>

(* The buffer is empty: the loop of handleReadSome ends. *)
ReadAgain ==
  /\ pc = "recv" /\ ~hasWrite(m_bufferRecv)
  /\ pc' = "read"
  /\ UNCHANGED <<serverVars, m_bufferRecv, m_parse, m_recvSize, delivered>>

Next ==
  \/ ReadSome
  \/ ParseType \/ ParseBulk \/ ParseElement \/ RecvDone
  \/ RecvType \/ RecvBulk \/ RecvElement \/ RecvEnd
  \/ ReadAgain

Spec == Init /\ [][Next]_vars
-----------------------------------------------------------------------------
Chars == [t : {"-", "+", "$", ":", "*", "d", "x", "E", "R", "sp", "cr", "lf"},
          n : Int, in : BOOLEAN]

(* Types. *)
TypeOK ==
  /\ arrived \in 0..Len(stream)
  /\ m_bufferRecv \in Buffer(Chars)
  /\ block \in {"RedisBlock", "RedisBlock2"}
  /\ m_recvSize \in Nat
  /\ m_parse.readPos \in 0..length(m_bufferRecv)
  /\ m_parse.multiCount \in Nat /\ m_parse.tempMaxLen \in Nat
  /\ m_parse.temp \in Seq(Chars)
  /\ pc \in {"read", "recv", "body", "end", "terminate"}

(* What the application may be given for a reply: its strings, but of an     *)
(* error only the end, the four characters of "ERR " or fewer being cut off. *)
Intact(list, r) ==
  \/ r.type # "error_reply" /\ list = r.list
  \/ /\ r.type = "error_reply"
     /\ \E k \in 0..4 : list = << SubSeq(r.list[1], k + 1, Len(r.list[1])) >>

(***************************************************************************)
(* The application is given the server's replies, complete, in order and   *)
(* intact (makeCommand's lists come back as the command and its            *)
(* arguments), and given each of them as soon as its last character was    *)
(* read: when handleReadSome waits for more, what was delivered are the    *)
(* replies that have arrived, no fewer and no more.                        *)
(***************************************************************************)
RepliesIntact ==
  /\ \A k \in 1..Len(delivered) :
       /\ delivered[k].type = replies[k].type
       /\ Intact(delivered[k].list, replies[k])
  /\ pc = "read" =>
       \A k \in 1..MaxReplies :
         k <= Len(delivered) <=> Len(sent(replies)[k]) <= arrived

(***************************************************************************)
(* No cut makes the parser throw, which would end the io thread and with   *)
(* it the program.  What does are two kinds of replies, once they have     *)
(* arrived: an error line with fewer characters than substr(4) cuts off,   *)
(* and, for RedisBlock, an integer that is not an int.                     *)
(***************************************************************************)
Unfit(r) ==
  \/ r.type = "error_reply" /\ Len(r.list[1]) < 3
  \/ block = "RedisBlock" /\ r.type = "int_reply" /\ toInt(r.list[1]) > INT_MAX

ThrowsOnlyOnUnfit ==
  pc = "terminate" =>
    \E k \in 1..MaxReplies : /\ k = Len(delivered) + 1 /\ Unfit(replies[k])
                            /\ Len(sent(replies)[k]) <= arrived

(***************************************************************************)
(* RedisBlock adds up m_recvSize line by line and element by element, over *)
(* several calls of recv if need be; makeRedisBuffer fills the allocation  *)
(* of that size exactly.                                                   *)
(***************************************************************************)
BufferFilled ==
  block = "RedisBlock" =>
    \A k \in 1..Len(delivered) :
      length(delivered[k].data) = delivered[k].data.maxLen

(***************************************************************************)
(* The buffer is full when the next read starts, so that nothing can be    *)
(* read any more, only if RedisParse waits for the end of a line that does *)
(* not fit in it: no reply, however long, and no number of replies fills   *)
(* it otherwise.                                                           *)
(***************************************************************************)
RoomToRead ==
  pc = "read" /\ isFull(m_bufferRecv) =>
    /\ block = "RedisBlock2"
    /\ \A i \in 1..Len(unread(m_bufferRecv)) : unread(m_bufferRecv)[i].t # "lf"
    /\ Len(unread(m_bufferRecv)) = RecvBufSize

(***************************************************************************)
(* redisparser.h:175 says of the line from which the length of an element  *)
(* is taken that its first character is "$".                               *)
(***************************************************************************)
LengthLine ==
  InBody("multi_bulk_reply") /\ hasLine(m_parse, unread(m_bufferRecv))
    => getReplyType(lineOf(m_parse, unread(m_bufferRecv))) = "bulk_reply"
=============================================================================
