----------------------------- MODULE RedisBlock -----------------------------
(***************************************************************************)
(* RedisBlock (src/redisblock.cpp): the older block class, which parses a  *)
(* reply itself and then writes it down in m_data.  Its members are kept   *)
(* in the record of RedisParse (m_mutSize is multiCount, m_bufSize is      *)
(* tempMaxLen, m_recvList is list, bodyDone() is done); readPos stays 0,   *)
(* because every read is consumed from the receive buffer at once.         *)
(*                                                                         *)
(* The first line of a reply has the effect of RedisParse's parseType, and *)
(* the text of REDIS_MISSING, which differs, is told apart by neither.     *)
(***************************************************************************)
EXTENDS RedisParse, NetBuffer

PodSize == 4   \* sizeof(reply_t) and sizeof(int)

(* The result of a read of n characters; text is there if ok. *)
take(p, buf, n, ok) ==
  LET text == p.temp \o peek(buf, n)
  IN  [ok |-> ok, text |-> text, p |-> [p EXCEPT !.temp = IF ok THEN << >> ELSE text],
       buf |-> clearReadBuffer(readData(buf, n))]

(* readline: what there is of a line that is not complete goes to m_temp. *)
takeLine(p, buf) ==
  LET ok == hasLine(p, unread(buf))
      w  == take(p, buf, IF ok THEN lineLen(p, unread(buf)) ELSE needReadLength(buf), ok)
  IN  [w EXCEPT !.text = rtrim(@)]

(* readLen *)
takeLen(p, buf) ==
  LET n  == need(p, p.tempMaxLen)
      ok == n <= needReadLength(buf)
  IN  take(p, buf, IF ok THEN n ELSE needReadLength(buf), ok)

(* m_recvSize after the first line. *)
lineSize(p) ==
  CASE p.type = "no_reply"                           -> PodSize
    [] p.type \in {"int_reply", "multi_bulk_reply"}  -> 2 * PodSize
    [] p.type \in {"status_code_reply", "error_reply", "bulk_reply"} ->
         PodSize + (IF p.done THEN Len(p.list[1]) ELSE 0)

(* Mutant: the length written in front of an element is not counted. *)
elementSizeBare(text) == Len(text)

(* What an element adds to m_recvSize. *)
elementSize(text) == PodSize + Len(text)

(* recv, once m_type is known, for a bulk reply ... *)
recvBulk(p, buf, size) ==
  LET w    == takeLen(p, buf)
      text == withoutCRLF(p, w.text)
  IN  IF w.ok THEN [p |-> finish(w.p, text), buf |-> w.buf, size |-> size + Len(text)]
      ELSE [p |-> w.p, buf |-> w.buf, size |-> size]

(* ... and one iteration of its loop over the elements of a multi-bulk reply. *)
recvElement(p, buf, size) ==
  LET line == takeLine(p, buf)
      q    == [line.p EXCEPT !.tempMaxLen = IF number(line.text) = -1 THEN 0
                                            ELSE number(line.text) + 2]
      w    == takeLen(q, line.buf)
      Add(r, b, text) == [p |-> element(r, text).p, again |-> element(r, text).again,
                          buf |-> b, size |-> size + elementSize(text)]
      Stop(r, b)      == [p |-> r, again |-> FALSE, buf |-> b, size |-> size]
  IN  CASE ~line.ok -> Stop(line.p, line.buf)
        [] line.ok /\ ~hasNumber(line.text) ->
             Stop([line.p EXCEPT !.tempMaxLen = 0, !.threw = TRUE], line.buf)
        [] line.ok /\ hasNumber(line.text) /\ q.tempMaxLen = 0 -> Add(q, line.buf, REDIS_MISSING)
        [] line.ok /\ hasNumber(line.text) /\ q.tempMaxLen # 0 ->
             IF w.ok THEN Add(w.p, w.buf, withoutCRLF(q, w.text)) ELSE Stop(w.p, w.buf)

(***************************************************************************)
(* makeRedisBuffer: m_data is allocated with m_recvSize and filled with    *)
(* the type and the strings.  The type checks of the get_..._reply calls   *)
(* it makes hold: m_state is set before it wherever it makes one.  But the *)
(* lexical_cast<int> of get_int_reply throws if the number is not an int.  *)
(***************************************************************************)
pod(v) == [i \in 1..PodSize |-> <<"pod", v>>]

(* The number of strings, and the first k of them. *)
strings(list) ==
  LET s[k \in 0..Len(list)] ==
        IF k = 0 THEN pod(Len(list)) ELSE s[k - 1] \o (pod(Len(list[k])) \o list[k])
  IN  s

makeRedisBufferThrows(p) == p.type = "int_reply" /\ ~isInt(p.list[1])

makeRedisBuffer(p, size) ==
  LET content ==
        CASE p.type = "no_reply"         -> << >>
          [] p.type = "int_reply"        -> pod(toInt(p.list[1]))
          [] p.type = "multi_bulk_reply" -> strings(p.list)[Len(p.list)]
          [] OTHER                       -> p.list[1]
  IN  tailData(tailData(NewBuffer(IF size = 0 THEN 1 ELSE size), pod(p.type)), content)
-----------------------------------------------------------------------------
(***************************************************************************)
(* The sending side: RedisCommand::makeCommand, and the push and clone of  *)
(* both block classes, on m_data.  The field in of a character is TRUE     *)
(* inside an element, from the end of its length line on.                  *)
(***************************************************************************)
REDIS_LBR(in) == <<Char("cr", 0, in), Char("lf", 0, FALSE)>>

(* A text as characters. *)
written(text, in) == [i \in 1..Len(text) |-> Char(text[i][1], text[i][2], in)]

lengthLine(first, n) == <<Char(first, 0, FALSE), Char("d", n, FALSE)>> \o REDIS_LBR(FALSE)

bulkText(str) ==
  [lengthLine("$", Len(str)) EXCEPT ![4].in = TRUE]
  \o written(str, TRUE) \o REDIS_LBR(TRUE)

(* Mutant: the command itself is not counted. *)
makeCommandUncounted(cmd, args) ==
  LET text[k \in 0..Len(args)] ==
        IF k = 0 THEN lengthLine("*", Len(args)) \o bulkText(cmd)
        ELSE text[k - 1] \o bulkText(args[k])
  IN  text[Len(args)]

makeCommand(cmd, args) ==
  LET text[k \in 0..Len(args)] ==
        IF k = 0 THEN lengthLine("*", Len(args) + 1) \o bulkText(cmd)
        ELSE text[k - 1] \o bulkText(args[k])
  IN  text[Len(args)]

push(data, bytes) == tailData(data, bytes)
clone(data)       == tailData(NewBuffer(data.maxLen), data.buf)
=============================================================================
