----------------------------- MODULE RedisParse -----------------------------
(***************************************************************************)
(* The incremental parser of Redis replies (include/redisparser.h) as a    *)
(* record and pure operators on it.                                        *)
(*                                                                         *)
(*   type, multiCount, tempMaxLen, temp, list, done   the members m_...    *)
(*   readPos   the reference parameter of parse()                          *)
(*   threw     lexical_cast or substr threw, and nothing catches it        *)
(*                                                                         *)
(* A character is a record [t, n, in]: t tells apart what the parser tells *)
(* apart, a number in decimal is the one character "d" with value n.  The  *)
(* field in is for the environment and not looked at here: a parsed text   *)
(* consists of the pairs <<t, n>>.                                         *)
(***************************************************************************)
EXTENDS Integers, Sequences

CONSTANT INT_MAX  \* the greatest int (2^31 - 1 in the code)

Char(t, n, in) == [t |-> t, n |-> n, in |-> in]

Text(s) == [i \in 1..Len(s) |-> <<s[i].t, s[i].n>>]

REDIS_MISSING == << <<"missing", 0>> >>

NewParse == [type |-> "no_reply", multiCount |-> 0, tempMaxLen |-> 0, temp |-> << >>,
             list |-> << >>, done |-> FALSE, readPos |-> 0, threw |-> FALSE]

getReplyType(str) ==
  IF str = << >> THEN "no_reply"
  ELSE CASE str[1].t = "-" -> "error_reply"
         [] str[1].t = "+" -> "status_code_reply"
         [] str[1].t = "$" -> "bulk_reply"
         [] str[1].t = ":" -> "int_reply"
         [] str[1].t = "*" -> "multi_bulk_reply"
         [] OTHER          -> "no_reply"

(* Mutant: only the line feed is cut off. *)
rtrimLf(str) == IF str # << >> /\ str[Len(str)].t = "lf"
                THEN SubSeq(str, 1, Len(str) - 1) ELSE str

(* rtrim(str, REDIS_LBR) *)
rtrim(str) ==
  LET keep == {i \in 1..Len(str) : str[i].t \notin {"cr", "lf"}}
  IN  IF keep = {} THEN << >>
      ELSE SubSeq(str, 1, CHOOSE i \in keep : \A j \in keep : j <= i)

(* substr(k) *)
from(str, k) == Text(SubSeq(str, k + 1, Len(str)))

(* lexical_cast<int>: it throws if the text is not a number or not an int. *)
isInt(text) ==
  Len(text) = 1 /\ text[1][1] = "d" /\ text[1][2] \in (-INT_MAX - 1)..INT_MAX
toInt(text) == text[1][2]

(* lexical_cast<int>(str.substr(1)) *)
hasNumber(str) == isInt(from(str, 1))
number(str)    == toInt(from(str, 1))

(* The characters from readPos on, of which the parser was given size. *)
rest(p, buf) == SubSeq(buf, p.readPos + 1, Len(buf))

(* readLine finds the end of a line, or leaves everything where it is. *)
hasLine(p, buf) == \E i \in 1..Len(rest(p, buf)) : rest(p, buf)[i].t = "lf"

lineLen(p, buf) ==
  CHOOSE i \in 1..Len(rest(p, buf)) :
    /\ rest(p, buf)[i].t = "lf"
    /\ \A j \in 1..(i - 1) : rest(p, buf)[j].t # "lf"

lineOf(p, buf) == rtrim(p.temp \o SubSeq(rest(p, buf), 1, lineLen(p, buf)))

readLine(p, buf) == [p EXCEPT !.temp = << >>, !.readPos = @ + lineLen(p, buf)]

(* readLen collects len characters in temp; it takes all there are. *)
need(p, len) == len - Len(p.temp)

hasLen(p, buf, len) == rest(p, buf) # << >> /\ need(p, len) <= Len(rest(p, buf))

lenOf(p, buf, len) == p.temp \o SubSeq(rest(p, buf), 1, need(p, len))

(* Mutant: what is collected is not remembered. *)
readLenForgets(p, buf, len) ==
  IF hasLen(p, buf, len) THEN [p EXCEPT !.temp = << >>, !.readPos = @ + need(p, len)]
  ELSE [p EXCEPT !.readPos = @ + Len(rest(p, buf))]

readLen(p, buf, len) ==
  IF hasLen(p, buf, len) THEN [p EXCEPT !.temp = << >>, !.readPos = @ + need(p, len)]
  ELSE [p EXCEPT !.temp = @ \o rest(p, buf), !.readPos = @ + Len(rest(p, buf))]

finish(p, text)  == [p EXCEPT !.list = Append(@, text), !.done = TRUE]

(* parseType, once a line is there; content is that line. *)
parseType(q, content) ==
  LET type == getReplyType(content)
      p    == [q EXCEPT !.type = type]
  IN  CASE type = "no_reply"          -> [p EXCEPT !.done = TRUE]
        [] type = "status_code_reply" -> finish(p, from(content, 1))
        [] type = "error_reply"       -> IF Len(content) < 4 THEN [p EXCEPT !.threw = TRUE]
                                         ELSE finish(p, from(content, 4))
        [] type = "int_reply"         -> finish(p, from(content, 1))
        [] type \in {"bulk_reply", "multi_bulk_reply"} /\ ~hasNumber(content)
                                      -> [p EXCEPT !.threw = TRUE]
        [] type = "bulk_reply" /\ hasNumber(content) ->
             IF number(content) = -1 THEN finish(p, REDIS_MISSING)
             ELSE [p EXCEPT !.tempMaxLen = number(content) + 2]
        [] type = "multi_bulk_reply" /\ hasNumber(content) ->
             IF number(content) = -1 THEN [p EXCEPT !.done = TRUE]
             ELSE [p EXCEPT !.multiCount = number(content)]

(* content.erase(m_tempMaxLen - 2) *)
withoutCRLF(p, str) == Text(SubSeq(str, 1, p.tempMaxLen - 2))

(* parseBule of a bulk reply *)
parseBulk(p, buf) ==
  IF hasLen(p, buf, p.tempMaxLen)
  THEN finish(readLen(p, buf, p.tempMaxLen),
              withoutCRLF(p, lenOf(p, buf, p.tempMaxLen)))
  ELSE readLen(p, buf, p.tempMaxLen)

(***************************************************************************)
(* One iteration of the loop of parseBule over the elements of a           *)
(* multi-bulk reply: again tells whether the loop goes on.                 *)
(***************************************************************************)
element(p, text) ==
  LET list == Append(p.list, text)
  IN  [p |-> [p EXCEPT !.list = list, !.done = (Len(list) = p.multiCount)],
       again |-> Len(list) # p.multiCount]

parseElement(p, buf) ==
  IF ~hasLine(p, buf) THEN [p |-> p, again |-> FALSE]
  ELSE LET content == lineOf(p, buf)
           q == [readLine(p, buf) EXCEPT !.tempMaxLen = 0]
       IN  IF ~hasNumber(content) THEN [p |-> [q EXCEPT !.threw = TRUE], again |-> FALSE]
           ELSE IF number(content) = -1 THEN element(q, REDIS_MISSING)
           ELSE LET r == [q EXCEPT !.tempMaxLen = number(content) + 2]
                IN  IF hasLen(r, buf, r.tempMaxLen)
                    THEN element(readLen(r, buf, r.tempMaxLen),
                                 withoutCRLF(r, lenOf(r, buf, r.tempMaxLen)))
                    ELSE [p |-> readLen(r, buf, r.tempMaxLen), again |-> FALSE]
=============================================================================
