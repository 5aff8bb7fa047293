------------------------- MODULE RedisRepliesProofs -------------------------
(***************************************************************************)
(* Proofs about RedisRecv, where no read ends inside an element of a list: *)
(* the replies are handed on intact, for any replies, receive buffer and   *)
(* way of cutting the stream.                                              *)
(*                                                                         *)
(* ReplyInv says where in the layout of the next reply the parser stands,  *)
(* and that what it holds of that reply is what stands before that place.  *)
(***************************************************************************)
EXTENDS RedisProofs

-----------------------------------------------------------------------------
(***************************************************************************)
(* Where the characters of a reply are: how encode lays a reply out, for a *)
(* reply that lies in s after position a.                                  *)
(***************************************************************************)

(* s holds q after position a, and: but for the field in. *)
Copies(q, s, a)  == \A i \in 1..Len(q) : s[a + i] = q[i]
Matches(q, s, a) == \A i \in 1..Len(q) : s[a + i].t = q[i].t /\ s[a + i].n = q[i].n

(* A line of n characters, its end included. *)
IsLine(s, a, n) ==
  /\ \A i \in 1..(n - 2) : s[a + i].t \notin {"cr", "lf"}
  /\ s[a + (n - 1)].t = "cr" /\ s[a + n].t = "lf"

NumberLine(s, a, first, n) ==
  /\ IsLine(s, a, 4) /\ n \in (-INT_MAX - 1)..INT_MAX
  /\ s[a + 1].t = first /\ s[a + 2].t = "d" /\ s[a + 2].n = n

BulkLen(b) == IF b = REDIS_MISSING THEN 4 ELSE Len(b) + 6

BulkAt(s, a, b) ==
  /\ NumberLine(s, a, "$", IF b = REDIS_MISSING THEN -1 ELSE Len(b))
  /\ b # REDIS_MISSING =>
       \A i \in 1..Len(b) : s[a + (4 + i)].t = b[i][1] /\ s[a + (4 + i)].n = b[i][2]

(* The characters of a bulk after which no read ends. *)
Inside(s, a, b) == b # REDIS_MISSING => \A i \in 4..(Len(b) + 5) : s[a + i].in

(* The four characters of a line with a number. *)
LEMMA LengthLineChars ==
  ASSUME NEW first \in {"$", "*"}, NEW n \in Int, n >= -1
  PROVE  LET l == lengthLine(first, n) IN
         /\ l \in Seq(ReplyChars) /\ Len(l) = 4
         /\ l[1] = Char(first, 0, FALSE) /\ l[2] = Char("d", n, FALSE)
         /\ l[3] = Char("cr", 0, FALSE) /\ l[4] = Char("lf", 0, FALSE)
<1> DEFINE a == Char(first, 0, FALSE)
           b == Char("d", n, FALSE)
           c == Char("cr", 0, FALSE)
           d == Char("lf", 0, FALSE)
           l == lengthLine(first, n)
<1>1. l = <<a, b>> \o <<c, d>> BY DEF lengthLine, REDIS_LBR
<1>2. l \in Seq(ReplyChars) /\ Len(l) = 4 BY LengthLineType
<1> HIDE DEF a, b, c, d
<1>3. LET m == <<a, b>> \o <<c, d>> IN m[1] = a /\ m[2] = b /\ m[3] = c /\ m[4] = d
  OBVIOUS
<1> HIDE DEF l
<1>4. l[1] = a /\ l[2] = b /\ l[3] = c /\ l[4] = d BY <1>1, <1>3
<1> QED BY <1>2, <1>4 DEF a, b, c, d, l

(* A string of a reply. *)
LEMMA StringType ==
  ASSUME NEW str \in Strings
  PROVE  /\ str \in Seq(Wire) /\ Len(str) \in Nat /\ Len(str) <= INT_MAX
         /\ str # REDIS_MISSING
         /\ \A i \in 1..Len(str) : str[i] \in {<<"x", 0>>, <<"lf", 0>>}
<1>1. /\ str \in Seq(Wire) /\ Len(str) \in Nat /\ Len(str) <= MaxPayload
      /\ \A i \in 1..Len(str) : str[i] \in {<<"x", 0>>, <<"lf", 0>>}
  BY StringsType
<1>2. Len(str) <= INT_MAX BY <1>1, RedisAssumption
<1>3. str # REDIS_MISSING
  <2> SUFFICES ASSUME str = REDIS_MISSING PROVE FALSE OBVIOUS
  <2>1. Len(str) = 1 /\ str[1] = <<"missing", 0>> BY DEF REDIS_MISSING
  <2>2. str[1] \in {<<"x", 0>>, <<"lf", 0>>} BY <1>1, <2>1
  <2> QED BY <2>1, <2>2
<1> QED BY <1>1, <1>2, <1>3

(* The characters of a bulk. *)
LEMMA BulkTextChars ==
  ASSUME NEW str \in Strings
  PROVE  LET t == bulkText(str) IN
         /\ Len(t) = Len(str) + 6
         /\ t[1] = Char("$", 0, FALSE) /\ t[2] = Char("d", Len(str), FALSE)
         /\ t[3] = Char("cr", 0, FALSE) /\ t[4].t = "lf" /\ t[4].in
         /\ \A i \in 1..Len(str) : t[4 + i] = Char(str[i][1], str[i][2], TRUE)
         /\ t[Len(str) + 5] = Char("cr", 0, TRUE)
         /\ t[Len(str) + 6] = Char("lf", 0, FALSE)
<1> DEFINE n == Len(str)
           l == lengthLine("$", n)
           a == [l EXCEPT ![4].in = TRUE]
           b == written(str, TRUE)
           c == REDIS_LBR(TRUE)
           t == bulkText(str)
<1>1. str \in Seq(Wire) /\ n \in Nat BY StringType
<1>2. t = (a \o b) \o c BY DEF bulkText
<1>3. /\ l \in Seq(ReplyChars) /\ Len(l) = 4
      /\ l[1] = Char("$", 0, FALSE) /\ l[2] = Char("d", n, FALSE)
      /\ l[3] = Char("cr", 0, FALSE) /\ l[4] = Char("lf", 0, FALSE)
  <2>1. n \in Int /\ n >= -1 BY <1>1
  <2> HIDE DEF n
  <2> QED BY <2>1, LengthLineChars
<1>4. /\ a \in Seq(ReplyChars) /\ Len(a) = 4
      /\ a[1] = Char("$", 0, FALSE) /\ a[2] = Char("d", n, FALSE)
      /\ a[3] = Char("cr", 0, FALSE) /\ a[4].t = "lf" /\ a[4].in
  <2> HIDE DEF l
  <2>1. l \in [1..4 -> ReplyChars] BY <1>3, LenProperties
  <2> DEFINE e == [l[4] EXCEPT !.in = TRUE]
  <2>2. l[4] \in ReplyChars /\ l[4].t = "lf"
    <3>1. 4 \in 1..4 OBVIOUS
    <3>2. l[4] \in ReplyChars BY <2>1, <3>1
    <3>3. Char("lf", 0, FALSE).t = "lf" BY DEF Char
    <3> QED BY <1>3, <3>2, <3>3
  <2>3. e \in ReplyChars /\ e.t = "lf" /\ e.in
    <3> DEFINE x == l[4]
    <3> HIDE DEF x
    <3>1. \A y \in ReplyChars : /\ [y EXCEPT !.in = TRUE] \in ReplyChars
                               /\ [y EXCEPT !.in = TRUE].t = y.t
                               /\ [y EXCEPT !.in = TRUE].in
      BY DEF ReplyChars, Chars
    <3>2. x \in ReplyChars /\ x.t = "lf" BY <2>2 DEF x
    <3>3. e = [x EXCEPT !.in = TRUE] BY DEF x
    <3> HIDE DEF e
    <3> QED BY <3>1, <3>2, <3>3
  <2>4. a = [l EXCEPT ![4] = e] OBVIOUS
  <2> HIDE DEF e, a
  <2>5. a \in [1..4 -> ReplyChars] BY <2>1, <2>3, <2>4
  <2>6. a[1] = l[1] /\ a[2] = l[2] /\ a[3] = l[3] /\ a[4] = e BY <2>1, <2>4
  <2>7. 4 \in Nat OBVIOUS
  <2>8. a \in Seq(ReplyChars) BY <2>5, <2>7, SeqDef
  <2>9. Len(a) = 4 BY <2>5, <2>8, LenProperties
  <2> QED BY <1>3, <2>3, <2>6, <2>8, <2>9
<1>5. /\ b \in Seq(ReplyChars) /\ Len(b) = n
      /\ \A i \in 1..n : b[i] = Char(str[i][1], str[i][2], TRUE)
  <2>1. \A i \in 1..n : b[i] = Char(str[i][1], str[i][2], TRUE) BY DEF written
  <2> QED BY <1>1, <2>1, WrittenType
<1>6. /\ c \in Seq(ReplyChars) /\ Len(c) = 2
      /\ c[1] = Char("cr", 0, TRUE) /\ c[2] = Char("lf", 0, FALSE)
  <2>1. c[1] = Char("cr", 0, TRUE) /\ c[2] = Char("lf", 0, FALSE) BY DEF REDIS_LBR
  <2> QED BY <2>1, LineEndType
<1> HIDE DEF a, b, c, n, t
<1> DEFINE u == a \o b
<1>7. /\ u \in Seq(ReplyChars) /\ Len(u) = 4 + n
      /\ \A i \in 1..(4 + n) : u[i] = IF i <= 4 THEN a[i] ELSE b[i - 4]
  <2>1. /\ u \in Seq(ReplyChars) /\ Len(u) = Len(a) + Len(b)
        /\ \A i \in 1..(Len(a) + Len(b)) : u[i] = IF i <= Len(a) THEN a[i] ELSE b[i - Len(a)]
    <3>1. a \in Seq(ReplyChars) /\ b \in Seq(ReplyChars) BY <1>4, <1>5
    <3> QED BY <3>1, ConcatProperties
  <2>2. Len(a) = 4 /\ Len(b) = n BY <1>4, <1>5
  <2> HIDE DEF u
  <2> QED BY <2>1, <2>2, Zenon
<1> HIDE DEF u
<1>8. /\ Len(t) = (4 + n) + 2
      /\ \A i \in 1..((4 + n) + 2) : t[i] = IF i <= 4 + n THEN u[i] ELSE c[i - (4 + n)]
  <2> DEFINE v == u \o c
  <2>1. /\ Len(v) = Len(u) + Len(c)
        /\ \A i \in 1..(Len(u) + Len(c)) : v[i] = IF i <= Len(u) THEN u[i] ELSE c[i - Len(u)]
    BY <1>6, <1>7, ConcatProperties
  <2>2. Len(u) = 4 + n /\ Len(c) = 2 /\ t = v BY <1>2, <1>6, <1>7 DEF u
  <2> HIDE DEF v
  <2> QED BY <2>1, <2>2, Zenon
<1>9. \A i \in 1..4 : t[i] = a[i]
  <2>1. \A i \in 1..4 : i \in 1..(4 + n) /\ i \in 1..((4 + n) + 2) /\ i <= 4 /\ i <= 4 + n BY <1>1
  <2> QED BY <1>7, <1>8, <2>1
<1>10. \A i \in 1..n : t[4 + i] = b[i]
  <2>1. \A i \in 1..n : /\ 4 + i \in 1..(4 + n) /\ 4 + i \in 1..((4 + n) + 2)
                        /\ ~(4 + i <= 4) /\ 4 + i <= 4 + n /\ (4 + i) - 4 = i
    BY <1>1
  <2> QED BY <1>7, <1>8, <2>1
<1>11. t[n + 5] = c[1] /\ t[n + 6] = c[2]
  <2>1. /\ n + 5 \in 1..((4 + n) + 2) /\ ~(n + 5 <= 4 + n) /\ (n + 5) - (4 + n) = 1
        /\ n + 6 \in 1..((4 + n) + 2) /\ ~(n + 6 <= 4 + n) /\ (n + 6) - (4 + n) = 2
    BY <1>1
  <2> QED BY <1>8, <2>1
<1>12. Len(t) = n + 6 BY <1>1, <1>8
<1>13. 1 \in 1..4 /\ 2 \in 1..4 /\ 3 \in 1..4 /\ 4 \in 1..4 OBVIOUS
<1> QED BY <1>4, <1>5, <1>6, <1>9, <1>10, <1>11, <1>12, <1>13 DEF n, t

(* A line with a number, wherever it is written. *)
LEMMA NumberLineLemma ==
  ASSUME NEW s, NEW a \in Nat, NEW first \in {"$", "*"},
         NEW n \in (-INT_MAX - 1)..INT_MAX,
         s[a + 1].t = first, s[a + 2].t = "d", s[a + 2].n = n,
         s[a + 3].t = "cr", s[a + 4].t = "lf"
  PROVE  NumberLine(s, a, first, n)
<1>1. \A i \in 1..(4 - 2) : i = 1 \/ i = 2 OBVIOUS
<1>2. \A i \in 1..(4 - 2) : s[a + i].t \notin {"cr", "lf"} BY <1>1
<1>3. a + (4 - 1) = a + 3 OBVIOUS
<1>4. IsLine(s, a, 4) BY <1>2, <1>3 DEF IsLine
<1> QED BY <1>4 DEF NumberLine

(* Where the parts of a bulk are. *)
LEMMA EncodeBulkAt ==
  ASSUME NEW s, NEW a \in Nat, NEW b \in Bulks
  PROVE  /\ encodeBulk(b) \in Seq(ReplyChars) /\ Len(encodeBulk(b)) = BulkLen(b)
         /\ BulkLen(b) \in Nat /\ BulkLen(b) >= 4
         /\ Matches(encodeBulk(b), s, a) => BulkAt(s, a, b)
         /\ Copies(encodeBulk(b), s, a) => Inside(s, a, b)
<1> DEFINE t == encodeBulk(b)
<1>1. t \in Seq(ReplyChars) BY EncodeBulkType
<1>2. CASE b = REDIS_MISSING
  <2>1. t = lengthLine("$", -1) BY <1>2 DEF encodeBulk
  <2> DEFINE l == lengthLine("$", -1)
  <2>2. /\ Len(l) = 4
        /\ l[1] = Char("$", 0, FALSE) /\ l[2] = Char("d", -1, FALSE)
        /\ l[3] = Char("cr", 0, FALSE) /\ l[4] = Char("lf", 0, FALSE)
    <3>1. -1 \in Int /\ -1 >= -1 OBVIOUS
    <3> QED BY <3>1, LengthLineChars
  <2> HIDE DEF l, t
  <2>3. /\ Len(t) = 4
        /\ t[1].t = "$" /\ t[2].t = "d" /\ t[2].n = -1 /\ t[3].t = "cr" /\ t[4].t = "lf"
    BY <2>1, <2>2 DEF Char, l
  <2>4. ASSUME Matches(t, s, a) PROVE BulkAt(s, a, b)
    <3>1. 1 \in 1..Len(t) /\ 2 \in 1..Len(t) /\ 3 \in 1..Len(t) /\ 4 \in 1..Len(t) BY <2>3
    <3>2. /\ s[a + 1].t = "$" /\ s[a + 2].t = "d" /\ s[a + 2].n = -1
          /\ s[a + 3].t = "cr" /\ s[a + 4].t = "lf"
      BY <2>3, <2>4, <3>1 DEF Matches
    <3>3. -1 \in (-INT_MAX - 1)..INT_MAX BY RedisAssumption
    <3>4. NumberLine(s, a, "$", -1) BY <3>2, <3>3, NumberLineLemma
    <3> QED BY <1>2, <3>4 DEF BulkAt
  <2> QED BY <1>1, <1>2, <2>3, <2>4 DEF t, BulkLen, Inside
<1>3. CASE b # REDIS_MISSING
  <2>1. t = bulkText(b) /\ b \in Strings BY <1>3 DEF encodeBulk, Bulks
  <2> DEFINE n == Len(b)
  <2>2. n \in Nat /\ n <= INT_MAX BY <2>1, StringType
  <2>3. /\ Len(t) = n + 6
        /\ t[1] = Char("$", 0, FALSE) /\ t[2] = Char("d", n, FALSE)
        /\ t[3] = Char("cr", 0, FALSE) /\ t[4].t = "lf" /\ t[4].in
        /\ \A i \in 1..n : t[4 + i] = Char(b[i][1], b[i][2], TRUE)
        /\ t[n + 5] = Char("cr", 0, TRUE)
    BY <2>1, BulkTextChars
  <2> HIDE DEF t, n
  <2>4. ASSUME Matches(t, s, a) PROVE BulkAt(s, a, b)
    <3>1. 1 \in 1..Len(t) /\ 2 \in 1..Len(t) /\ 3 \in 1..Len(t) /\ 4 \in 1..Len(t)
      BY <2>2, <2>3
    <3>2. /\ s[a + 1].t = "$" /\ s[a + 2].t = "d" /\ s[a + 2].n = n
          /\ s[a + 3].t = "cr" /\ s[a + 4].t = "lf"
      BY <2>3, <2>4, <3>1 DEF Matches, Char
    <3>3. NumberLine(s, a, "$", n)
      <4>1. n \in (-INT_MAX - 1)..INT_MAX BY <2>2, RedisAssumption
      <4> QED BY <3>2, <4>1, NumberLineLemma
    <3>4. ASSUME NEW i \in 1..n
          PROVE  s[a + (4 + i)].t = b[i][1] /\ s[a + (4 + i)].n = b[i][2]
      <4>1. 4 + i \in 1..Len(t) BY <2>2, <2>3
      <4>2. t[4 + i] = [t |-> b[i][1], n |-> b[i][2], in |-> TRUE] BY <2>3 DEF Char
      <4>3. t[4 + i].t = b[i][1] /\ t[4 + i].n = b[i][2] BY <4>2
      <4> QED BY <2>4, <4>1, <4>3 DEF Matches
    <3> QED BY <1>3, <3>3, <3>4 DEF BulkAt, n
  <2>5. ASSUME Copies(t, s, a) PROVE Inside(s, a, b)
    <3> SUFFICES ASSUME NEW i \in 4..(n + 5) PROVE s[a + i].in BY DEF Inside, n
    <3>1. i \in 1..Len(t) BY <2>2, <2>3
    <3>2. t[i].in
      <4>1. CASE i = 4 BY <2>3, <4>1 DEF Char
      <4>2. CASE i = n + 5 BY <2>3, <4>2 DEF Char
      <4>3. CASE i # 4 /\ i # n + 5
        <5> DEFINE j == i - 4
        <5>1. j \in 1..n /\ 4 + j = i BY <2>2, <4>3
        <5> HIDE DEF j
        <5>2. t[4 + j] = [t |-> b[j][1], n |-> b[j][2], in |-> TRUE] BY <2>3, <5>1 DEF Char
        <5>3. t[4 + j].in BY <5>2
        <5> QED BY <5>1, <5>3
      <4> QED BY <4>1, <4>2, <4>3
    <3> QED BY <2>5, <3>1, <3>2 DEF Copies
  <2>6. BulkLen(b) = n + 6 BY <1>3 DEF BulkLen, n
  <2> QED BY <1>1, <2>2, <2>3, <2>4, <2>5, <2>6 DEF t
<1> QED BY <1>2, <1>3

(* o[j] is where the j-th string of a list ends. *)
Offsets(o, list) ==
  /\ o \in [0..Len(list) -> Nat]
  /\ o[0] = 4
  /\ \A j \in 1..Len(list) : o[j] = o[j - 1] + BulkLen(list[j])

Off(list) == CHOOSE o : Offsets(o, list)

InOneLine(r) == r.type \in {"status_code_reply", "error_reply", "int_reply"}

Sign(r) == CASE r.type = "status_code_reply" -> "+"
             [] r.type = "error_reply"       -> "-"
             [] r.type = "int_reply"         -> ":"

FirstLen(r) == IF InOneLine(r) THEN Len(r.list[1]) + 3 ELSE 4

ReplyLen(r) ==
  IF r.type = "bulk_reply" THEN BulkLen(r.list[1])
  ELSE IF r.type = "multi_bulk_reply" THEN Off(r.list)[Len(r.list)]
  ELSE FirstLen(r)

(* What is where in a reply. *)
ReplyAt(s, a, r) ==
  /\ IsLine(s, a, FirstLen(r))
  /\ InOneLine(r) =>
       /\ s[a + 1].t = Sign(r)
       /\ \A i \in 1..Len(r.list[1]) :
            s[a + (1 + i)].t = r.list[1][i][1] /\ s[a + (1 + i)].n = r.list[1][i][2]
  /\ r.type = "bulk_reply" => BulkAt(s, a, r.list[1])
  /\ r.type = "multi_bulk_reply" =>
       /\ NumberLine(s, a, "*", IF r.list = << >> THEN -1 ELSE Len(r.list))
       /\ \A j \in 1..Len(r.list) :
            /\ BulkAt(s, a + Off(r.list)[j - 1], r.list[j])
            /\ Inside(s, a + Off(r.list)[j - 1], r.list[j])

(* The text of a reply of one line holds no line end; that of an integer is one number. *)
LEMMA OneLineType ==
  ASSUME NEW r \in Replies, InOneLine(r)
  PROVE  /\ r.list = <<r.list[1]>> /\ r.list[1] \in Seq(Wire) /\ Len(r.list[1]) \in Nat
         /\ \A i \in 1..Len(r.list[1]) :
              r.list[1][i] \in Wire /\ r.list[1][i][1] \notin {"cr", "lf"}
         /\ r.type = "int_reply" =>
              /\ Len(r.list[1]) = 1 /\ r.list[1][1][1] = "d"
              /\ r.list[1][1][2] \in {-1, INT_MAX, INT_MAX + 1}
<1> DEFINE text == r.list[1]
<1>1. r.list \in [1..1 -> Lines \cup Errors \cup Numbers] BY DEF Replies, InOneLine
<1>2. r.list = <<text>>
  <2>1. \A S : \A l \in [1..1 -> S] : l = <<l[1]>> OBVIOUS
  <2> QED BY <1>1, <2>1
<1>3. CASE r.type = "status_code_reply"
  <2>1. text \in Lines BY <1>3 DEF Replies
  <2>2. text \in Seq(Wire) /\ \A i \in 1..Len(text) : text[i] = <<"x", 0>> BY <2>1, LinesType
  <2>3. \A i \in 1..Len(text) : text[i] \in Wire /\ text[i][1] \notin {"cr", "lf"}
    BY <2>2, ElementOfSeq
  <2> QED BY <1>2, <1>3, <2>2, <2>3, LenProperties
<1>4. CASE r.type = "error_reply"
  <2>1. text \in Errors BY <1>4 DEF Replies
  <2>2. /\ text \in Seq(Wire)
        /\ \A i \in 1..Len(text) : text[i][1] \in {"x", "E", "R", "sp"}
    BY <2>1, ErrorsType
  <2>3. \A i \in 1..Len(text) : text[i] \in Wire /\ text[i][1] \notin {"cr", "lf"}
    BY <2>2, ElementOfSeq
  <2> QED BY <1>2, <1>4, <2>2, <2>3, LenProperties
<1>5. CASE r.type = "int_reply"
  <2>1. text \in Numbers BY <1>5 DEF Replies
  <2>2. /\ text \in Seq(Wire) /\ Len(text) = 1
        /\ text[1][1] = "d" /\ text[1][2] \in {-1, INT_MAX, INT_MAX + 1}
    BY <2>1, NumbersType
  <2>3. \A i \in 1..Len(text) : text[i] \in Wire /\ text[i][1] \notin {"cr", "lf"}
    <3>1. \A i \in 1..1 : i = 1 OBVIOUS
    <3> QED BY <2>2, <3>1, ElementOfSeq
  <2> QED BY <1>2, <1>5, <2>2, <2>3
<1> QED BY <1>3, <1>4, <1>5 DEF InOneLine

(* The first line of a reply has at least its first character and its end. *)
LEMMA FirstLenLemma ==
  ASSUME NEW r \in Replies
  PROVE  FirstLen(r) \in Nat /\ FirstLen(r) >= 3
<1>1. CASE InOneLine(r)
  <2>1. Len(r.list[1]) \in Nat BY <1>1, OneLineType
  <2> QED BY <1>1, <2>1 DEF FirstLen
<1>2. CASE ~InOneLine(r) BY <1>2 DEF FirstLen
<1> QED BY <1>1, <1>2

(* A bulk has a length. *)
LEMMA BulkLenLemma ==
  ASSUME NEW b \in Bulks
  PROVE  BulkLen(b) \in Nat /\ BulkLen(b) >= 4
<1>1. CASE b = REDIS_MISSING BY <1>1 DEF BulkLen
<1>2. CASE b # REDIS_MISSING
  <2>1. b \in Strings BY <1>2 DEF Bulks
  <2>2. Len(b) \in Nat BY <2>1, StringType
  <2> QED BY <1>2, <2>2 DEF BulkLen
<1> QED BY <1>1, <1>2

(* The offsets of a list exist and ascend. *)
LEMMA OffLemma ==
  ASSUME NEW list \in Seq(Bulks)
  PROVE  /\ Offsets(Off(list), list)
         /\ \A j \in 0..Len(list) : 4 <= Off(list)[j] /\ Off(list)[j] <= Off(list)[Len(list)]
         /\ \A j \in 1..Len(list) : Off(list)[j - 1] + 4 <= Off(list)[j]
<1> DEFINE N == Len(list)
           F == [p \in Nat \X (1..N) |-> p[1] + BulkLen(list[p[2]])]
           o == Off(list)
<1>1. N \in Nat BY LenProperties
<1>2. \A j \in 1..N : BulkLen(list[j]) \in Nat /\ BulkLen(list[j]) >= 4
  BY ElementOfSeq, BulkLenLemma
<1>3. \A v \in Nat, j \in 1..N : F[<<v, j>>] = v + BulkLen(list[j]) OBVIOUS
<1> HIDE DEF F
<1>4. Offsets(o, list)
  <2>1. Steps(F, Nat, N)
    <3>1. \A v \in Nat, j \in 1..N : v + BulkLen(list[j]) \in Nat BY <1>2
    <3> HIDE DEF N
    <3> QED BY <1>3, <3>1, Zenon DEF Steps
  <2>2. 4 \in Nat OBVIOUS
  <2>3. PICK g : Recursive(g, Nat, 4, F, N) BY <1>1, <2>1, <2>2, RecursionLemma
  <2>4. \A j \in 1..N : j - 1 \in 0..N BY <1>1
  <2>5. \A j \in 1..N : g[j] = g[j - 1] + BulkLen(list[j]) BY <1>3, <2>3, <2>4 DEF Recursive
  <2>6. Offsets(g, list) BY <2>3, <2>5 DEF Recursive, Offsets
  <2> QED BY <2>6 DEF Off
<1> HIDE DEF o, N
<1>5. /\ o \in [0..N -> Nat] /\ o[0] = 4
      /\ \A j \in 1..N : o[j] = o[j - 1] + BulkLen(list[j])
  BY <1>4 DEF Offsets, N
<1>6. \A j \in 1..N : o[j - 1] \in Nat /\ o[j] \in Nat /\ o[j - 1] + 4 <= o[j]
  <2> SUFFICES ASSUME NEW j \in 1..N PROVE o[j - 1] \in Nat /\ o[j] \in Nat /\ o[j - 1] + 4 <= o[j]
    OBVIOUS
  <2>1. j - 1 \in 0..N /\ j \in 0..N BY <1>1
  <2>2. o[j - 1] \in Nat /\ o[j] \in Nat BY <1>5, <2>1
  <2> QED BY <1>2, <1>5, <2>2
<1>7. \A j \in 0..N : 4 <= o[j]
  <2> DEFINE A == {j \in 0..N : 4 <= o[j]}
  <2>1. 0 \in A BY <1>1, <1>5
  <2>2. ASSUME NEW j \in 1..N, j - 1 \in A PROVE j \in A BY <1>1, <1>6, <2>2
  <2> HIDE DEF A
  <2>3. \A j \in 0..N : j \in A BY <1>1, <2>1, <2>2, IntervalInduction
  <2> QED BY <2>3 DEF A
<1>8. \A j \in 0..N : o[j] <= o[N]
  <2> DEFINE A == {j \in 0..N : o[N - j] <= o[N]}
  <2>1. 0 \in A
    <3>1. N - 0 = N /\ o[N] \in Nat /\ 0 \in 0..N BY <1>1, <1>5
    <3> QED BY <3>1
  <2>2. ASSUME NEW j \in 1..N, j - 1 \in A PROVE j \in A
    <3> DEFINE i == N - (j - 1)
    <3>1. i \in 1..N /\ i - 1 = N - j /\ j \in 0..N BY <1>1
    <3>2. o[i] <= o[N] BY <2>2
    <3> HIDE DEF i
    <3>3. o[i - 1] \in Nat /\ o[i] \in Nat /\ o[i - 1] + 4 <= o[i] BY <1>6, <3>1
    <3>4. o[N] \in Nat BY <1>1, <1>5
    <3>5. o[i - 1] <= o[N] BY <3>2, <3>3, <3>4
    <3> QED BY <3>1, <3>5
  <2> HIDE DEF A
  <2>3. \A j \in 0..N : j \in A BY <1>1, <2>1, <2>2, IntervalInduction
  <2>4. \A j \in 0..N : N - j \in 0..N /\ N - (N - j) = j BY <1>1
  <2>5. \A j \in 0..N : o[N - (N - j)] <= o[N] BY <2>3, <2>4 DEF A
  <2> QED BY <2>4, <2>5
<1> QED BY <1>4, <1>6, <1>7, <1>8 DEF o, N

(* The list of a multi-bulk reply that is not null. *)
LEMMA ListType ==
  ASSUME NEW r \in Replies, r.type = "multi_bulk_reply"
  PROVE  /\ r.list \in Seq(Bulks) /\ Len(r.list) \in Nat /\ Len(r.list) <= INT_MAX
         /\ r.list # << >> => Len(r.list) >= 1
         /\ r.list = << >> => Len(r.list) = 0
<1>1. r.list \in Lists \/ r.list = << >> BY DEF Replies
<1>2. CASE r.list \in Lists
  <2>1. PICK k \in 1..MaxElements : r.list \in [1..k -> Bulks] BY <1>2 DEF Lists
  <2>2. k \in Nat /\ k >= 1 /\ k <= INT_MAX BY <2>1, RedisAssumption
  <2>3. r.list \in Seq(Bulks) /\ Len(r.list) = k BY <2>1, <2>2
  <2> QED BY <2>2, <2>3
<1>3. CASE r.list = << >>
  <2> DEFINE l == << >>
  <2>1. l \in Seq(Bulks) /\ Len(l) = 0 BY EmptySeq
  <2> HIDE DEF l
  <2>2. r.list = l BY <1>3 DEF l
  <2>3. 0 <= INT_MAX BY RedisAssumption
  <2> QED BY <1>3, <2>1, <2>2, <2>3
<1> QED BY <1>1, <1>2, <1>3

(* A list is the line with its length and its strings, makeCommand's lists included. *)
ListPieces(list) == [k \in 1..Len(list) |-> encodeBulk(list[k])]

(* makeCommand writes a list of strings ... *)
LEMMA MakeCommandIs ==
  ASSUME NEW list \in Commands
  PROVE  \E w : /\ Concat(w, lengthLine("*", Len(list)), ListPieces(list), Len(list))
                /\ makeCommand(Head(list), Tail(list)) = w[Len(list)]
<1> DEFINE cmd == Head(list)
           args == Tail(list)
           M == Len(args)
           N == Len(list)
           line == lengthLine("*", N)
           c == line \o bulkText(cmd)
           e == [k \in 1..M |-> bulkText(args[k])]
           Is(g) == g = [k \in 0..M |-> IF k = 0 THEN lengthLine("*", M + 1) \o bulkText(cmd)
                                        ELSE g[k - 1] \o bulkText(args[k])]
<1>1. list \in Seq(Strings) /\ list # << >>
  <2>1. PICK k \in 1..MaxElements : list \in [1..k -> Strings] BY DEF Commands
  <2>2. k \in Nat /\ k >= 1 BY <2>1, RedisAssumption
  <2> QED BY <2>1, <2>2
<1>2. /\ N \in Nat /\ M \in Nat /\ M + 1 = N
      /\ cmd = list[1] /\ \A k \in 1..M : args[k] = list[k + 1]
  <2>1. N \in Nat /\ N # 0 BY <1>1, LenProperties, EmptySeq
  <2>2. /\ cmd = list[1] /\ args \in Seq(Strings) /\ Len(args) = N - 1
        /\ \A k \in 1..Len(args) : args[k] = list[k + 1]
    BY <1>1, <2>1, HeadTailProperties
  <2> QED BY <2>1, <2>2
<1>3. \A k \in 1..N : list[k] \in Strings /\ list[k] # REDIS_MISSING /\ encodeBulk(list[k]) = bulkText(list[k])
  <2>1. \A k \in 1..N : list[k] \in Strings BY <1>1, ElementOfSeq
  <2>2. \A k \in 1..N : list[k] # REDIS_MISSING BY <2>1, StringType
  <2> QED BY <2>1, <2>2 DEF encodeBulk
<1>4. makeCommand(cmd, args) = (CHOOSE x : Is(x))[M] BY DEF makeCommand
<1>5. line \in Seq(ReplyChars)
  <2>1. N \in Int /\ N >= -1 BY <1>2
  <2> QED BY <2>1, LengthLineType
<1>6. c \in Seq(ReplyChars)
  <2>1. 1 \in 1..N BY <1>2
  <2>2. bulkText(cmd) \in Seq(ReplyChars) BY <1>2, <1>3, <2>1, BulkTextType
  <2> QED BY <1>5, <2>2, ConcatProperties
<1>7. \A k \in 1..M : k + 1 \in 1..N /\ e[k] = encodeBulk(list[k + 1])
  BY <1>2, <1>3
<1>8. Pieces(e, ReplyChars, M)
  <2>1. \A k \in 1..M : list[k + 1] \in Bulks BY <1>3, <1>7 DEF Bulks
  <2> QED BY <1>7, <2>1, EncodeBulkType DEF Pieces
<1>9. \A k \in 1..M : e[k] = bulkText(args[k]) OBVIOUS
<1>10. lengthLine("*", M + 1) \o bulkText(cmd) = c BY <1>2
<1>11. line \o encodeBulk(list[1]) = c
  <2>1. 1 \in 1..N BY <1>2
  <2> QED BY <1>2, <1>3, <2>1
<1> HIDE DEF M, c, e, args, cmd
<1>12. \A g : Is(g) <=> Concat(g, c, e, M)
  <2>1. \A k \in 0..M : k = 0 \/ k \in 1..M BY <1>2
  <2> QED BY <1>9, <1>10, <2>1 DEF Concat
<1>13. PICK g : Concat(g, c, e, M) BY <1>2, <1>6, <1>8, ConcatExists
<1> DEFINE t == CHOOSE x : Is(x)
<1>14. Concat(t, c, e, M) BY <1>12, <1>13
<1>15. makeCommand(cmd, args) = t[M] BY <1>4
<1> HIDE DEF t
<1>16. t[0] = c /\ \A k \in 1..M : t[k] = t[k - 1] \o e[k]
  <2>1. /\ t[0] = c
        /\ \A k \in 1..M : t[k] = t[k - 1] \o e[k]
        /\ \A k \in 0..M : t[k] \in Seq(ReplyChars)
    BY <1>2, <1>6, <1>8, <1>14, ConcatLemma, Zenon
  <2> QED BY <2>1
<1> DEFINE P == ListPieces(list)
           w == [k \in 0..N |-> IF k = 0 THEN line ELSE t[k - 1]]
<1>17. \A k \in 1..N : P[k] = encodeBulk(list[k]) BY DEF ListPieces
<1> HIDE DEF P, line, N
<1>18. w[0] = line /\ \A k \in 1..N : w[k] = t[k - 1]
  <2>1. 0 \in 0..N /\ \A k \in 1..N : k \in 0..N /\ k # 0 BY <1>2
  <2> QED BY <2>1
<1>19. ASSUME NEW k \in 1..N PROVE w[k] = w[k - 1] \o P[k]
  <2>1. CASE k = 1
    <3>1. k - 1 = 0 BY <2>1
    <3>2. w[k] = c BY <1>16, <1>18, <3>1
    <3>3. w[k - 1] \o P[k] = c BY <1>11, <1>17, <1>18, <2>1, <3>1
    <3> QED BY <3>2, <3>3
  <2>2. CASE k # 1
    <3> DEFINE j == k - 1
    <3>1. j \in 1..M /\ j \in 1..N /\ j + 1 = k BY <1>2, <2>2
    <3>2. w[k] = t[j] /\ w[j] = t[j - 1] BY <1>18, <3>1
    <3>3. t[j] = t[j - 1] \o e[j] BY <1>16, <3>1
    <3>4. e[j] = P[k] BY <1>7, <1>17, <3>1
    <3> HIDE DEF w
    <3> QED BY <3>2, <3>3, <3>4
  <2> QED BY <2>1, <2>2
<1>20. Concat(w, line, P, N)
  <2>1. \A k \in 0..N : k = 0 \/ (k \in 1..N /\ k # 0) BY <1>2
  <2>2. \A k \in 0..N : w[k] = IF k = 0 THEN line ELSE w[k - 1] \o P[k]
    <3>1. \A k \in 1..N : w[k] = w[k - 1] \o P[k] BY <1>19
    <3> HIDE DEF w
    <3> QED BY <1>18, <2>1, <3>1, Zenon
  <2>3. w = [k \in 0..N |-> w[k]] OBVIOUS
  <2> HIDE DEF w
  <2> QED BY <2>2, <2>3 DEF Concat
<1>21. w[N] = t[M]
  <2>1. N \in 1..N /\ N - 1 = M BY <1>2
  <2> QED BY <1>18, <2>1
<1> HIDE DEF w
<1> QED BY <1>15, <1>20, <1>21 DEF P, line, N, cmd, args

(* ... and push and clone change nothing of it. *)
LEMMA EncodeCommandIs ==
  ASSUME NEW list \in Commands
  PROVE  encodeCommand(list) = makeCommand(Head(list), Tail(list))
<1> DEFINE text == makeCommand(Head(list), Tail(list))
           a == NewBuffer(1)
           b == tailData(a, text)
           c == NewBuffer(b.maxLen)
           d == tailData(c, b.buf)
<1>1. list \in Seq(Strings) /\ list # << >>
  <2>1. PICK k \in 1..MaxElements : list \in [1..k -> Strings] BY DEF Commands
  <2>2. k \in Nat /\ k >= 1 BY <2>1, RedisAssumption
  <2> QED BY <2>1, <2>2
<1>2. Head(list) \in Strings /\ Tail(list) \in Seq(Strings) BY <1>1, HeadTailProperties
<1>3. text \in Seq(ReplyChars) BY <1>2, MakeCommandType
<1>4. \A x \in Buffer(ReplyChars), y \in Seq(ReplyChars) :
        InBounds(x) /\ ~x.lock /\ length(x) = 0 =>
          /\ tailData(x, y) \in Buffer(ReplyChars) /\ InBounds(tailData(x, y))
          /\ tailData(x, y).buf = y
  <2> SUFFICES ASSUME NEW x \in Buffer(ReplyChars), NEW y \in Seq(ReplyChars),
                      InBounds(x), ~x.lock, length(x) = 0
               PROVE  /\ tailData(x, y) \in Buffer(ReplyChars) /\ InBounds(tailData(x, y))
                      /\ tailData(x, y).buf = y
    OBVIOUS
  <2> DEFINE t == tailData(x, y)
  <2>1. /\ t \in Buffer(ReplyChars) /\ InBounds(t)
        /\ length(t) = length(x) + Len(y)
        /\ \A i \in 1..Len(y) : t.buf[length(x) + i] = y[i]
    BY TailDataLemma
  <2> HIDE DEF t
  <2>2. Len(y) \in Nat BY LenProperties
  <2>3. Len(t.buf) = Len(y) BY <2>1, <2>2 DEF length
  <2>4. t.buf \in Seq(ReplyChars) BY <2>1 DEF Buffer
  <2>5. \A i \in 1..Len(y) : t.buf[i] = y[i] BY <2>1, <2>2
  <2>6. t.buf = y BY <2>3, <2>4, <2>5, SeqEqual
  <2> QED BY <2>1, <2>6 DEF t
<1>5. a \in Buffer(ReplyChars) /\ InBounds(a) /\ ~a.lock /\ length(a) = 0
  BY NewBufferLemma
<1> HIDE DEF text, a
<1>6. b \in Buffer(ReplyChars) /\ InBounds(b) /\ b.buf = text BY <1>3, <1>4, <1>5
<1> HIDE DEF b
<1>7. b.maxLen \in Nat BY <1>6 DEF Buffer
<1>8. c \in Buffer(ReplyChars) /\ InBounds(c) /\ ~c.lock /\ length(c) = 0
  BY <1>7, NewBufferLemma
<1> HIDE DEF c
<1>9. d.buf = text BY <1>3, <1>4, <1>6, <1>8
<1> QED BY <1>9 DEF encodeCommand, clone, push, text, a, b, c

(* A line of text, wherever it is written. *)
LEMMA EncodeLineAt ==
  ASSUME NEW first \in {"+", "-", ":"}, NEW text \in Seq(Wire),
         \A i \in 1..Len(text) : text[i][1] \notin {"cr", "lf"},
         NEW s, NEW a \in Nat, Copies(encodeLine(first, text), s, a)
  PROVE  /\ Len(encodeLine(first, text)) = Len(text) + 3
         /\ IsLine(s, a, Len(text) + 3)
         /\ s[a + 1].t = first
         /\ \A i \in 1..Len(text) :
              s[a + (1 + i)].t = text[i][1] /\ s[a + (1 + i)].n = text[i][2]
<1> DEFINE n == Len(text)
           f == <<Char(first, 0, FALSE)>>
           b == written(text, FALSE)
           c == REDIS_LBR(FALSE)
           l == encodeLine(first, text)
<1>1. n \in Nat BY LenProperties
<1>2. f \in Seq(ReplyChars) /\ Len(f) = 1 /\ f[1] = Char(first, 0, FALSE)
  <2> DEFINE e == Char(first, 0, FALSE)
  <2>1. e \in ReplyChars BY DEF Char, ReplyChars, Chars
  <2> HIDE DEF e
  <2>2. <<e>> \in Seq(ReplyChars) /\ Len(<<e>>) = 1 /\ <<e>>[1] = e BY <2>1
  <2> QED BY <2>2 DEF e
<1>3. /\ b \in Seq(ReplyChars) /\ Len(b) = n
      /\ \A i \in 1..n : b[i] = Char(text[i][1], text[i][2], FALSE)
  <2>1. \A i \in 1..n : b[i] = Char(text[i][1], text[i][2], FALSE) BY DEF written
  <2> QED BY <2>1, WrittenType
<1>4. /\ c \in Seq(ReplyChars) /\ Len(c) = 2
      /\ c[1] = Char("cr", 0, FALSE) /\ c[2] = Char("lf", 0, FALSE)
  <2>1. c[1] = Char("cr", 0, FALSE) /\ c[2] = Char("lf", 0, FALSE) BY DEF REDIS_LBR
  <2> QED BY <2>1, LineEndType
<1>5. l = (f \o b) \o c BY DEF encodeLine
<1> HIDE DEF f, b, c, n, l
<1> DEFINE u == f \o b
<1>6. /\ u \in Seq(ReplyChars) /\ Len(u) = 1 + n
      /\ \A i \in 1..(1 + n) : u[i] = IF i <= 1 THEN f[i] ELSE b[i - 1]
  <2>1. /\ u \in Seq(ReplyChars) /\ Len(u) = Len(f) + Len(b)
        /\ \A i \in 1..(Len(f) + Len(b)) : u[i] = IF i <= Len(f) THEN f[i] ELSE b[i - Len(f)]
    <3>1. f \in Seq(ReplyChars) /\ b \in Seq(ReplyChars) BY <1>2, <1>3
    <3> QED BY <3>1, ConcatProperties
  <2>2. Len(f) = 1 /\ Len(b) = n BY <1>2, <1>3
  <2> HIDE DEF u
  <2> QED BY <2>1, <2>2, Zenon
<1>7. /\ Len(l) = (1 + n) + 2
      /\ \A i \in 1..((1 + n) + 2) : l[i] = IF i <= 1 + n THEN u[i] ELSE c[i - (1 + n)]
  <2> DEFINE v == u \o c
  <2> HIDE DEF u
  <2>1. /\ Len(v) = Len(u) + Len(c)
        /\ \A i \in 1..(Len(u) + Len(c)) : v[i] = IF i <= Len(u) THEN u[i] ELSE c[i - Len(u)]
    <3>1. u \in Seq(ReplyChars) /\ c \in Seq(ReplyChars) BY <1>4, <1>6
    <3> QED BY <3>1, ConcatProperties
  <2>2. Len(u) = 1 + n /\ Len(c) = 2 /\ l = v BY <1>4, <1>5, <1>6 DEF u
  <2> HIDE DEF v
  <2> QED BY <2>1, <2>2, Zenon
<1> HIDE DEF u
<1>8. l[1] = f[1]
  <2>1. 1 \in 1..(1 + n) /\ 1 \in 1..((1 + n) + 2) /\ 1 <= 1 + n BY <1>1
  <2> QED BY <1>6, <1>7, <2>1
<1>9. \A i \in 1..n : l[1 + i] = b[i]
  <2>1. \A i \in 1..n : /\ 1 + i \in 1..(1 + n) /\ 1 + i \in 1..((1 + n) + 2)
                        /\ ~(1 + i <= 1) /\ 1 + i <= 1 + n /\ (1 + i) - 1 = i
    BY <1>1
  <2> QED BY <1>6, <1>7, <2>1
<1>10. l[n + 2] = c[1] /\ l[n + 3] = c[2]
  <2>1. /\ n + 2 \in 1..((1 + n) + 2) /\ ~(n + 2 <= 1 + n) /\ (n + 2) - (1 + n) = 1
        /\ n + 3 \in 1..((1 + n) + 2) /\ ~(n + 3 <= 1 + n) /\ (n + 3) - (1 + n) = 2
    BY <1>1
  <2> QED BY <1>7, <2>1
<1>11. Len(l) = n + 3 BY <1>1, <1>7
<1>12. \A i \in 1..(n + 3) : s[a + i] = l[i] BY <1>11 DEF Copies, l
<1>13. s[a + 1].t = first
  <2>1. 1 \in 1..(n + 3) BY <1>1
  <2> QED BY <1>2, <1>8, <1>12, <2>1 DEF Char
<1>14. ASSUME NEW i \in 1..n
       PROVE  s[a + (1 + i)].t = text[i][1] /\ s[a + (1 + i)].n = text[i][2]
  <2>1. 1 + i \in 1..(n + 3) BY <1>1
  <2>2. s[a + (1 + i)] = [t |-> text[i][1], n |-> text[i][2], in |-> FALSE]
    BY <1>3, <1>9, <1>12, <2>1 DEF Char
  <2> QED BY <2>2
<1>15. IsLine(s, a, n + 3)
  <2>1. ASSUME NEW i \in 1..((n + 3) - 2) PROVE s[a + i].t \notin {"cr", "lf"}
    <3>1. CASE i = 1 BY <1>13, <3>1
    <3>2. CASE i # 1
      <4> DEFINE j == i - 1
      <4>1. j \in 1..n /\ 1 + j = i BY <1>1, <3>2
      <4> HIDE DEF j
      <4>2. s[a + i].t = text[j][1] BY <1>14, <4>1
      <4>3. text[j][1] \notin {"cr", "lf"} BY <4>1 DEF n
      <4> QED BY <4>2, <4>3
    <3> QED BY <3>1, <3>2
  <2>2. s[a + ((n + 3) - 1)].t = "cr"
    <3>1. n + 2 \in 1..(n + 3) /\ (n + 3) - 1 = n + 2 BY <1>1
    <3> QED BY <1>4, <1>10, <1>12, <3>1 DEF Char
  <2>3. s[a + (n + 3)].t = "lf"
    <3>1. n + 3 \in 1..(n + 3) BY <1>1
    <3> QED BY <1>4, <1>10, <1>12, <3>1 DEF Char
  <2> QED BY <2>1, <2>2, <2>3 DEF IsLine
<1> QED BY <1>11, <1>13, <1>14, <1>15 DEF n, l

(* A list that is not null is its length and its strings. *)
LEMMA ListIs ==
  ASSUME NEW r \in Replies, r.type = "multi_bulk_reply", r.list # << >>
  PROVE  \E w : /\ Concat(w, lengthLine("*", Len(r.list)), ListPieces(r.list), Len(r.list))
                /\ encode(r) = w[Len(r.list)]
<1> DEFINE list == r.list
<1>1. CASE list \in Commands
  <2>1. encode(r) = encodeCommand(list) BY <1>1 DEF encode
  <2> QED BY <1>1, <2>1, EncodeCommandIs, MakeCommandIs
<1>2. CASE list \notin Commands
  <2> DEFINE N == Len(list)
             c == lengthLine("*", N)
             e == ListPieces(list)
             Is(g) == g = [k \in 0..N |-> IF k = 0 THEN c ELSE g[k - 1] \o encodeBulk(list[k])]
  <2>1. N \in Nat /\ list \in Seq(Bulks) BY ListType
  <2>2. encode(r) = (CHOOSE x : Is(x))[N] BY <1>2 DEF encode
  <2>3. c \in Seq(ReplyChars)
    <3>1. N \in Int /\ N >= -1 BY <2>1
    <3> QED BY <3>1, LengthLineType
  <2>4. \A k \in 1..N : e[k] = encodeBulk(list[k]) BY DEF ListPieces
  <2>5. Pieces(e, ReplyChars, N)
    <3>1. \A k \in 1..N : list[k] \in Bulks BY <2>1, ElementOfSeq
    <3> HIDE DEF e
    <3> QED BY <2>4, <3>1, EncodeBulkType DEF Pieces
  <2> HIDE DEF N, c, e, list
  <2>6. \A g : Is(g) <=> Concat(g, c, e, N)
    <3>1. \A k \in 0..N : k = 0 \/ k \in 1..N BY <2>1
    <3> QED BY <2>4, <3>1 DEF Concat
  <2>7. PICK g : Concat(g, c, e, N) BY <2>1, <2>3, <2>5, ConcatExists
  <2> DEFINE w == CHOOSE x : Is(x)
  <2>8. Concat(w, c, e, N) BY <2>6, <2>7
  <2>9. encode(r) = w[N] BY <2>2
  <2> HIDE DEF w
  <2> QED BY <2>8, <2>9 DEF N, c, e, list
<1> QED BY <1>1, <1>2

(* Part of what s holds. *)
LEMMA CopiesPart ==
  ASSUME NEW q, NEW s, NEW a \in Nat, Copies(q, s, a), NEW u, NEW k \in Nat,
         Len(u) \in Nat, Len(q) \in Nat, k + Len(u) <= Len(q),
         \A i \in 1..Len(u) : q[k + i] = u[i]
  PROVE  Copies(u, s, a + k)
<1> SUFFICES ASSUME NEW i \in 1..Len(u) PROVE s[(a + k) + i] = u[i] BY DEF Copies
<1>1. k + i \in 1..Len(q) /\ (a + k) + i = a + (k + i) OBVIOUS
<1> QED BY <1>1 DEF Copies

(* Where the parts of a list are. *)
LEMMA ListAt ==
  ASSUME NEW r \in Replies, r.type = "multi_bulk_reply", r.list # << >>,
         NEW s, NEW a \in Nat, Copies(encode(r), s, a)
  PROVE  /\ Len(encode(r)) = Off(r.list)[Len(r.list)]
         /\ NumberLine(s, a, "*", Len(r.list))
         /\ \A j \in 1..Len(r.list) :
              /\ BulkAt(s, a + Off(r.list)[j - 1], r.list[j])
              /\ Inside(s, a + Off(r.list)[j - 1], r.list[j])
<1> DEFINE list == r.list
           N == Len(list)
           c == lengthLine("*", N)
           e == ListPieces(list)
           o == Off(list)
<1>1. N \in Nat /\ N <= INT_MAX /\ list \in Seq(Bulks) BY ListType
<1>2. /\ c \in Seq(ReplyChars) /\ Len(c) = 4
      /\ c[1] = Char("*", 0, FALSE) /\ c[2] = Char("d", N, FALSE)
      /\ c[3] = Char("cr", 0, FALSE) /\ c[4] = Char("lf", 0, FALSE)
  <2>1. N \in Int /\ N >= -1 BY <1>1
  <2> HIDE DEF N
  <2> QED BY <2>1, LengthLineChars
<1>3. \A k \in 1..N : e[k] = encodeBulk(list[k]) BY DEF ListPieces
<1>4. \A k \in 1..N : list[k] \in Bulks BY <1>1, ElementOfSeq
<1>5. PICK w : Concat(w, c, e, N) /\ encode(r) = w[N] BY ListIs
<1>6. /\ o \in [0..N -> Nat] /\ o[0] = 4
      /\ \A j \in 1..N : o[j] = o[j - 1] + BulkLen(list[j])
  BY <1>1, OffLemma DEF Offsets
<1> HIDE DEF N, c, e, o, list
<1>7. \A k \in 1..N : /\ e[k] \in Seq(ReplyChars) /\ Len(e[k]) = BulkLen(list[k])
                      /\ BulkLen(list[k]) \in Nat
  BY <1>3, <1>4, EncodeBulkAt
<1>8. Pieces(e, ReplyChars, N) BY <1>7 DEF Pieces
<1>9. /\ w[0] = c
      /\ \A k \in 1..N : w[k] = w[k - 1] \o e[k]
      /\ \A k \in 0..N : w[k] \in Seq(ReplyChars)
  BY <1>1, <1>2, <1>5, <1>8, ConcatLemma, Zenon
<1>10. \A k \in 1..N : PieceAt(w, e, N, k) BY <1>1, <1>2, <1>5, <1>8, ConcatPiece
<1>11. \A k \in 0..N : Len(w[k]) = o[k]
  <2> DEFINE A == {k \in 0..N : Len(w[k]) = o[k]}
  <2>1. 0 \in A
    <3>1. 0 \in 0..N BY <1>1
    <3>2. Len(w[0]) = 4 BY <1>2, <1>9
    <3> QED BY <1>6, <3>1, <3>2
  <2>2. ASSUME NEW k \in 1..N, k - 1 \in A PROVE k \in A
    <3>1. Len(w[k]) = Len(w[k - 1]) + Len(e[k]) BY <1>10 DEF PieceAt
    <3>2. Len(w[k - 1]) = o[k - 1] BY <2>2
    <3>3. k \in 0..N BY <1>1
    <3>4. Len(w[k]) = o[k] BY <1>6, <1>7, <3>1, <3>2
    <3> QED BY <3>3, <3>4
  <2> HIDE DEF A
  <2>3. \A k \in 0..N : k \in A BY <1>1, <2>1, <2>2, IntervalInduction
  <2> QED BY <2>3 DEF A
<1>12. Len(encode(r)) = o[N] /\ Len(encode(r)) \in Nat
  <2>1. N \in 0..N BY <1>1
  <2> QED BY <1>5, <1>6, <1>11, <2>1
<1>13. NumberLine(s, a, "*", N)
  <2>1. Begins(w[N], w[0])
    <3>1. N \in 0..N /\ 0 \in 0..N BY <1>1
    <3> QED BY <3>1, <1>1, <1>2, <1>5, <1>8, ConcatPrefix
  <2>2. \A i \in 1..4 : w[N][i] = c[i] BY <1>2, <1>9, <2>1 DEF Begins
  <2>3. 4 <= Len(encode(r)) BY <1>2, <1>5, <1>9, <2>1 DEF Begins
  <2>4. \A i \in 1..4 : i \in 1..Len(encode(r)) BY <1>12, <2>3
  <2>5. \A i \in 1..4 : s[a + i] = c[i] BY <1>5, <2>2, <2>4 DEF Copies
  <2>6. 1 \in 1..4 /\ 2 \in 1..4 /\ 3 \in 1..4 /\ 4 \in 1..4 OBVIOUS
  <2>7. /\ s[a + 1].t = "*" /\ s[a + 2].t = "d" /\ s[a + 2].n = N
        /\ s[a + 3].t = "cr" /\ s[a + 4].t = "lf"
    BY <1>2, <2>5, <2>6 DEF Char
  <2>8. N \in (-INT_MAX - 1)..INT_MAX BY <1>1, RedisAssumption
  <2> QED BY <2>7, <2>8, NumberLineLemma
<1>14. ASSUME NEW j \in 1..N
       PROVE  BulkAt(s, a + o[j - 1], list[j]) /\ Inside(s, a + o[j - 1], list[j])
  <2>1. j - 1 \in 0..N BY <1>1
  <2>2. Len(w[j - 1]) = o[j - 1] /\ o[j - 1] \in Nat BY <1>6, <1>11, <2>1
  <2> DEFINE k == o[j - 1]
             u == e[j]
             q == encode(r)
             x == a + k
  <2>3. /\ k + Len(u) <= Len(q) /\ Len(u) \in Nat /\ Len(q) \in Nat
        /\ \A i \in 1..Len(u) : q[k + i] = u[i]
    <3>1. PieceAt(w, e, N, j) BY <1>10
    <3> QED BY <3>1, <1>5, <1>7, <1>12, <2>2 DEF PieceAt
  <2>4. Copies(u, s, x) 
    <3> HIDE DEF k, u, q
    <3>1. k \in Nat BY <2>2 DEF k
    <3>2. Copies(q, s, a) BY DEF q
    <3> QED BY <2>3, <3>1, <3>2, CopiesPart
  <2>5. x \in Nat BY <2>2
  <2>6. u = encodeBulk(list[j]) BY <1>3
  <2>7. Matches(u, s, x) BY <2>4 DEF Copies, Matches
  <2> HIDE DEF x, u
  <2>8. BulkAt(s, x, list[j]) /\ Inside(s, x, list[j])
    BY <1>4, <2>4, <2>5, <2>6, <2>7, EncodeBulkAt
  <2> QED BY <2>8 DEF x
<1> QED BY <1>12, <1>13, <1>14 DEF list, N, o

(* What is where in the encoding of a reply. *)
LEMMA EncodeAt ==
  ASSUME NEW r \in Replies, NEW s, NEW a \in Nat, Copies(encode(r), s, a)
  PROVE  /\ ReplyAt(s, a, r)
         /\ Len(encode(r)) = ReplyLen(r)
         /\ ReplyLen(r) \in Nat /\ FirstLen(r) <= ReplyLen(r)
<1>1. CASE InOneLine(r)
  <2> DEFINE text == r.list[1]
             e == encodeLine(Sign(r), text)
  <2>1. /\ text \in Seq(Wire) /\ Len(text) \in Nat
        /\ \A i \in 1..Len(text) : text[i][1] \notin {"cr", "lf"}
    BY <1>1, OneLineType
  <2>2. encode(r) = e BY <1>1 DEF encode, InOneLine, Sign
  <2>3. Sign(r) \in {"+", "-", ":"} BY <1>1 DEF InOneLine, Sign
  <2>4. Copies(e, s, a) BY <2>2
  <2> HIDE DEF text
  <2>5. /\ Len(e) = Len(text) + 3
        /\ IsLine(s, a, Len(text) + 3)
        /\ s[a + 1].t = Sign(r)
        /\ \A i \in 1..Len(text) :
             s[a + (1 + i)].t = text[i][1] /\ s[a + (1 + i)].n = text[i][2]
    BY <2>1, <2>3, <2>4, EncodeLineAt
  <2> HIDE DEF e
  <2>6. FirstLen(r) = Len(text) + 3 /\ ReplyLen(r) = Len(text) + 3
    BY <1>1 DEF FirstLen, ReplyLen, InOneLine, text
  <2>7. ReplyAt(s, a, r) BY <1>1, <2>5, <2>6 DEF ReplyAt, InOneLine, text
  <2> QED BY <2>1, <2>2, <2>5, <2>6, <2>7
<1>4. CASE r.type = "bulk_reply"
  <2> DEFINE b == r.list[1]
             text == encodeBulk(b)
             n == Len(text)
             bare == [i \in 1..n |-> [text[i] EXCEPT !.in = FALSE]]
  <2>1. b \in Bulks BY <1>4 DEF Replies
  <2>2. encode(r) = bare BY <1>4 DEF encode
  <2>3. \A i \in 1..n : bare[i] = [text[i] EXCEPT !.in = FALSE] OBVIOUS
  <2>4. /\ text \in Seq(ReplyChars) /\ n = BulkLen(b)
        /\ BulkLen(b) \in Nat /\ BulkLen(b) >= 4
        /\ Matches(text, s, a) => BulkAt(s, a, b)
    BY <2>1, EncodeBulkAt
  <2> HIDE DEF text
  <2>5. n \in Nat /\ \A i \in 1..n : text[i] \in ReplyChars BY <2>4, LenProperties, ElementOfSeq
  <2>6. \A x \in ReplyChars : LET y == [x EXCEPT !.in = FALSE] IN y.t = x.t /\ y.n = x.n
    BY DEF ReplyChars, Chars
  <2>7. \A i \in 1..n : bare[i].t = text[i].t /\ bare[i].n = text[i].n BY <2>3, <2>5, <2>6
  <2>8. Len(bare) = n
    <3> HIDE DEF n
    <3> QED BY <2>5
  <2> HIDE DEF bare
  <2>9. Matches(text, s, a)
    <3> SUFFICES ASSUME NEW i \in 1..n PROVE s[a + i].t = text[i].t /\ s[a + i].n = text[i].n
      BY DEF Matches
    <3>1. s[a + i] = bare[i] BY <2>2, <2>8 DEF Copies
    <3> QED BY <2>7, <3>1
  <2>10. BulkAt(s, a, b) BY <2>4, <2>9
  <2>11. FirstLen(r) = 4 /\ ReplyLen(r) = BulkLen(b) BY <1>4 DEF FirstLen, ReplyLen, InOneLine
  <2>12. IsLine(s, a, 4) BY <2>10 DEF BulkAt, NumberLine
  <2>13. ReplyAt(s, a, r) BY <1>4, <2>10, <2>11, <2>12 DEF ReplyAt, InOneLine
  <2> QED BY <2>2, <2>4, <2>8, <2>11, <2>13
<1>5. CASE r.type = "multi_bulk_reply" /\ r.list = << >>
  <2>1. r.list \in Seq(Bulks) /\ Len(r.list) = 0 BY <1>5, ListType
  <2>2. r.list \notin Commands
    <3> SUFFICES ASSUME r.list \in Commands PROVE FALSE OBVIOUS
    <3>1. PICK k \in 1..MaxElements : r.list \in [1..k -> Strings] BY DEF Commands
    <3>2. k \in Nat /\ k >= 1 BY <3>1, RedisAssumption
    <3>3. Len(r.list) = k BY <3>1, <3>2
    <3> QED BY <2>1, <3>2, <3>3
  <2> DEFINE l == lengthLine("*", -1)
  <2>3. encode(r) = l BY <1>5, <2>2 DEF encode
  <2>4. /\ Len(l) = 4
        /\ l[1] = Char("*", 0, FALSE) /\ l[2] = Char("d", -1, FALSE)
        /\ l[3] = Char("cr", 0, FALSE) /\ l[4] = Char("lf", 0, FALSE)
    <3>1. -1 \in Int /\ -1 >= -1 OBVIOUS
    <3> QED BY <3>1, LengthLineChars
  <2> HIDE DEF l
  <2>5. 1 \in 1..Len(l) /\ 2 \in 1..Len(l) /\ 3 \in 1..Len(l) /\ 4 \in 1..Len(l) BY <2>4
  <2>6. /\ s[a + 1].t = "*" /\ s[a + 2].t = "d" /\ s[a + 2].n = -1
        /\ s[a + 3].t = "cr" /\ s[a + 4].t = "lf"
    BY <2>3, <2>4, <2>5 DEF Copies, Char
  <2>7. NumberLine(s, a, "*", -1)
    <3>1. -1 \in (-INT_MAX - 1)..INT_MAX BY RedisAssumption
    <3> QED BY <2>6, <3>1, NumberLineLemma
  <2>8. Off(r.list)[Len(r.list)] = 4 BY <2>1, OffLemma DEF Offsets
  <2>9. FirstLen(r) = 4 /\ ReplyLen(r) = 4 BY <1>5, <2>8 DEF FirstLen, ReplyLen, InOneLine
  <2>10. IsLine(s, a, 4) BY <2>7 DEF NumberLine
  <2>11. ReplyAt(s, a, r) BY <1>5, <2>1, <2>7, <2>9, <2>10 DEF ReplyAt, InOneLine
  <2> QED BY <2>3, <2>4, <2>9, <2>11
<1>6. CASE r.type = "multi_bulk_reply" /\ r.list # << >>
  <2> DEFINE N == Len(r.list)
             o == Off(r.list)
  <2>1. r.list \in Seq(Bulks) /\ N \in Nat BY <1>6, ListType
  <2>2. o \in [0..N -> Nat] /\ 4 <= o[N]
    <3>1. N \in 0..N BY <2>1
    <3> QED BY <2>1, <3>1, OffLemma DEF Offsets
  <2>3. o[N] \in Nat
    <3> HIDE DEF o, N
    <3>1. N \in 0..N BY <2>1
    <3> QED BY <2>2, <3>1
  <2>4. /\ Len(encode(r)) = o[N]
        /\ NumberLine(s, a, "*", N)
        /\ \A j \in 1..N : BulkAt(s, a + o[j - 1], r.list[j]) /\ Inside(s, a + o[j - 1], r.list[j])
    BY <1>6, ListAt
  <2>5. FirstLen(r) = 4 /\ ReplyLen(r) = o[N] BY <1>6 DEF FirstLen, ReplyLen, InOneLine
  <2>6. IsLine(s, a, 4) BY <2>4 DEF NumberLine
  <2>7. ReplyAt(s, a, r) BY <1>6, <2>4, <2>5, <2>6 DEF ReplyAt, InOneLine
  <2> QED BY <2>2, <2>3, <2>4, <2>5, <2>7
<1>7. InOneLine(r) \/ r.type \in {"bulk_reply", "multi_bulk_reply"} BY DEF Replies, InOneLine
<1> QED BY <1>1, <1>4, <1>5, <1>6, <1>7

-----------------------------------------------------------------------------
(* Where the k-th reply ends in the stream. *)
Start(rs, k) == Len(sent(rs)[k])

(* The replies lie in the stream one after the other. *)
LEMMA StreamAt ==
  ASSUME NEW rs \in [1..MaxReplies -> Replies]
  PROVE  LET s == sent(rs)[MaxReplies] IN
         /\ Start(rs, 0) = 0
         /\ \A k \in 0..MaxReplies : Start(rs, k) \in Nat
         /\ \A m \in 0..MaxReplies : \A k \in 0..m : Start(rs, k) <= Start(rs, m)
         /\ \A k \in 1..MaxReplies :
              /\ rs[k] \in Replies
              /\ Start(rs, k) = Start(rs, k - 1) + ReplyLen(rs[k])
              /\ ReplyAt(s, Start(rs, k - 1), rs[k])
              /\ ReplyLen(rs[k]) \in Nat /\ FirstLen(rs[k]) <= ReplyLen(rs[k])
<1> DEFINE N == MaxReplies
           c == << >>
           e == [k \in 1..N |-> encode(rs[k])]
           Is(g) == g = [k \in 0..N |-> IF k = 0 THEN c ELSE g[k - 1] \o encode(rs[k])]
<1>1. N \in Nat /\ c \in Seq(ReplyChars) /\ Len(c) = 0 BY RedisAssumption, EmptySeq
<1>2. Len(rs) = N BY <1>1
<1>3. Pieces(e, ReplyChars, N)
  <2>1. \A k \in 1..N : encode(rs[k]) \in Seq(ReplyChars) BY EncodeType
  <2> QED BY <2>1 DEF Pieces
<1>4. \A k \in 1..N : e[k] = encode(rs[k]) /\ rs[k] \in Replies OBVIOUS
<1> HIDE DEF N, c, e
<1>5. \A g : Is(g) <=> Concat(g, c, e, N)
  <2>1. \A k \in 0..N : k = 0 \/ k \in 1..N BY <1>1
  <2> QED BY <1>4, <2>1 DEF Concat
<1>6. PICK g : Concat(g, c, e, N) BY <1>1, <1>3, ConcatExists
<1> DEFINE w == CHOOSE x : Is(x)
<1>7. sent(rs) = w BY <1>2 DEF sent, c
<1>8. Concat(w, c, e, N) BY <1>5, <1>6
<1> HIDE DEF w
<1>9. /\ w[0] = c
      /\ \A k \in 1..N : w[k] = w[k - 1] \o e[k]
      /\ \A k \in 0..N : w[k] \in Seq(ReplyChars)
  BY <1>1, <1>3, <1>8, ConcatLemma, Zenon
<1>10. \A k \in 0..N : Len(w[k]) \in Nat BY <1>9, LenProperties
<1>11. \A m \in 0..N : \A k \in 0..m : Len(w[k]) <= Len(w[m])
  <2>1. \A m \in 0..N : \A k \in 0..m : Begins(w[m], w[k]) BY <1>1, <1>3, <1>8, ConcatPrefix
  <2> QED BY <2>1 DEF Begins
<1>12. ASSUME NEW k \in 1..N
       PROVE  /\ rs[k] \in Replies
              /\ Len(w[k]) = Len(w[k - 1]) + ReplyLen(rs[k])
              /\ ReplyAt(w[N], Len(w[k - 1]), rs[k])
              /\ ReplyLen(rs[k]) \in Nat /\ FirstLen(rs[k]) <= ReplyLen(rs[k])
  <2>1. PieceAt(w, e, N, k) BY <1>1, <1>3, <1>8, ConcatPiece
  <2> DEFINE a == Len(w[k - 1])
             s == w[N]
             r == rs[k]
  <2>2. a \in Nat /\ Copies(encode(r), s, a) /\ Len(w[k]) = a + Len(encode(r))
    BY <1>4, <2>1 DEF PieceAt, Copies
  <2>3. r \in Replies BY <1>4
  <2> HIDE DEF a, s, r
  <2>4. /\ ReplyAt(s, a, r)
        /\ Len(encode(r)) = ReplyLen(r)
        /\ ReplyLen(r) \in Nat /\ FirstLen(r) <= ReplyLen(r)
    BY <2>2, <2>3, EncodeAt
  <2> QED BY <2>2, <2>3, <2>4 DEF a, s, r
<1> QED BY <1>1, <1>7, <1>9, <1>10, <1>11, <1>12 DEF N, Start

-----------------------------------------------------------------------------
(* What the parsers make of a line or a string that lies in s after position a. *)

(* Two pieces of s, one after the other. *)
LEMMA CopiesConcat ==
  ASSUME NEW u \in Seq(ReplyChars), NEW v \in Seq(ReplyChars), NEW s, NEW a \in Nat,
         Copies(u, s, a), Copies(v, s, a + Len(u))
  PROVE  /\ u \o v \in Seq(ReplyChars) /\ Len(u \o v) = Len(u) + Len(v)
         /\ Copies(u \o v, s, a)
<1> DEFINE x == Len(u)
           y == Len(v)
           w == u \o v
<1>1. x \in Nat /\ y \in Nat BY LenProperties
<1>2. /\ w \in Seq(ReplyChars) /\ Len(w) = x + y
      /\ \A i \in 1..(x + y) : w[i] = IF i <= x THEN u[i] ELSE v[i - x]
  BY ConcatProperties
<1>3. (\A i \in 1..x : s[a + i] = u[i]) /\ (\A i \in 1..y : s[(a + x) + i] = v[i]) BY DEF Copies
<1> HIDE DEF x, y, w
<1>4. ASSUME NEW i \in 1..(x + y) PROVE s[a + i] = w[i]
  <2>1. CASE i <= x
    <3>1. i \in 1..x BY <1>1, <2>1
    <3> QED BY <1>2, <1>3, <2>1, <3>1
  <2>2. CASE ~(i <= x)
    <3> DEFINE j == i - x
    <3>1. j \in 1..y /\ (a + x) + j = a + i BY <1>1, <2>2
    <3>2. w[i] = v[j] BY <1>2, <2>2
    <3> HIDE DEF j
    <3>3. s[(a + x) + j] = v[j] BY <1>3, <3>1
    <3> QED BY <3>1, <3>2, <3>3
  <2> QED BY <2>1, <2>2
<1>5. Copies(w, s, a) BY <1>2, <1>4 DEF Copies
<1> QED BY <1>2, <1>5 DEF w, x, y

(* The first characters of a piece of s. *)
LEMMA CopiesFront ==
  ASSUME NEW u \in Seq(ReplyChars), NEW s, NEW a \in Nat, Copies(u, s, a),
         NEW n \in Nat, n <= Len(u)
  PROVE  /\ SubSeq(u, 1, n) \in Seq(ReplyChars) /\ Len(SubSeq(u, 1, n)) = n
         /\ Copies(SubSeq(u, 1, n), s, a)
<1> DEFINE v == SubSeq(u, 1, n)
<1>1. v \in Seq(ReplyChars) /\ Len(v) = n /\ \A i \in 1..n : v[i] = u[i] BY FrontType
<1>2. Len(u) \in Nat BY LenProperties
<1> HIDE DEF v
<1>3. \A i \in 1..n : i \in 1..Len(u) BY <1>2
<1>4. Copies(v, s, a) BY <1>1, <1>3 DEF Copies
<1> QED BY <1>1, <1>4 DEF v

(* rtrim cuts off the end of a line and nothing else. *)
LEMMA RtrimLine ==
  ASSUME NEW v \in Seq(ReplyChars), NEW s, NEW a \in Nat, Copies(v, s, a),
         NEW n \in Nat, n >= 3, Len(v) = n, IsLine(s, a, n)
  PROVE  /\ rtrim(v) \in Seq(ReplyChars) /\ Len(rtrim(v)) = n - 2
         /\ Copies(rtrim(v), s, a)
<1> DEFINE keep == {i \in 1..n : v[i].t \notin {"cr", "lf"}}
           k == n - 2
           m == CHOOSE i \in keep : \A j \in keep : j <= i
<1>1. k \in 1..n /\ k \in Nat /\ k <= n OBVIOUS
<1>2. \A i \in 1..n : s[a + i] = v[i] BY DEF Copies
<1>3. keep = 1..k
  <2>1. \A i \in 1..k : i \in 1..n /\ s[a + i].t \notin {"cr", "lf"} BY DEF IsLine
  <2>2. \A i \in 1..k : i \in keep BY <1>2, <2>1
  <2>3. n - 1 \in 1..n /\ n \in 1..n OBVIOUS
  <2>4. v[n - 1].t = "cr" /\ v[n].t = "lf" BY <1>2, <2>3 DEF IsLine
  <2>5. \A i \in 1..n : i \in 1..k \/ i = n - 1 \/ i = n OBVIOUS
  <2>6. \A i \in keep : i \in 1..k BY <2>4, <2>5
  <2> HIDE DEF k, keep
  <2> QED BY <2>2, <2>6
<1>4. rtrim(v) = IF keep = {} THEN << >> ELSE SubSeq(v, 1, m) BY DEF rtrim
<1> HIDE DEF keep
<1>5. m = k
  <2>1. k \in keep /\ \A j \in keep : j <= k BY <1>1, <1>3
  <2>2. m \in keep /\ \A j \in keep : j <= m BY <2>1
  <2>3. m \in Nat /\ m <= k /\ k <= m BY <1>3, <2>1, <2>2
  <2> HIDE DEF m, k
  <2> QED BY <1>1, <2>3
<1>6. keep # {} BY <1>1, <1>3
<1>7. rtrim(v) = SubSeq(v, 1, k) BY <1>4, <1>5, <1>6
<1> HIDE DEF m, k
<1>8. k <= Len(v) BY <1>1
<1>9. /\ SubSeq(v, 1, k) \in Seq(ReplyChars) /\ Len(SubSeq(v, 1, k)) = k
      /\ Copies(SubSeq(v, 1, k), s, a)
  BY <1>1, <1>8, CopiesFront
<1> QED BY <1>7, <1>9 DEF k

(* p has the characters of s after a as far as it read, and buf those after its readPos. *)
Seen(p, buf, s, a) ==
  /\ a \in Nat
  /\ p.temp \in Seq(ReplyChars) /\ Copies(p.temp, s, a)
  /\ buf \in Seq(ReplyChars) /\ p.readPos \in Nat /\ p.readPos <= Len(buf)
  /\ Copies(rest(p, buf), s, a + Len(p.temp))

(* readLine finds the line exactly if all of it is there, wherever it was cut. *)
LEMMA LineSeen ==
  ASSUME NEW p, NEW buf, NEW s, NEW a, Seen(p, buf, s, a),
         NEW n \in Nat, n >= 3, IsLine(s, a, n), Len(p.temp) < n
  PROVE  /\ hasLine(p, buf) <=> n <= Len(p.temp) + Len(rest(p, buf))
         /\ hasLine(p, buf) =>
              /\ lineLen(p, buf) = n - Len(p.temp)
              /\ lineOf(p, buf) \in Seq(ReplyChars)
              /\ Len(lineOf(p, buf)) = n - 2
              /\ Copies(lineOf(p, buf), s, a)
<1>0. /\ a \in Nat
      /\ p.temp \in Seq(ReplyChars) /\ Copies(p.temp, s, a)
      /\ buf \in Seq(ReplyChars) /\ p.readPos \in Nat /\ p.readPos <= Len(buf)
      /\ Copies(rest(p, buf), s, a + Len(p.temp))
  BY DEF Seen
<1> USE <1>0
<1> DEFINE x == Len(p.temp)
           R == rest(p, buf)
           y == Len(R)
           l == lineLen(p, buf)
           k == n - x
<1>1. x \in Nat /\ R \in Seq(ReplyChars) /\ y \in Nat BY LenProperties, RestLemma
<1>2. \A i \in 1..y : R[i] = s[(a + x) + i] BY DEF Copies
<1>3. x < n OBVIOUS
<1>4. hasLine(p, buf) <=> \E i \in 1..y : R[i].t = "lf" BY DEF hasLine
<1> HIDE DEF x, R, y, l
<1>5. k \in Nat /\ k >= 1 /\ (a + x) + k = a + n BY <1>1, <1>3
<1>6. s[a + n].t = "lf" BY DEF IsLine
<1>7. ASSUME NEW i \in 1..y, i < k PROVE R[i].t # "lf"
  <2> DEFINE j == x + i
  <2>1. j \in Nat /\ j >= 1 /\ (a + x) + i = a + j /\ (j <= n - 2 \/ j = n - 1)
    BY <1>1, <1>3, <1>7
  <2> HIDE DEF j
  <2>2. CASE j <= n - 2
    <3>1. j \in 1..(n - 2) BY <2>1, <2>2
    <3>2. s[a + j].t \notin {"cr", "lf"} BY <3>1 DEF IsLine
    <3> QED BY <1>2, <2>1, <3>2
  <2>3. CASE j = n - 1
    <3>1. s[a + j].t = "cr" BY <2>3 DEF IsLine
    <3> QED BY <1>2, <2>1, <3>1
  <2> QED BY <2>1, <2>2, <2>3
<1>8. k <= y => k \in 1..y /\ R[k].t = "lf" BY <1>1, <1>2, <1>5, <1>6
<1> HIDE DEF k
<1>9. hasLine(p, buf) <=> k <= y
  <2>1. ASSUME NEW i \in 1..y, R[i].t = "lf" PROVE k <= y
    <3>1. ~(i < k) BY <1>7, <2>1
    <3> QED BY <1>1, <1>5, <3>1
  <2> QED BY <1>4, <1>8, <2>1
<1>10. k <= y <=> n <= x + y BY <1>1, <1>3 DEF k
<1>11. ASSUME hasLine(p, buf)
       PROVE  /\ l = k
              /\ lineOf(p, buf) \in Seq(ReplyChars) /\ Len(lineOf(p, buf)) = n - 2
              /\ Copies(lineOf(p, buf), s, a)
  <2>1. l \in 1..y /\ R[l].t = "lf" /\ \A j \in 1..(l - 1) : R[j].t # "lf"
    BY <1>11, LineLemma DEF l, y, R
  <2>2. k \in 1..y /\ R[k].t = "lf" BY <1>8, <1>9, <1>11
  <2>3. l = k
    <3>1. ~(l < k) BY <1>7, <2>1
    <3>2. ~(k < l)
      <4> SUFFICES ASSUME k < l PROVE FALSE OBVIOUS
      <4>1. k \in 1..(l - 1) BY <1>1, <2>1, <2>2
      <4> QED BY <2>1, <2>2, <4>1
    <3> QED BY <1>1, <2>1, <2>2, <3>1, <3>2
  <2> DEFINE f == SubSeq(R, 1, k)
             v == p.temp \o f
  <2>4. k \in Nat /\ k <= y /\ a + x \in Nat BY <1>1, <2>2
  <2>5. Copies(R, s, a + x) BY <1>2 DEF Copies, y
  <2>6. f \in Seq(ReplyChars) /\ Len(f) = k /\ Copies(f, s, a + x)
    <3>1. k <= Len(R) BY <2>4 DEF y
    <3> QED BY <1>1, <2>4, <2>5, <3>1, CopiesFront
  <2> HIDE DEF f
  <2>7. v \in Seq(ReplyChars) /\ Len(v) = x + k /\ Copies(v, s, a)
    <3>1. Copies(f, s, a + Len(p.temp)) BY <2>6 DEF x
    <3> QED BY <2>6, <3>1, CopiesConcat DEF x
  <2>8. Len(v) = n BY <1>1, <1>3, <2>7 DEF k
  <2>9. lineOf(p, buf) = rtrim(v) BY <2>3 DEF lineOf, l, R, f
  <2> HIDE DEF v
  <2> QED BY <2>3, <2>7, <2>8, <2>9, RtrimLine
<1> QED BY <1>9, <1>10, <1>11 DEF k, x, y, R, l

(* RedisBlock2 parses what the buffer holds after readPos. *)
LEMMA RestIs ==
  ASSUME NEW buf, Fresh(buf), NEW p, p.readPos \in Nat, p.readPos <= length(buf),
         NEW s, NEW w \in Nat, Copies(buf.buf, s, w)
  PROVE  /\ rest(p, unread(buf)) \in Seq(ReplyChars)
         /\ Len(rest(p, unread(buf))) = length(buf) - p.readPos
         /\ Copies(rest(p, unread(buf)), s, w + p.readPos)
<1> DEFINE u == unread(buf)
           k == p.readPos
           R == rest(p, u)
<1>1. /\ u \in Seq(ReplyChars) /\ Len(u) = length(buf) /\ length(buf) \in Nat
  BY FreshUnread
<1>2. \A i \in 1..length(buf) : u[i] = buf.buf[i]
  <2>1. /\ buf \in Buffer(ReplyChars) /\ InBounds(buf) /\ buf.readPos = 0 BY DEF Fresh
  <2>2. needReadLength(buf) = length(buf) BY FreshUnread
  <2>3. \A i \in 1..needReadLength(buf) : u[i] = buf.buf[buf.readPos + i] BY <2>1, UnreadLemma
  <2>4. \A i \in 1..length(buf) : 0 + i = i OBVIOUS
  <2> QED BY <2>1, <2>2, <2>3, <2>4
<1>3. \A i \in 1..length(buf) : s[w + i] = buf.buf[i] BY DEF Copies, length
<1> HIDE DEF u
<1>4. R \in Seq(ReplyChars) /\ Len(R) = length(buf) - k BY <1>1, RestLemma
<1>5. ASSUME NEW i \in 1..(length(buf) - k) PROVE s[(w + k) + i] = R[i]
  <2>1. k + i \in 1..length(buf) /\ w + (k + i) = (w + k) + i BY <1>1
  <2>2. R[i] = u[k + i]
    <3>1. /\ k \in Nat /\ k <= Len(u) BY <1>1
    <3>2. R = SubSeq(u, k + 1, Len(u)) BY DEF rest
    <3> HIDE DEF R, k
    <3>3. /\ \A j \in 1..(Len(u) - k) : SubSeq(u, k + 1, Len(u))[j] = u[k + j]
      BY <1>1, <3>1, BackType
    <3>4. i \in 1..(Len(u) - k) BY <1>1 DEF k
    <3> QED BY <3>2, <3>3, <3>4
  <2> QED BY <1>2, <1>3, <2>1, <2>2
<1>6. Copies(R, s, w + k)
  <2> HIDE DEF R, k
  <2> QED BY <1>4, <1>5 DEF Copies
<1> QED BY <1>4, <1>6 DEF u

(* p has the characters of s from a to w, and the buffer what follows. *)
Feed(p, buf, s, a, w) ==
  /\ p \in Parse /\ Fresh(buf)
  /\ a \in Nat /\ w \in Nat /\ w = a + Len(p.temp)
  /\ Copies(p.temp, s, a) /\ Copies(buf.buf, s, w)

(* RedisBlock's reads take what follows in s, and leave the rest. *)
LEMMA TakeIs ==
  ASSUME NEW p, NEW buf, NEW s, NEW a, NEW w, Feed(p, buf, s, a, w),
         NEW n \in Nat, n <= length(buf), NEW ok \in BOOLEAN
  PROVE  LET t == take(p, buf, n, ok) IN
         /\ Copies(t.text, s, a)
         /\ length(t.buf) = length(buf) - n
         /\ Copies(t.buf.buf, s, w + n)
         /\ t.buf.maxLen = buf.maxLen
<1>0. /\ p \in Parse /\ Fresh(buf)
      /\ a \in Nat /\ w \in Nat /\ w = a + Len(p.temp)
      /\ Copies(p.temp, s, a) /\ Copies(buf.buf, s, w)
  BY DEF Feed
<1> USE <1>0
<1> DEFINE f == peek(buf, n)
           text == p.temp \o f
           c == clearReadBuffer(readData(buf, n))
           t == take(p, buf, n, ok)
<1>1. t.text = text /\ t.buf = c BY DEF take
<1>2. /\ length(buf) \in Nat /\ needReadLength(buf) = length(buf)
      /\ buf \in Buffer(ReplyChars) /\ InBounds(buf) /\ buf.readPos = 0
  BY FreshUnread DEF Fresh
<1>3. canRead(buf, n) BY <1>2 DEF canRead
<1>4. f \in Seq(ReplyChars) /\ Len(f) = n /\ \A i \in 1..n : f[i] = buf.buf[buf.readPos + i]
  BY <1>2, <1>3, PeekLemma
<1>5. /\ c.maxLen = buf.maxLen
      /\ length(c) = needReadLength(buf) - n
      /\ \A i \in 1..length(c) : c.buf[i] = buf.buf[buf.readPos + n + i]
  BY <1>2, <1>3, ConsumeLemma
<1>6. \A i \in 1..length(buf) : s[w + i] = buf.buf[i] BY DEF Copies, length
<1> HIDE DEF f, c, t
<1>7. Copies(f, s, w)
  <2>1. \A i \in 1..n : i \in 1..length(buf) /\ 0 + i = i BY <1>2
  <2> QED BY <1>2, <1>4, <1>6, <2>1 DEF Copies
<1>8. Copies(text, s, a)
  <2>1. p.temp \in Seq(ReplyChars) BY DEF Parse
  <2>2. Copies(f, s, a + Len(p.temp)) BY <1>7
  <2> QED BY <1>4, <2>1, <2>2, CopiesConcat
<1>9. length(c) = length(buf) - n BY <1>2, <1>5
<1>10. Copies(c.buf, s, w + n)
  <2> SUFFICES ASSUME NEW i \in 1..Len(c.buf) PROVE s[(w + n) + i] = c.buf[i] BY DEF Copies
  <2>1. i \in 1..length(c) BY DEF length
  <2>2. n + i \in 1..length(buf) /\ w + (n + i) = (w + n) + i /\ 0 + n + i = n + i
    <3> DEFINE y == length(c)
               z == length(buf)
    <3>1. i \in 1..y /\ y = z - n /\ z \in Nat /\ n <= z /\ y \in Int BY <1>2, <1>9, <2>1
    <3> HIDE DEF y, z
    <3>2. n + i \in 1..z BY <3>1
    <3>3. w + (n + i) = (w + n) + i /\ 0 + n + i = n + i
      <4>1. \A j, k, l \in Int : j + (k + l) = (j + k) + l /\ 0 + k + l = k + l OBVIOUS
      <4>2. w \in Int /\ n \in Int /\ i \in Int BY <3>1
      <4> QED BY <4>1, <4>2, Zenon
    <3> QED BY <3>2, <3>3 DEF z
  <2>3. c.buf[i] = buf.buf[n + i] BY <1>2, <1>5, <2>1, <2>2
  <2> QED BY <1>6, <2>2, <2>3
<1> QED BY <1>1, <1>5, <1>8, <1>9, <1>10 DEF t

(* readline of RedisBlock. *)
LEMMA TakeLineIs ==
  ASSUME NEW p, NEW buf, NEW s, NEW a, NEW w, Feed(p, buf, s, a, w), p.readPos = 0,
         NEW n \in Nat, n >= 3, IsLine(s, a, n), Len(p.temp) < n
  PROVE  LET t == takeLine(p, buf) IN
         /\ t.ok <=> n <= Len(p.temp) + length(buf)
         /\ t.ok => /\ Len(t.text) = n - 2 /\ Copies(t.text, s, a)
                    /\ length(t.buf) = length(buf) - (n - Len(p.temp))
                    /\ Copies(t.buf.buf, s, a + n)
         /\ ~t.ok => /\ Len(t.p.temp) = Len(p.temp) + length(buf) /\ Copies(t.p.temp, s, a)
                     /\ length(t.buf) = 0
                     /\ Copies(t.buf.buf, s, w + length(buf))
         /\ t.buf.maxLen = buf.maxLen
<1>0. /\ p \in Parse /\ Fresh(buf)
      /\ a \in Nat /\ w \in Nat /\ w = a + Len(p.temp)
      /\ Copies(p.temp, s, a) /\ Copies(buf.buf, s, w)
  BY DEF Feed
<1> USE <1>0
<1> DEFINE u == unread(buf)
           ok == hasLine(p, u)
           x == Len(p.temp)
           m == IF ok THEN lineLen(p, u) ELSE needReadLength(buf)
           v == take(p, buf, m, ok)
           t == takeLine(p, buf)
<1>1. /\ u \in Seq(ReplyChars) /\ Len(u) = length(buf) /\ needReadLength(buf) = length(buf)
      /\ length(buf) \in Nat
  BY FreshUnread
<1>2. p.temp \in Seq(ReplyChars) /\ x \in Nat BY LenProperties DEF Parse
<1>3. /\ p.readPos \in Nat /\ p.readPos <= length(buf) BY <1>1
<1>4. /\ Len(rest(p, u)) = length(buf) /\ Copies(rest(p, u), s, a + x)
  <2>1. /\ Len(rest(p, u)) = length(buf) - p.readPos /\ Copies(rest(p, u), s, w + p.readPos)
    BY <1>3, RestIs
  <2>2. w + p.readPos = a + x BY <1>2
  <2> QED BY <1>1, <2>1, <2>2
<1>5. /\ ok <=> n <= x + length(buf)
      /\ ok => lineLen(p, u) = n - x
  <2>1. p.readPos \in Nat /\ p.readPos <= Len(u) BY <1>1
  <2> HIDE DEF u
  <2>2. /\ hasLine(p, u) <=> n <= Len(p.temp) + Len(rest(p, u))
        /\ hasLine(p, u) => lineLen(p, u) = n - Len(p.temp)
    <3>1. Seen(p, u, s, a) BY <1>1, <1>2, <1>4, <2>1 DEF Seen
    <3> QED BY <3>1, LineSeen
  <2> QED BY <1>4, <2>2
<1>6. t = [v EXCEPT !.text = rtrim(@)] BY DEF takeLine
<1>7. \E x1, x2, x3 : v = [ok |-> ok, text |-> x2, p |-> x1, buf |-> x3] BY DEF take
<1>8. ok \in BOOLEAN BY DEF hasLine
<1> HIDE DEF ok, u
<1>9. m \in Nat /\ m <= length(buf) /\ (ok => m = n - x) /\ (~ok => m = length(buf))
  BY <1>1, <1>2, <1>5
<1> HIDE DEF m, t
<1>10. /\ v.ok = ok
       /\ v.text \in Seq(ReplyChars) /\ Len(v.text) = x + m
       /\ v.p.temp = IF ok THEN << >> ELSE v.text
  BY <1>8, <1>9, TakeLemma
<1>11. /\ Copies(v.text, s, a)
       /\ length(v.buf) = length(buf) - m
       /\ Copies(v.buf.buf, s, w + m)
       /\ v.buf.maxLen = buf.maxLen
  BY <1>8, <1>9, TakeIs
<1> HIDE DEF v
<1>12. t.ok = ok /\ t.text = rtrim(v.text) /\ t.p = v.p /\ t.buf = v.buf BY <1>6, <1>7
<1>13. CASE ok
  <2>1. Len(v.text) = n /\ w + m = a + n BY <1>2, <1>9, <1>10, <1>13 DEF x
  <2>2. Len(rtrim(v.text)) = n - 2 /\ Copies(rtrim(v.text), s, a)
    BY <1>10, <1>11, <2>1, RtrimLine
  <2> QED BY <1>5, <1>9, <1>11, <1>12, <1>13, <2>1, <2>2 DEF t, x
<1>14. CASE ~ok
  <2>1. length(v.buf) = 0 BY <1>1, <1>9, <1>11, <1>14
  <2> QED BY <1>5, <1>9, <1>10, <1>11, <1>12, <1>14, <2>1 DEF t, x
<1> QED BY <1>13, <1>14

(* readLen of RedisBlock. *)
LEMMA TakeLenIs ==
  ASSUME NEW p, NEW buf, NEW s, NEW a, NEW w, Feed(p, buf, s, a, w),
         Len(p.temp) <= p.tempMaxLen
  PROVE  LET t == takeLen(p, buf) IN
         /\ t.ok <=> p.tempMaxLen <= Len(p.temp) + length(buf)
         /\ t.ok => /\ Len(t.text) = p.tempMaxLen /\ Copies(t.text, s, a)
                    /\ t.p.temp = << >>
                    /\ length(t.buf) = length(buf) - (p.tempMaxLen - Len(p.temp))
                    /\ Copies(t.buf.buf, s, a + p.tempMaxLen)
         /\ ~t.ok => /\ Len(t.p.temp) = Len(p.temp) + length(buf) /\ Copies(t.p.temp, s, a)
                     /\ length(t.buf) = 0
                     /\ Copies(t.buf.buf, s, w + length(buf))
         /\ t.buf.maxLen = buf.maxLen
<1>0. /\ p \in Parse /\ Fresh(buf)
      /\ a \in Nat /\ w \in Nat /\ w = a + Len(p.temp)
      /\ Copies(p.temp, s, a) /\ Copies(buf.buf, s, w)
  BY DEF Feed
<1> USE <1>0
<1> DEFINE x == Len(p.temp)
           m == need(p, p.tempMaxLen)
           ok == m <= needReadLength(buf)
           n == IF ok THEN m ELSE needReadLength(buf)
           t == takeLen(p, buf)
<1>1. needReadLength(buf) = length(buf) /\ length(buf) \in Nat BY FreshUnread
<1>2. x \in Nat /\ p.tempMaxLen \in Nat BY LenProperties DEF Parse
<1>3. m = p.tempMaxLen - x /\ m \in Nat BY <1>2 DEF need
<1>4. t = take(p, buf, n, ok) BY DEF takeLen
<1> HIDE DEF m, t
<1>5. n \in Nat /\ n <= length(buf) BY <1>1, <1>3
<1>6. ok \in BOOLEAN /\ (ok <=> p.tempMaxLen <= x + length(buf)) BY <1>1, <1>2, <1>3
<1>7. (ok => n = m) /\ (~ok => n = length(buf)) BY <1>1, <1>3
<1> HIDE DEF n, ok
<1>8. /\ t.ok = ok
      /\ Len(t.text) = x + n
      /\ t.p.temp = IF ok THEN << >> ELSE t.text
  BY <1>4, <1>5, <1>6, TakeLemma
<1>9. /\ Copies(t.text, s, a)
      /\ length(t.buf) = length(buf) - n
      /\ Copies(t.buf.buf, s, w + n)
      /\ t.buf.maxLen = buf.maxLen
  BY <1>4, <1>5, <1>6, TakeIs
<1>10. CASE ok
  <2>1. w + n = a + p.tempMaxLen /\ x + n = p.tempMaxLen /\ length(buf) - n = length(buf) - (p.tempMaxLen - x)
    BY <1>2, <1>3, <1>7, <1>10
  <2> QED BY <1>6, <1>8, <1>9, <1>10, <2>1 DEF t
<1>11. CASE ~ok
  <2>1. length(t.buf) = 0 /\ n = length(buf) BY <1>1, <1>7, <1>9, <1>11
  <2> QED BY <1>6, <1>8, <1>9, <1>11, <2>1 DEF t, x
<1> QED BY <1>10, <1>11

-----------------------------------------------------------------------------
(***************************************************************************)
(* The state of a parse: s is the stream, the reply r begins in it after   *)
(* position b, and the parser is at c.                                     *)
(***************************************************************************)

(* temp is what lies between a and c. *)
Took(p, s, a, c) == a + Len(p.temp) = c /\ Copies(p.temp, s, a)

(* What a parser makes of a reply: of an error line all but its first four characters. *)
Result(r) ==
  IF r.type = "error_reply" THEN << SubSeq(r.list[1], 4, Len(r.list[1])) >> ELSE r.list

(* An error line from which fewer characters than these can be cut off. *)
TooShort(r) == r.type = "error_reply" /\ Len(r.list[1]) < 3

Complete(r, p, b, c) ==
  p.done /\ p.type = r.type /\ p.list = Result(r) /\ c = b + ReplyLen(r)

InFirstLine(r, p, s, b, c) ==
  /\ ~p.done /\ p.type = "no_reply"
  /\ Took(p, s, b, c) /\ c < b + FirstLen(r)

InString(r, p, s, b, c) ==
  /\ ~p.done /\ p.type = "bulk_reply" /\ r.type = "bulk_reply" /\ r.list[1] # REDIS_MISSING
  /\ p.tempMaxLen = Len(r.list[1]) + 2
  /\ Took(p, s, b + 4, c) /\ c < (b + 4) + p.tempMaxLen

(* The strings of a list that were parsed are the first of those sent. *)
Elements(r, p) ==
  /\ p.type = "multi_bulk_reply" /\ r.type = "multi_bulk_reply"
  /\ p.multiCount = Len(r.list) /\ Len(p.list) < Len(r.list)
  /\ \A i \in 1..Len(p.list) : p.list[i] = r.list[i]

InLength(r, p, s, b, c) ==
  /\ ~p.done /\ Elements(r, p)
  /\ Took(p, s, b + Off(r.list)[Len(p.list)], c)
  /\ c < (b + Off(r.list)[Len(p.list)]) + 4

Parsed(r, p, s, b, c) ==
  \/ Complete(r, p, b, c)
  \/ InFirstLine(r, p, s, b, c)
  \/ InString(r, p, s, b, c)
  \/ InLength(r, p, s, b, c)

(* A bulk is a parsed text as it is. *)
LEMMA BulkType ==
  ASSUME NEW b \in Bulks
  PROVE  b \in Seq(Elem)
<1>1. Wire \subseteq Elem BY DEF Wire, Elem
<1>2. CASE b = REDIS_MISSING BY <1>2, MissingType
<1>3. CASE b # REDIS_MISSING
  <2>1. b \in Strings BY <1>3 DEF Bulks
  <2>2. b \in Seq(Wire) BY <2>1, StringType
  <2> QED BY <1>1, <2>2, SeqMonotonic
<1> QED BY <1>2, <1>3

(* The strings of a bulk reply or a list are what is made of it. *)
LEMMA BulksType ==
  ASSUME NEW r \in Replies, r.type \in {"bulk_reply", "multi_bulk_reply"}
  PROVE  /\ r.list \in Seq(Bulks) /\ r.list \in Seq(Seq(Elem))
         /\ Result(r) = r.list
<1>1. r.list \in Seq(Bulks)
  <2>1. CASE r.type = "bulk_reply"
    <3>1. r.list \in [1..1 -> Bulks] BY <2>1 DEF Replies
    <3> DEFINE k == 1
    <3>2. k \in Nat /\ r.list \in [1..k -> Bulks] BY <3>1
    <3> HIDE DEF k
    <3> QED BY <3>2
  <2>2. CASE r.type = "multi_bulk_reply" BY <2>2, ListType
  <2> QED BY <2>1, <2>2
<1> DEFINE T == Seq(Elem)
<1>2. Bulks \subseteq T BY BulkType
<1> HIDE DEF T
<1>3. r.list \in Seq(T) BY <1>1, <1>2, SeqMonotonic
<1>4. Result(r) = r.list BY DEF Result
<1> QED BY <1>1, <1>3, <1>4 DEF T

(* The characters that substr(k) returns. *)
LEMMA FromIs ==
  ASSUME NEW str \in Seq(ReplyChars), NEW k \in Nat, k <= Len(str)
  PROVE  /\ from(str, k) \in Seq(Elem) /\ Len(from(str, k)) = Len(str) - k
         /\ \A i \in 1..(Len(str) - k) : from(str, k)[i] = <<str[k + i].t, str[k + i].n>>
<1> DEFINE v == SubSeq(str, k + 1, Len(str))
           n == Len(str) - k
<1>1. /\ v \in Seq(ReplyChars) /\ Len(v) = n /\ \A i \in 1..n : v[i] = str[k + i] BY BackType
<1>2. from(str, k) = Text(v) BY DEF from
<1> HIDE DEF v, n
<1>3. Text(v) \in Seq(Elem) /\ Len(Text(v)) = n BY <1>1, TextType
<1>4. \A i \in 1..n : Text(v)[i] = <<v[i].t, v[i].n>> BY <1>1 DEF Text
<1> QED BY <1>1, <1>2, <1>3, <1>4 DEF n

(* Sequences of one and of two elements. *)
LEMMA ShortSeq ==
  ASSUME NEW S, NEW u \in Seq(S)
  PROVE  /\ Len(u) = 1 => u = <<u[1]>>
         /\ Len(u) = 2 => u = <<u[1], u[2]>>
<1>1. ASSUME Len(u) = 1 PROVE u = <<u[1]>>
  <2> DEFINE v == <<u[1]>>
  <2>1. 1 \in 1..Len(u) BY <1>1
  <2>10. u[1] \in S BY <2>1, ElementOfSeq
  <2>2. v \in Seq(S) /\ Len(v) = 1 /\ v[1] = u[1] BY <2>10
  <2> HIDE DEF v
  <2>3. \A i \in 1..Len(u) : i = 1 BY <1>1
  <2>4. u = v BY <1>1, <2>2, <2>3, SeqEqual
  <2> QED BY <2>4 DEF v
<1>2. ASSUME Len(u) = 2 PROVE u = <<u[1], u[2]>>
  <2> DEFINE v == <<u[1], u[2]>>
  <2>1. 1 \in 1..Len(u) /\ 2 \in 1..Len(u) BY <1>2
  <2>10. u[1] \in S /\ u[2] \in S BY <2>1, ElementOfSeq
  <2>2. v \in Seq(S) /\ Len(v) = 2 /\ v[1] = u[1] /\ v[2] = u[2] BY <2>10
  <2> HIDE DEF v
  <2>3. \A i \in 1..Len(u) : i = 1 \/ i = 2 BY <1>2
  <2>4. u = v BY <1>2, <2>2, <2>3, SeqEqual
  <2> QED BY <2>4 DEF v
<1> QED BY <1>1, <1>2

(* The number of a line, read back. *)
LEMMA NumberIs ==
  ASSUME NEW content \in Seq(ReplyChars), Len(content) = 2, NEW s, NEW a \in Nat,
         Copies(content, s, a), NEW first, NEW n, NumberLine(s, a, first, n)
  PROVE  hasNumber(content) /\ number(content) = n /\ content[1].t = first
<1>1. 1 \in 1..Len(content) /\ 2 \in 1..Len(content) OBVIOUS
<1>2. s[a + 1] = content[1] /\ s[a + 2] = content[2] BY <1>1 DEF Copies
<1>3. content[2].t = "d" /\ content[2].n = n /\ n \in (-INT_MAX - 1)..INT_MAX
  BY <1>2 DEF NumberLine
<1>4. content[1].t = first BY <1>2 DEF NumberLine
<1> QED BY <1>3, <1>4, HasNumberLemma

(* The text of a string, read back without its line end. *)
LEMMA StringIs ==
  ASSUME NEW b \in Bulks, b # REDIS_MISSING, NEW s, NEW a \in Nat, BulkAt(s, a, b),
         NEW p, p.tempMaxLen = Len(b) + 2,
         NEW str \in Seq(ReplyChars), Len(str) = p.tempMaxLen, Copies(str, s, a + 4)
  PROVE  withoutCRLF(p, str) = b
<1> DEFINE n == Len(b)
           v == SubSeq(str, 1, n)
<1>1. b \in Strings /\ n \in Nat /\ \A i \in 1..n : b[i] \in {<<"x", 0>>, <<"lf", 0>>}
  <2>1. b \in Strings BY DEF Bulks
  <2> QED BY <2>1, StringType
<1>2. v \in Seq(ReplyChars) /\ Len(v) = n /\ \A i \in 1..n : v[i] = str[i]
  <2>1. n <= Len(str) BY <1>1
  <2> HIDE DEF n
  <2> QED BY <1>1, <2>1, FrontType
<1>3. withoutCRLF(p, str) = Text(v)
  <2>1. p.tempMaxLen - 2 = n BY <1>1
  <2> QED BY <2>1 DEF withoutCRLF
<1>4. \A i \in 1..n : s[a + (4 + i)].t = b[i][1] /\ s[a + (4 + i)].n = b[i][2] BY DEF BulkAt
<1> HIDE DEF v
<1>5. ASSUME NEW i \in 1..n PROVE Text(v)[i] = b[i]
  <2>1. i \in 1..Len(str) /\ (a + 4) + i = a + (4 + i) BY <1>1
  <2>2. s[(a + 4) + i] = str[i] BY <2>1 DEF Copies
  <2>3. v[i].t = b[i][1] /\ v[i].n = b[i][2] BY <1>2, <1>4, <2>1, <2>2
  <2>4. b[i] = <<b[i][1], b[i][2]>> BY <1>1
  <2>5. Text(v)[i] = <<v[i].t, v[i].n>> BY <1>2 DEF Text
  <2> QED BY <2>3, <2>4, <2>5
<1>6. Text(v) \in Seq(Elem) /\ Len(Text(v)) = n BY <1>2, TextType
<1>7. b \in Seq(Elem) BY BulkType
<1>8. Text(v) = b BY <1>5, <1>6, <1>7, SeqEqual
<1> QED BY <1>3, <1>8

(* readLen of RedisBlock2 finds the string exactly if all of it is there. *)
LEMMA LenSeen ==
  ASSUME NEW p, NEW buf, NEW s, NEW a, Seen(p, buf, s, a),
         NEW m \in Nat, Len(p.temp) < m
  PROVE  /\ hasLen(p, buf, m) <=> m <= Len(p.temp) + Len(rest(p, buf))
         /\ hasLen(p, buf, m) =>
              /\ lenOf(p, buf, m) \in Seq(ReplyChars) /\ Len(lenOf(p, buf, m)) = m
              /\ Copies(lenOf(p, buf, m), s, a)
         /\ LET t == p.temp \o rest(p, buf) IN
            Len(t) = Len(p.temp) + Len(rest(p, buf)) /\ Copies(t, s, a)
<1>0. /\ a \in Nat
      /\ p.temp \in Seq(ReplyChars) /\ Copies(p.temp, s, a)
      /\ buf \in Seq(ReplyChars) /\ p.readPos \in Nat /\ p.readPos <= Len(buf)
      /\ Copies(rest(p, buf), s, a + Len(p.temp))
  BY DEF Seen
<1> USE <1>0
<1> DEFINE x == Len(p.temp)
           R == rest(p, buf)
           y == Len(R)
           k == m - x
           t == p.temp \o R
<1>1. x \in Nat /\ R \in Seq(ReplyChars) /\ y \in Nat BY LenProperties, RestLemma
<1>2. need(p, m) = k BY DEF need
<1>3. R = << >> => y = 0 BY <1>1, EmptySeq
<1>4. hasLen(p, buf, m) <=> R # << >> /\ k <= y BY <1>2 DEF hasLen
<1>5. lenOf(p, buf, m) = p.temp \o SubSeq(R, 1, k) BY <1>2 DEF lenOf
<1>6. x < m OBVIOUS
<1> HIDE DEF R, t
<1>7. Len(t) = x + y /\ Copies(t, s, a)
  <2>1. Copies(R, s, a + Len(p.temp)) BY DEF R
  <2> QED BY <1>1, <2>1, CopiesConcat DEF t
<1> HIDE DEF x, y
<1>8. k \in Nat /\ k >= 1 /\ x + k = m BY <1>1, <1>6
<1>9. (k <= y) <=> (m <= x + y) BY <1>1, <1>6
<1> HIDE DEF k
<1>10. k <= y => R # << >> BY <1>1, <1>3, <1>8
<1>11. hasLen(p, buf, m) <=> m <= x + y BY <1>4, <1>9, <1>10
<1>12. ASSUME hasLen(p, buf, m)
       PROVE  /\ lenOf(p, buf, m) \in Seq(ReplyChars) /\ Len(lenOf(p, buf, m)) = m
              /\ Copies(lenOf(p, buf, m), s, a)
  <2> DEFINE f == SubSeq(R, 1, k)
             v == p.temp \o f
  <2>1. k <= Len(R) /\ a + x \in Nat BY <1>1, <1>4, <1>12 DEF y
  <2>2. Copies(R, s, a + x) BY DEF R, x
  <2>3. f \in Seq(ReplyChars) /\ Len(f) = k /\ Copies(f, s, a + x)
    BY <1>1, <1>8, <2>1, <2>2, CopiesFront
  <2> HIDE DEF f
  <2>4. v \in Seq(ReplyChars) /\ Len(v) = x + k /\ Copies(v, s, a)
    <3>1. Copies(f, s, a + Len(p.temp)) BY <2>3 DEF x
    <3> QED BY <2>3, <3>1, CopiesConcat DEF x
  <2>5. lenOf(p, buf, m) = v BY <1>5 DEF f
  <2> HIDE DEF v
  <2> QED BY <1>8, <2>4, <2>5
<1> QED BY <1>7, <1>11, <1>12 DEF x, y, R, t

(* A parser that has read the first line has nothing of the next one. *)
LEMMA TookNothing ==
  ASSUME NEW p, p.temp = << >>, NEW s, NEW a \in Nat
  PROVE  Took(p, s, a, a)
<1>1. Len(p.temp) = 0 BY EmptySeq
<1>2. \A i \in 1..Len(p.temp) : FALSE BY <1>1
<1>3. a + Len(p.temp) = a BY <1>1
<1> QED BY <1>2, <1>3 DEF Took, Copies

(* What finish leaves of a parse. *)
LEMMA FinishIs ==
  ASSUME NEW p \in Parse, p.list = << >>, NEW text \in Seq(Elem)
  PROVE  LET f == finish(p, text) IN
         /\ f.done /\ f.threw = p.threw /\ f.type = p.type /\ f.readPos = p.readPos
         /\ f.list = <<text>>
<1> DEFINE f == finish(p, text)
<1>1. /\ f \in Parse
      /\ f.done /\ f.threw = p.threw
      /\ Len(f.list) = 1 /\ f.list[1] = text
      /\ f.type = p.type /\ f.readPos = p.readPos
  BY FinishLemma
<1> HIDE DEF f
<1> DEFINE l == f.list
<1>2. l \in Seq(Seq(Elem)) /\ Len(l) = 1 /\ l[1] = text BY <1>1 DEF Parse
<1> HIDE DEF l
<1>3. l = <<l[1]>> BY <1>2, ShortSeq
<1> QED BY <1>1, <1>2, <1>3 DEF l, f

(* A parse at the first line of a reply. *)
Begun(q) == q \in Parse /\ q.type = "no_reply" /\ q.list = << >> /\ ~q.done /\ ~q.threw

(* The replies of one line are parsed from it, if enough of an error is there to cut off. *)
LEMMA OneLine ==
  ASSUME NEW r \in Replies, InOneLine(r),
         NEW s, NEW b \in Nat, ReplyAt(s, b, r),
         NEW content \in Seq(ReplyChars), Len(content) = FirstLen(r) - 2,
         Copies(content, s, b), NEW q, Begun(q), q.temp = << >>
  PROVE  LET p == parseType(q, content) IN
         /\ p.readPos = q.readPos
         /\ TooShort(r) => p.threw
         /\ ~TooShort(r) => ~p.threw /\ Complete(r, p, b, b + FirstLen(r))
<1> DEFINE type == getReplyType(content)
           e == [q EXCEPT !.type = type]
           p == parseType(q, content)
           line == r.list[1]
           n == Len(line)
           k == IF r.type = "error_reply" THEN 4 ELSE 1
           j == IF r.type = "error_reply" THEN 3 ELSE 0
           text == from(content, k)
           x == IF r.type = "error_reply" THEN SubSeq(line, 4, n) ELSE line
<1>1. \A i \in 1..Len(content) : s[b + i] = content[i] BY DEF Copies
<1>2. /\ r.list = <<line>> /\ line \in Seq(Wire) /\ n \in Nat
      /\ \A i \in 1..n : line[i] \in Wire
  BY OneLineType
<1>3. Len(content) = n + 1
  <2>1. FirstLen(r) = n + 3 BY DEF FirstLen
  <2> HIDE DEF n
  <2> QED BY <1>2, <2>1
<1> HIDE DEF n
<1>4. content # << >> /\ 1 \in 1..Len(content) BY <1>2, <1>3, EmptySeq
<1>5. type = r.type
  <2>1. content[1].t = Sign(r) BY <1>1, <1>4 DEF ReplyAt
  <2> QED BY <1>4, <2>1 DEF getReplyType, Sign, InOneLine
<1>6. /\ e \in Parse /\ e.type = r.type /\ e.list = << >> /\ ~e.threw
      /\ e.readPos = q.readPos
  <2> HIDE DEF type
  <2>1. r.type \in Kinds BY DEF InOneLine, Kinds
  <2> QED BY <1>5, <2>1 DEF Begun, Parse
<1>7. CASE TooShort(r)
  <2>1. type = "error_reply" /\ Len(content) < 4 BY <1>2, <1>3, <1>5, <1>7 DEF TooShort, n
  <2> HIDE DEF type
  <2>2. p = [e EXCEPT !.threw = TRUE] BY <2>1 DEF parseType, type
  <2> HIDE DEF e, p
  <2>3. p.threw /\ p.readPos = q.readPos BY <1>6, <2>2 DEF Parse
  <2> QED BY <1>7, <2>3 DEF p
<1>8. CASE ~TooShort(r)
  <2>1. k \in Nat /\ k <= Len(content) /\ Len(content) - k = n - j /\ j \in Nat /\ j <= n
        /\ k = j + 1
    <3>1. r.type = "error_reply" => ~(n < 3) BY <1>8 DEF TooShort, n
    <3>2. CASE r.type = "error_reply"
      <4>1. k = 4 /\ j = 3 BY <3>2
      <4> HIDE DEF k, j
      <4> QED BY <1>2, <1>3, <3>1, <3>2, <4>1
    <3>3. CASE r.type # "error_reply"
      <4>1. k = 1 /\ j = 0 BY <3>3
      <4> HIDE DEF k, j
      <4> QED BY <1>2, <1>3, <4>1
    <3> QED BY <3>2, <3>3
  <2>2. /\ text \in Seq(Elem) /\ Len(text) = n - j
        /\ \A i \in 1..(n - j) : text[i] = <<content[k + i].t, content[k + i].n>>
    <3> HIDE DEF k
    <3>1. /\ text \in Seq(Elem) /\ Len(text) = Len(content) - k
          /\ \A i \in 1..(Len(content) - k) : text[i] = <<content[k + i].t, content[k + i].n>>
      BY <2>1, FromIs
    <3> HIDE DEF text, j
    <3> QED BY <2>1, <3>1
  <2>3. p = finish(e, text)
    <3>1. k = IF type = "error_reply" THEN 4 ELSE 1 BY <1>5
    <3>2. type = "error_reply" => ~(Len(content) < 4) BY <1>2, <1>3, <1>5, <1>8 DEF TooShort, n
    <3> HIDE DEF type
    <3>3. CASE type = "status_code_reply"
      <4>1. parseType(q, content) = finish(e, from(content, 1)) BY <3>3 DEF parseType, type
      <4> QED BY <3>1, <3>3, <4>1
    <3>4. CASE type = "error_reply"
      <4>1. parseType(q, content) = finish(e, from(content, 4)) BY <3>2, <3>4 DEF parseType, type
      <4> QED BY <3>1, <3>4, <4>1
    <3>5. CASE type = "int_reply"
      <4>1. parseType(q, content) = finish(e, from(content, 1)) BY <3>5 DEF parseType, type
      <4> QED BY <3>1, <3>5, <4>1
    <3> QED BY <1>5, <3>3, <3>4, <3>5 DEF InOneLine
  <2> HIDE DEF e, p, type
  <2>4. p.done /\ ~p.threw /\ p.type = r.type /\ p.readPos = q.readPos /\ p.list = <<text>>
    BY <1>6, <2>2, <2>3, FinishIs
  <2>5. /\ x \in Seq(Wire) /\ Len(x) = n - j
        /\ \A i \in 1..(n - j) : x[i] = line[j + i]
    <3>1. CASE r.type = "error_reply"
      <4> DEFINE m == 3
      <4>1. m \in Nat /\ m <= Len(line) /\ m = j /\ m + 1 = 4 BY <2>1, <3>1 DEF n
      <4> HIDE DEF m
      <4>2. /\ SubSeq(line, m + 1, Len(line)) \in Seq(Wire)
            /\ Len(SubSeq(line, m + 1, Len(line))) = Len(line) - m
            /\ \A i \in 1..(Len(line) - m) : SubSeq(line, m + 1, Len(line))[i] = line[m + i]
        BY <1>2, <4>1, BackType
      <4>3. x = SubSeq(line, m + 1, Len(line)) BY <3>1, <4>1 DEF n
      <4> HIDE DEF x, j
      <4> QED BY <4>1, <4>2, <4>3 DEF n
    <3>2. CASE r.type # "error_reply"
      <4>1. x = line /\ j = 0 /\ n - j = n /\ \A i \in 1..n : j + i = i BY <1>2, <3>2
      <4> HIDE DEF x, j
      <4> QED BY <1>2, <4>1 DEF n
    <3> QED BY <3>1, <3>2
  <2> HIDE DEF text, k, j, x
  <2>6. ASSUME NEW i \in 1..(n - j) PROVE text[i] = x[i]
    <3>1. j + i \in 1..n /\ k + i = 1 + (j + i) /\ 1 + (j + i) \in 1..Len(content)
      BY <1>2, <1>3, <2>1
    <3>2. s[b + (1 + (j + i))].t = line[j + i][1] /\ s[b + (1 + (j + i))].n = line[j + i][2]
      BY <3>1 DEF ReplyAt, n
    <3>3. content[k + i].t = line[j + i][1] /\ content[k + i].n = line[j + i][2]
      BY <1>1, <3>1, <3>2
    <3>4. \A w \in Wire : w = <<w[1], w[2]>> BY DEF Wire
    <3>5. line[j + i] = <<line[j + i][1], line[j + i][2]>> BY <1>2, <3>1, <3>4
    <3> QED BY <2>2, <2>5, <3>3, <3>5
  <2>7. text = x
    <3>1. Wire \subseteq Elem BY DEF Wire, Elem
    <3>2. x \in Seq(Elem) BY <2>5, <3>1, SeqMonotonic
    <3> QED BY <2>2, <2>5, <2>6, <3>2, SeqEqual
  <2>8. Result(r) = <<x>> BY <1>2 DEF Result, x, n
  <2>9. ReplyLen(r) = FirstLen(r) BY DEF ReplyLen, InOneLine
  <2>10. Complete(r, p, b, b + FirstLen(r)) BY <2>4, <2>7, <2>8, <2>9 DEF Complete
  <2> QED BY <1>8, <2>4, <2>10 DEF p
<1> QED BY <1>7, <1>8

(* The first line of a bulk reply and of a list holds a number. *)
LEMMA NumberFirst ==
  ASSUME NEW q \in Parse, NEW content \in Seq(ReplyChars), NEW type \in {"bulk_reply", "multi_bulk_reply"},
         Len(content) = 2,
         content[1].t = IF type = "bulk_reply" THEN "$" ELSE "*", hasNumber(content)
  PROVE  LET e == [q EXCEPT !.type = type]
             p == parseType(q, content) IN
         /\ type = "bulk_reply" =>
              p = IF number(content) = -1 THEN finish(e, REDIS_MISSING)
                  ELSE [e EXCEPT !.tempMaxLen = number(content) + 2]
         /\ type = "multi_bulk_reply" =>
              p = IF number(content) = -1 THEN [e EXCEPT !.done = TRUE]
                  ELSE [e EXCEPT !.multiCount = number(content)]
<1>1. content # << >> BY EmptySeq
<1>2. getReplyType(content) = type BY <1>1 DEF getReplyType
<1> DEFINE y == getReplyType(content)
<1>3. CASE type = "bulk_reply"
  <2>1. y = "bulk_reply" BY <1>2, <1>3
  <2> HIDE DEF y
  <2>2. parseType(q, content) =
          LET e == [q EXCEPT !.type = y] IN
          IF number(content) = -1 THEN finish(e, REDIS_MISSING)
          ELSE [e EXCEPT !.tempMaxLen = number(content) + 2]
    BY <2>1 DEF parseType, y
  <2> QED BY <1>3, <2>1, <2>2
<1>4. CASE type = "multi_bulk_reply"
  <2>1. y = "multi_bulk_reply" BY <1>2, <1>4
  <2> HIDE DEF y
  <2>2. parseType(q, content) =
          LET e == [q EXCEPT !.type = y] IN
          IF number(content) = -1 THEN [e EXCEPT !.done = TRUE]
          ELSE [e EXCEPT !.multiCount = number(content)]
    BY <2>1 DEF parseType, y
  <2> QED BY <1>4, <2>1, <2>2
<1> QED BY <1>3, <1>4

(* A bulk reply is announced by its first line, or complete. *)
LEMMA BulkFirst ==
  ASSUME NEW r \in Replies, r.type = "bulk_reply",
         NEW s, NEW b \in Nat, ReplyAt(s, b, r),
         NEW content \in Seq(ReplyChars), Len(content) = 2,
         Copies(content, s, b), NEW q, Begun(q), q.temp = << >>
  PROVE  LET p == parseType(q, content) IN
         /\ ~p.threw /\ p.readPos = q.readPos
         /\ Complete(r, p, b, b + 4) \/ InString(r, p, s, b, b + 4)
<1> DEFINE p == parseType(q, content)
           e == [q EXCEPT !.type = "bulk_reply"]
           str == r.list[1]
           n == IF str = REDIS_MISSING THEN -1 ELSE Len(str)
<1>1. BulkAt(s, b, str) BY DEF ReplyAt
<1>2. str \in Bulks /\ Len(r.list) = 1
  <2> DEFINE k == 1
  <2>1. r.list \in [1..k -> Bulks] /\ k \in Nat /\ 1 \in 1..k BY DEF Replies
  <2> HIDE DEF k
  <2>2. Len(r.list) = k /\ r.list[1] \in Bulks BY <2>1
  <2> QED BY <2>2 DEF k
<1>3. NumberLine(s, b, "$", n) BY <1>1 DEF BulkAt
<1> HIDE DEF n, str
<1>4. hasNumber(content) /\ number(content) = n /\ content[1].t = "$" BY <1>3, NumberIs
<1>5. p = IF n = -1 THEN finish(e, REDIS_MISSING) ELSE [e EXCEPT !.tempMaxLen = n + 2]
  <2>1. q \in Parse BY DEF Begun
  <2>2. content[1].t = (IF "bulk_reply" = "bulk_reply" THEN "$" ELSE "*") BY <1>4
  <2>3. "bulk_reply" \in {"bulk_reply", "multi_bulk_reply"} OBVIOUS
  <2>4. p = IF number(content) = -1 THEN finish(e, REDIS_MISSING)
            ELSE [e EXCEPT !.tempMaxLen = number(content) + 2]
    BY <1>4, <2>1, <2>2, <2>3, NumberFirst
  <2> QED BY <1>4, <2>4
<1>6. /\ e \in Parse /\ e.type = "bulk_reply" /\ e.list = << >> /\ ~e.threw /\ ~e.done
      /\ e.readPos = q.readPos /\ e.temp = << >>
  <2>1. "bulk_reply" \in Kinds BY DEF Kinds
  <2> QED BY <2>1 DEF Begun, Parse
<1> HIDE DEF e, p
<1>7. CASE str = REDIS_MISSING
  <2>1. n = -1 BY <1>7 DEF n
  <2>2. p.done /\ ~p.threw /\ p.type = "bulk_reply" /\ p.readPos = q.readPos
        /\ p.list = <<REDIS_MISSING>>
    BY <1>5, <1>6, <2>1, FinishIs, MissingType
  <2>3. Result(r) = <<REDIS_MISSING>>
    <3> DEFINE l == r.list
    <3>1. l \in Seq(Bulks) /\ Result(r) = l BY BulksType
    <3>2. Len(l) = 1 /\ l[1] = REDIS_MISSING BY <1>2, <1>7 DEF str
    <3> HIDE DEF l
    <3>3. l = <<l[1]>> BY <3>1, <3>2, ShortSeq
    <3> QED BY <3>1, <3>2, <3>3
  <2>4. ReplyLen(r) = 4 BY <1>7 DEF ReplyLen, BulkLen, str
  <2>5. Complete(r, p, b, b + 4) BY <2>2, <2>3, <2>4 DEF Complete
  <2> QED BY <2>2, <2>5 DEF p
<1>8. CASE str # REDIS_MISSING
  <2>1. n = Len(str) /\ n \in Nat
    <3>1. str \in Strings BY <1>2, <1>8 DEF Bulks
    <3> QED BY <1>8, <3>1, StringType DEF n
  <2>2. /\ ~p.done /\ ~p.threw /\ p.type = "bulk_reply" /\ p.readPos = q.readPos
        /\ p.temp = << >> /\ p.tempMaxLen = n + 2
    <3>1. p = [e EXCEPT !.tempMaxLen = n + 2] BY <1>5, <2>1
    <3> QED BY <1>6, <3>1 DEF Parse
  <2>3. b + 4 \in Nat OBVIOUS
  <2>4. Took(p, s, b + 4, b + 4) BY <2>2, <2>3, TookNothing
  <2>5. b + 4 < (b + 4) + p.tempMaxLen BY <2>1, <2>2
  <2>6. InString(r, p, s, b, b + 4) BY <1>8, <2>1, <2>2, <2>4, <2>5 DEF InString, str
  <2> QED BY <2>2, <2>6 DEF p
<1> QED BY <1>7, <1>8

(* A list is announced by its first line, or null. *)
LEMMA ListFirst ==
  ASSUME NEW r \in Replies, r.type = "multi_bulk_reply",
         NEW s, NEW b \in Nat, ReplyAt(s, b, r),
         NEW content \in Seq(ReplyChars), Len(content) = 2,
         Copies(content, s, b), NEW q, Begun(q), q.temp = << >>
  PROVE  LET p == parseType(q, content) IN
         /\ ~p.threw /\ p.readPos = q.readPos
         /\ Complete(r, p, b, b + 4) \/ InLength(r, p, s, b, b + 4)
<1> DEFINE p == parseType(q, content)
           e == [q EXCEPT !.type = "multi_bulk_reply"]
           N == Len(r.list)
           n == IF r.list = << >> THEN -1 ELSE N
           o == Off(r.list)
<1>1. r.list \in Seq(Bulks) /\ N \in Nat BY ListType
<1>2. NumberLine(s, b, "*", n) BY DEF ReplyAt
<1>3. o[0] = 4 BY <1>1, OffLemma DEF Offsets
<1> HIDE DEF o, n
<1>4. hasNumber(content) /\ number(content) = n /\ content[1].t = "*" BY <1>2, NumberIs
<1>5. p = IF n = -1 THEN [e EXCEPT !.done = TRUE] ELSE [e EXCEPT !.multiCount = n]
  <2>1. q \in Parse BY DEF Begun
  <2>2. content[1].t = (IF "multi_bulk_reply" = "bulk_reply" THEN "$" ELSE "*") BY <1>4
  <2>3. "multi_bulk_reply" \in {"bulk_reply", "multi_bulk_reply"} OBVIOUS
  <2>4. p = IF number(content) = -1 THEN [e EXCEPT !.done = TRUE]
            ELSE [e EXCEPT !.multiCount = number(content)]
    BY <1>4, <2>1, <2>2, <2>3, NumberFirst
  <2> QED BY <1>4, <2>4
<1>6. /\ e \in Parse /\ e.type = "multi_bulk_reply" /\ e.list = << >> /\ ~e.threw /\ ~e.done
      /\ e.readPos = q.readPos /\ e.temp = << >>
  <2>1. "multi_bulk_reply" \in Kinds BY DEF Kinds
  <2> QED BY <2>1 DEF Begun, Parse
<1> HIDE DEF e, p
<1>7. CASE r.list = << >>
  <2>1. n = -1 /\ N = 0 BY <1>1, <1>7, EmptySeq DEF n
  <2>2. /\ p.done /\ ~p.threw /\ p.type = "multi_bulk_reply" /\ p.readPos = q.readPos
        /\ p.list = << >>
    <3>1. p = [e EXCEPT !.done = TRUE] BY <1>5, <2>1
    <3> QED BY <1>6, <3>1 DEF Parse
  <2>3. Result(r) = << >> BY <1>7, BulksType
  <2>4. ReplyLen(r) = 4 BY <1>3, <2>1 DEF ReplyLen, o
  <2>5. Complete(r, p, b, b + 4) BY <2>2, <2>3, <2>4 DEF Complete
  <2> QED BY <2>2, <2>5 DEF p
<1>8. CASE r.list # << >>
  <2>1. n = N /\ N > 0 /\ n # -1 BY <1>1, <1>8, EmptySeq DEF n
  <2>2. /\ ~p.done /\ ~p.threw /\ p.type = "multi_bulk_reply" /\ p.readPos = q.readPos
        /\ p.temp = << >> /\ p.multiCount = N /\ p.list = << >>
    <3>1. p = [e EXCEPT !.multiCount = n] BY <1>5, <2>1
    <3> QED BY <1>6, <2>1, <3>1 DEF Parse
  <2>3. Len(p.list) = 0 /\ \A i \in 1..Len(p.list) : FALSE
    <3>1. Len(p.list) = 0 BY <2>2, EmptySeq
    <3> QED BY <3>1
  <2>4. Elements(r, p) BY <2>1, <2>2, <2>3 DEF Elements
  <2>5. b + o[Len(p.list)] = b + 4 BY <1>3, <2>3
  <2>6. b + 4 \in Nat /\ b + 4 < (b + 4) + 4 OBVIOUS
  <2>7. Took(p, s, b + 4, b + 4) BY <2>2, <2>6, TookNothing
  <2>8. InLength(r, p, s, b, b + 4) BY <2>2, <2>4, <2>5, <2>6, <2>7 DEF InLength, o
  <2> QED BY <2>2, <2>8 DEF p
<1> QED BY <1>7, <1>8

(* What a parser makes of the first line of a reply. *)
LEMMA FirstLine ==
  ASSUME NEW r \in Replies, NEW s, NEW b \in Nat, ReplyAt(s, b, r),
         NEW content \in Seq(ReplyChars), Len(content) = FirstLen(r) - 2,
         Copies(content, s, b), NEW q, Begun(q), q.temp = << >>
  PROVE  LET p == parseType(q, content) IN
         /\ p.readPos = q.readPos
         /\ TooShort(r) => p.threw
         /\ ~TooShort(r) => ~p.threw /\ Parsed(r, p, s, b, b + FirstLen(r))
<1> DEFINE p == parseType(q, content)
<1> HIDE DEF p
<1>1. CASE InOneLine(r)
  <2>1. /\ p.readPos = q.readPos
        /\ TooShort(r) => p.threw
        /\ ~TooShort(r) => ~p.threw /\ Complete(r, p, b, b + FirstLen(r))
    BY <1>1, OneLine DEF p
  <2> QED BY <2>1 DEF Parsed, p
<1>2. CASE r.type = "bulk_reply"
  <2>1. FirstLen(r) = 4 /\ ~TooShort(r) BY <1>2 DEF FirstLen, InOneLine, TooShort
  <2>2. Len(content) = 2 BY <2>1
  <2>3. ~p.threw /\ p.readPos = q.readPos
        /\ (Complete(r, p, b, b + 4) \/ InString(r, p, s, b, b + 4))
    BY <1>2, <2>2, BulkFirst DEF p
  <2> QED BY <2>1, <2>3 DEF Parsed, p
<1>3. CASE r.type = "multi_bulk_reply"
  <2>1. FirstLen(r) = 4 /\ ~TooShort(r) BY <1>3 DEF FirstLen, InOneLine, TooShort
  <2>2. Len(content) = 2 BY <2>1
  <2>3. ~p.threw /\ p.readPos = q.readPos
        /\ (Complete(r, p, b, b + 4) \/ InLength(r, p, s, b, b + 4))
    BY <1>3, <2>2, ListFirst DEF p
  <2> QED BY <2>1, <2>3 DEF Parsed, p
<1>4. InOneLine(r) \/ r.type \in {"bulk_reply", "multi_bulk_reply"} BY DEF Replies, InOneLine
<1> QED BY <1>1, <1>2, <1>3, <1>4

(* The string of a list that is parsed next, and where it ends. *)
ToParse(r, p) == r.list[Len(p.list) + 1]
After(r, p)   == Off(r.list)[Len(p.list) + 1]

(* The string of a list is at hand. *)
AtHand(r, q, text) ==
  q \in Parse /\ ~q.threw /\ q.temp = << >> /\ Elements(r, q) /\ text = ToParse(r, q)

(* One more string of a list is parsed. *)
LEMMA ElementParsed ==
  ASSUME NEW r \in Replies, NEW p, NEW text, AtHand(r, p, text), NEW s, NEW b \in Nat
  PROVE  LET e == element(p, text) IN
         /\ ~e.p.threw /\ e.p.readPos = p.readPos /\ e.again = ~e.p.done
         /\ Parsed(r, e.p, s, b, b + After(r, p))
<1> DEFINE l == Append(p.list, text)
           e == element(p, text)
           f == e.p
           k == Len(p.list)
           N == Len(r.list)
           m == r.list
           o == Off(r.list)
<1> USE DEF ToParse, After
<1>15. p \in Parse /\ ~p.threw /\ p.temp = << >> /\ Elements(r, p) /\ text = ToParse(r, p)
  BY DEF AtHand
<1>1. /\ r.type = "multi_bulk_reply" /\ p.type = "multi_bulk_reply"
      /\ p.multiCount = N /\ k < N /\ \A i \in 1..k : p.list[i] = m[i]
  BY <1>15 DEF Elements
<1>2. r.list \in Seq(Bulks) /\ N \in Nat BY <1>1, ListType
<1>3. p.list \in Seq(Seq(Elem)) /\ k \in Nat BY <1>15, LenProperties DEF Parse
<1>4. k + 1 \in 1..N /\ k + 1 \in 0..N BY <1>1, <1>2, <1>3
<1>5. /\ m \in Seq(Seq(Elem)) /\ Len(m) = N /\ Result(r) = m
      /\ m[k + 1] = text
  BY <1>1, <1>4, <1>15, BulksType
<1>6. text \in Seq(Elem) BY <1>4, <1>5, ElementOfSeq
<1>7. /\ l \in Seq(Seq(Elem)) /\ Len(l) = k + 1 /\ l[k + 1] = text
      /\ \A i \in 1..k : l[i] = p.list[i]
  BY <1>3, <1>6, AppendProperties
<1>8. \A i \in 1..(k + 1) : l[i] = m[i]
  <2>1. \A i \in 1..(k + 1) : i = k + 1 \/ i \in 1..k BY <1>3
  <2> HIDE DEF l, m
  <2> QED BY <1>1, <1>5, <1>7, <2>1
<1>9. e.p = [p EXCEPT !.list = l, !.done = (Len(l) = p.multiCount)] BY DEF element
<1> HIDE DEF l, m, o
<1>10. /\ f.type = p.type /\ f.multiCount = p.multiCount /\ f.temp = << >>
       /\ f.list = l /\ (f.done <=> k + 1 = N)
  <2>1. f.done = (Len(l) = p.multiCount) BY <1>9, <1>15 DEF Parse
  <2> HIDE DEF f
  <2>2. f.done <=> k + 1 = N BY <1>1, <1>7, <2>1
  <2> QED BY <1>9, <1>15, <2>2 DEF Parse, f
<1>11. ~f.threw /\ f.readPos = p.readPos /\ e.again = ~f.done BY <1>1, <1>6, <1>15, ElementLemma
<1> HIDE DEF f
<1>12. o[k + 1] \in Nat /\ b + o[k + 1] \in Nat
  <2>1. o \in [0..N -> Nat] BY <1>2, OffLemma DEF Offsets, o
  <2>2. o[k + 1] \in Nat BY <1>4, <2>1
  <2> QED BY <2>2
<1>13. CASE k + 1 = N
  <2>1. f.list = m
    <3>1. Len(l) = Len(m) /\ \A i \in 1..Len(l) : l[i] = m[i] BY <1>5, <1>7, <1>8, <1>13
    <3>2. l = m BY <1>5, <1>7, <3>1, SeqEqual
    <3> QED BY <1>10, <3>2
  <2>2. ReplyLen(r) = o[k + 1] BY <1>1, <1>13 DEF ReplyLen, o
  <2>3. Complete(r, f, b, b + o[k + 1]) BY <1>1, <1>5, <1>10, <1>13, <2>1, <2>2 DEF Complete
  <2> QED BY <1>11, <2>3 DEF Parsed, o, f
<1>14. CASE k + 1 # N
  <2>1. Len(f.list) = k + 1 /\ k + 1 < N BY <1>1, <1>2, <1>3, <1>7, <1>10, <1>14
  <2>2. \A i \in 1..Len(f.list) : f.list[i] = m[i] BY <1>8, <1>10, <2>1
  <2>3. Elements(r, f) BY <1>1, <1>10, <2>1, <2>2 DEF Elements, m
  <2> DEFINE c == b + o[k + 1]
  <2>4. c \in Nat BY <1>12
  <2>5. c < c + 4 BY <2>4
  <2>6. Took(f, s, c, c) BY <1>10, <2>4, TookNothing
  <2>7. c = b + o[Len(f.list)] BY <2>1
  <2> HIDE DEF c
  <2>8. InLength(r, f, s, b, c) BY <1>10, <1>14, <2>3, <2>5, <2>6, <2>7 DEF InLength, o
  <2> QED BY <1>11, <2>8 DEF Parsed, o, f, c
<1> QED BY <1>13, <1>14

(* A parser that is not done is not at the end of its reply. *)
LEMMA NotDone ==
  ASSUME NEW r \in Replies, NEW p, p.temp \in Seq(ReplyChars), ~p.done,
         NEW s, NEW b \in Nat, NEW c, Parsed(r, p, s, b, c),
         ReplyLen(r) \in Nat, FirstLen(r) <= ReplyLen(r)
  PROVE  c \in Nat /\ b <= c /\ c < b + ReplyLen(r)
<1>1. Len(p.temp) \in Nat BY LenProperties
<1>2. FirstLen(r) \in Nat BY FirstLenLemma
<1>3. CASE InFirstLine(r, p, s, b, c) BY <1>1, <1>2, <1>3 DEF InFirstLine, Took
<1>4. CASE InString(r, p, s, b, c)
  <2>1. /\ r.type = "bulk_reply" /\ r.list[1] # REDIS_MISSING
        /\ p.tempMaxLen = Len(r.list[1]) + 2
        /\ (b + 4) + Len(p.temp) = c /\ c < (b + 4) + p.tempMaxLen
    BY <1>4 DEF InString, Took
  <2>2. ReplyLen(r) = Len(r.list[1]) + 6 BY <2>1 DEF ReplyLen, BulkLen
  <2>3. Len(r.list[1]) \in Nat
    <3>1. r.list[1] \in Bulks
      <4> DEFINE k == 1
      <4>1. r.list \in [1..k -> Bulks] /\ 1 \in 1..k BY <2>1 DEF Replies
      <4> HIDE DEF k
      <4> QED BY <4>1
    <3>2. r.list[1] \in Strings BY <2>1, <3>1 DEF Bulks
    <3> QED BY <3>2, StringType
  <2> DEFINE x == Len(p.temp)
             y == Len(r.list[1])
             z == ReplyLen(r)
  <2>4. x \in Nat /\ y \in Nat /\ z = y + 6 /\ c = (b + 4) + x /\ c < (b + 4) + (y + 2)
    BY <1>1, <2>1, <2>2, <2>3
  <2> HIDE DEF x, y, z
  <2>5. c \in Nat /\ b <= c /\ c < b + z BY <2>4
  <2> QED BY <2>5 DEF z
<1>5. CASE InLength(r, p, s, b, c)
  <2> DEFINE o == Off(r.list)
             k == Len(p.list)
             N == Len(r.list)
  <2>1. /\ r.type = "multi_bulk_reply" /\ k < N
        /\ (b + o[k]) + Len(p.temp) = c /\ c < (b + o[k]) + 4
    BY <1>5 DEF InLength, Took, Elements
  <2>2. r.list \in Seq(Bulks) /\ N \in Nat BY <2>1, ListType
  <2>3. ReplyLen(r) = o[N] BY <2>1 DEF ReplyLen
  <2>4. /\ o \in [0..N -> Nat]
        /\ \A j \in 0..N : o[j] <= o[N]
        /\ \A j \in 1..N : o[j - 1] + 4 <= o[j]
    BY <2>2, OffLemma DEF Offsets
  <2>5. k \in Nat BY LenProperties
  <2> HIDE DEF o, k, N
  <2>6. k + 1 \in 1..N /\ k + 1 \in 0..N /\ k \in 0..N /\ (k + 1) - 1 = k BY <2>1, <2>2, <2>5
  <2>7. /\ o[k] + 4 <= o[k + 1] /\ o[k + 1] <= o[N]
        /\ o[k] \in Nat /\ o[k + 1] \in Nat /\ o[N] \in Nat
    <3>1. N \in 0..N BY <2>2
    <3> QED BY <2>4, <2>6, <3>1
  <2> DEFINE x == Len(p.temp)
             z == ReplyLen(r)
  <2>8. x \in Nat /\ z = o[N] /\ c = (b + o[k]) + x /\ c < (b + o[k]) + 4
    BY <1>1, <2>1, <2>3
  <2> DEFINE u == o[k]
             v == o[k + 1]
  <2>10. u + 4 <= v /\ v <= z /\ u \in Nat /\ v \in Nat /\ z \in Nat BY <2>7, <2>8
  <2>11. x \in Nat /\ c = (b + u) + x /\ c < (b + u) + 4 BY <2>8
  <2> HIDE DEF x, z, u, v
  <2>9. c \in Nat /\ b <= c /\ c < b + z BY <2>10, <2>11
  <2> QED BY <2>9 DEF z
<1> QED BY <1>3, <1>4, <1>5 DEF Parsed, Complete

-----------------------------------------------------------------------------
(***************************************************************************)
(* RedisBlock2: buf are the characters of s between w and A, the parser is *)
(* at w + readPos.                                                         *)
(***************************************************************************)
View(p, buf, s, w, A) ==
  /\ p \in Parse /\ buf \in Seq(ReplyChars) /\ p.readPos <= Len(buf)
  /\ w \in Nat /\ A = w + Len(buf) /\ Copies(buf, s, w)

(* What is not parsed yet. *)
LEMMA RestSeen ==
  ASSUME NEW p, NEW buf, NEW s, NEW w, NEW A, View(p, buf, s, w, A)
  PROVE  /\ rest(p, buf) \in Seq(ReplyChars)
         /\ Len(rest(p, buf)) = Len(buf) - p.readPos
         /\ Copies(rest(p, buf), s, w + p.readPos)
<1> DEFINE k == p.readPos
           n == Len(buf)
           R == rest(p, buf)
<1>1. /\ buf \in Seq(ReplyChars) /\ k <= n /\ w \in Nat /\ Copies(buf, s, w) BY DEF View
<1>2. k \in Nat /\ n \in Nat BY <1>1, LenProperties DEF View, Parse
<1>3. R = SubSeq(buf, k + 1, n) BY DEF rest
<1>4. /\ SubSeq(buf, k + 1, n) \in Seq(ReplyChars)
      /\ Len(SubSeq(buf, k + 1, n)) = n - k
      /\ \A i \in 1..(n - k) : SubSeq(buf, k + 1, n)[i] = buf[k + i]
  <2> HIDE DEF k
  <2> QED BY <1>1, <1>2, BackType
<1>5. \A i \in 1..n : s[w + i] = buf[i] BY <1>1 DEF Copies
<1> HIDE DEF k, n, R
<1>6. ASSUME NEW i \in 1..(n - k) PROVE s[(w + k) + i] = R[i]
  <2>1. k + i \in 1..n /\ w + (k + i) = (w + k) + i BY <1>1, <1>2
  <2> QED BY <1>3, <1>4, <1>5, <2>1
<1>7. Copies(R, s, w + k) BY <1>3, <1>4, <1>6 DEF Copies
<1> QED BY <1>3, <1>4, <1>7 DEF k, n, R

(* With what was taken before, it lies in s after a. *)
LEMMA TookSeen ==
  ASSUME NEW p, NEW buf, NEW s, NEW w, NEW A, View(p, buf, s, w, A),
         NEW a \in Nat, Took(p, s, a, w + p.readPos)
  PROVE  /\ Seen(p, buf, s, a)
         /\ Len(p.temp) \in Nat /\ a + Len(p.temp) = w + p.readPos
         /\ Len(rest(p, buf)) = Len(buf) - p.readPos /\ Len(buf) \in Nat /\ p.readPos \in Nat
         /\ \A n \in Nat : n <= Len(p.temp) + Len(rest(p, buf)) <=> a + n <= A
<1> DEFINE R == rest(p, buf)
           x == Len(p.temp)
           y == Len(R)
           k == p.readPos
           l == Len(buf)
<1>1. R \in Seq(ReplyChars) /\ y = l - k /\ Copies(R, s, w + k) BY RestSeen
<1>2. /\ p \in Parse /\ buf \in Seq(ReplyChars) /\ k <= l /\ w \in Nat /\ A = w + l BY DEF View
<1>3. p.temp \in Seq(ReplyChars) /\ k \in Nat /\ x \in Nat /\ l \in Nat
  BY <1>2, LenProperties DEF Parse
<1>4. a + x = w + k /\ Copies(p.temp, s, a) BY DEF Took
<1>5. Seen(p, buf, s, a) BY <1>1, <1>2, <1>3, <1>4 DEF Seen
<1> HIDE DEF R, x, y, k, l
<1>6. \A n \in Nat : n <= x + y <=> a + n <= A BY <1>1, <1>2, <1>3, <1>4
<1> QED BY <1>1, <1>3, <1>4, <1>5, <1>6 DEF R, x, y, k, l

(* No line ends between c and A. *)
NoEnd(s, c, A) == \A i \in (c + 1)..A : s[i].t # "lf"

(* No complete line: no line end in what is not parsed. *)
LEMMA NoLineSeen ==
  ASSUME NEW p, NEW buf, NEW s, NEW w, NEW A, View(p, buf, s, w, A), ~hasLine(p, buf)
  PROVE  NoEnd(s, w + p.readPos, A)
<1> DEFINE R == rest(p, buf)
           k == p.readPos
           n == Len(buf)
<1>1. Len(R) = n - k /\ Copies(R, s, w + k) BY RestSeen
<1>2. w \in Nat /\ A = w + n /\ k \in Nat /\ n \in Nat BY LenProperties DEF View, Parse
<1>3. \A i \in 1..Len(R) : R[i].t # "lf" /\ s[(w + k) + i] = R[i] BY <1>1 DEF hasLine, Copies
<1> HIDE DEF R, n, k
<1> SUFFICES ASSUME NEW i \in ((w + k) + 1)..A PROVE s[i].t # "lf" BY DEF NoEnd, k
<1> DEFINE j == i - (w + k)
<1>4. j \in 1..(n - k) /\ (w + k) + j = i BY <1>2
<1> HIDE DEF j
<1> QED BY <1>1, <1>3, <1>4

(* The first line. *)
LEMMA ParseTypeSeen ==
  ASSUME NEW r \in Replies, NEW s, NEW b \in Nat, ReplyAt(s, b, r),
         NEW p, NEW buf, NEW w, NEW A, View(p, buf, s, w, A), Begun(p),
         InFirstLine(r, p, s, b, w + p.readPos)
  PROVE  /\ ~hasLine(p, buf) => A < b + FirstLen(r) /\ NoEnd(s, w + p.readPos, A)
         /\ hasLine(p, buf) =>
              LET q == parseType(readLine(p, buf), lineOf(p, buf)) IN
              /\ b + FirstLen(r) <= A
              /\ w + q.readPos = b + FirstLen(r)
              /\ TooShort(r) => q.threw
              /\ ~TooShort(r) => ~q.threw /\ Parsed(r, q, s, b, w + q.readPos)
<1> DEFINE n == FirstLen(r)
           x == Len(p.temp)
           k == p.readPos
           q == readLine(p, buf)
           content == lineOf(p, buf)
           f == parseType(q, content)
<1>1. n \in Nat /\ n >= 3 BY FirstLenLemma
<1>2. Took(p, s, b, w + k) /\ w + k < b + n BY DEF InFirstLine
<1>3. /\ Seen(p, buf, s, b) /\ x \in Nat /\ b + x = w + k /\ k \in Nat
      /\ \A i \in Nat : i <= x + Len(rest(p, buf)) <=> b + i <= A
  BY <1>2, TookSeen
<1>4. A \in Nat /\ w \in Nat BY LenProperties DEF View
<1>5. IsLine(s, b, n) BY DEF ReplyAt
<1>6. x < n
  <2> HIDE DEF n, x, k
  <2> QED BY <1>1, <1>2, <1>3, <1>4
<1>7. /\ hasLine(p, buf) <=> n <= x + Len(rest(p, buf))
      /\ hasLine(p, buf) =>
           /\ lineLen(p, buf) = n - x
           /\ content \in Seq(ReplyChars) /\ Len(content) = n - 2 /\ Copies(content, s, b)
  <2> HIDE DEF n
  <2> QED BY <1>1, <1>3, <1>5, <1>6, LineSeen
<1>8. hasLine(p, buf) <=> b + n <= A
  <2> HIDE DEF n
  <2> QED BY <1>1, <1>3, <1>7
<1>9. ~hasLine(p, buf) => A < b + n /\ NoEnd(s, w + p.readPos, A)
  <2> HIDE DEF n
  <2> QED BY <1>1, <1>4, <1>8, NoLineSeen
<1>10. ASSUME hasLine(p, buf)
       PROVE  /\ b + n <= A /\ w + f.readPos = b + n
              /\ TooShort(r) => f.threw
              /\ ~TooShort(r) => ~f.threw /\ Parsed(r, f, s, b, b + n)
  <2> DEFINE e == << >>
             z == k + lineLen(p, buf)
  <2>1. e \in Seq(ReplyChars) BY EmptySeq
  <2>2. z \in Nat /\ w + z = b + n
    <3> DEFINE l == lineLen(p, buf)
    <3>1. l = n - x BY <1>7, <1>10
    <3> HIDE DEF l, n, x, k
    <3> QED BY <1>1, <1>3, <1>4, <1>6, <3>1 DEF l
  <2>3. q = [p EXCEPT !.temp = e, !.readPos = z] BY DEF readLine
  <2>4. e = << >> OBVIOUS
  <2> HIDE DEF e, z, q
  <2>5. Begun(q) /\ q.temp = << >> /\ q.readPos = z BY <2>1, <2>2, <2>3, <2>4 DEF Begun, Parse
  <2>6. content \in Seq(ReplyChars) /\ Len(content) = n - 2 /\ Copies(content, s, b)
    BY <1>7, <1>10
  <2> HIDE DEF content
  <2>7. /\ f.readPos = q.readPos
        /\ TooShort(r) => f.threw
        /\ ~TooShort(r) => ~f.threw /\ Parsed(r, f, s, b, b + n)
    BY <2>5, <2>6, FirstLine
  <2> HIDE DEF n, f
  <2> QED BY <1>8, <1>10, <2>2, <2>5, <2>7
<1> QED BY <1>9, <1>10

(* The string of a bulk reply. *)
LEMMA ParseBulkSeen ==
  ASSUME NEW r \in Replies, NEW s, NEW b \in Nat, ReplyAt(s, b, r),
         NEW p, NEW buf, NEW w, NEW A, View(p, buf, s, w, A), p.list = << >>,
         InString(r, p, s, b, w + p.readPos)
  PROVE  LET q == parseBulk(p, buf) IN
         /\ Parsed(r, q, s, b, w + q.readPos)
         /\ ~q.done => w + q.readPos = A
<1> DEFINE str == r.list[1]
           m == p.tempMaxLen
           a == b + 4
           x == Len(p.temp)
           k == p.readPos
           R == rest(p, buf)
           q == parseBulk(p, buf)
<1>1. /\ ~p.done /\ p.type = "bulk_reply" /\ r.type = "bulk_reply" /\ str # REDIS_MISSING
      /\ m = Len(str) + 2
      /\ Took(p, s, a, w + k) /\ w + k < a + m
  BY DEF InString
<1>2. str \in Bulks /\ Len(r.list) = 1
  <2> DEFINE j == 1
  <2>1. r.list \in [1..j -> Bulks] /\ j \in Nat /\ 1 \in 1..j BY <1>1 DEF Replies
  <2> HIDE DEF j
  <2>2. Len(r.list) = j /\ r.list[1] \in Bulks BY <2>1
  <2> QED BY <2>2 DEF j
<1>3. Len(str) \in Nat
  <2>1. str \in Strings BY <1>1, <1>2 DEF Bulks
  <2> QED BY <2>1, StringType
<1>4. BulkAt(s, b, str) BY <1>1 DEF ReplyAt
<1>5. a \in Nat OBVIOUS
<1> HIDE DEF a, str
<1>6. /\ Seen(p, buf, s, a) /\ x \in Nat /\ a + x = w + k /\ k \in Nat
      /\ Len(R) = Len(buf) - k /\ Len(buf) \in Nat
      /\ \A i \in Nat : i <= x + Len(R) <=> a + i <= A
  BY <1>1, <1>5, TookSeen
<1>7. p \in Parse /\ w \in Nat /\ A = w + Len(buf) /\ k <= Len(buf) BY DEF View
<1>8. m \in Nat /\ x < m
  <2>1. m \in Nat BY <1>1, <1>3
  <2> HIDE DEF m, x, k
  <2> QED BY <1>1, <1>5, <1>6, <1>7, <2>1
<1>9. /\ hasLen(p, buf, m) <=> m <= x + Len(R)
      /\ hasLen(p, buf, m) =>
           /\ lenOf(p, buf, m) \in Seq(ReplyChars) /\ Len(lenOf(p, buf, m)) = m
           /\ Copies(lenOf(p, buf, m), s, a)
      /\ LET t == p.temp \o R IN Len(t) = x + Len(R) /\ Copies(t, s, a)
  BY <1>6, <1>8, LenSeen
<1>10. CASE hasLen(p, buf, m)
  <2> DEFINE e == << >>
             z == k + need(p, m)
             l == readLen(p, buf, m)
             text == withoutCRLF(p, lenOf(p, buf, m))
  <2>1. e \in Seq(ReplyChars) /\ e = << >> BY EmptySeq
  <2>2. z \in Nat /\ w + z = a + m
    <3>1. need(p, m) = m - x BY DEF need
    <3> DEFINE y == need(p, m)
    <3>2. /\ y = m - x /\ a + x = w + k /\ x < m
          /\ x \in Nat /\ m \in Nat /\ k \in Nat /\ w \in Nat /\ a \in Nat
      BY <1>5, <1>6, <1>7, <1>8, <3>1
    <3> HIDE DEF x, m, k, y
    <3>3. k + y \in Nat BY <3>2
    <3>4. \A g, h, i, j, o \in Nat : g + h = i + j => i + (j + (o - h)) = g + o OBVIOUS
    <3>5. w + (k + y) = a + m BY <3>2, <3>4
    <3> QED BY <3>3, <3>5 DEF y
  <2>3. l = [p EXCEPT !.temp = e, !.readPos = z] BY <1>10 DEF readLen
  <2>4. text = str
    <3> DEFINE v == lenOf(p, buf, m)
    <3>1. v \in Seq(ReplyChars) /\ Len(v) = p.tempMaxLen /\ Copies(v, s, b + 4)
      BY <1>9, <1>10 DEF a
    <3> HIDE DEF v
    <3>2. withoutCRLF(p, v) = str BY <1>1, <1>2, <1>4, <3>1, StringIs
    <3> QED BY <3>2 DEF v
  <2>5. text \in Seq(Elem) BY <1>2, <2>4, BulkType
  <2>6. q = finish(l, text) BY <1>10 DEF parseBulk
  <2> HIDE DEF e, z, l, text, q
  <2>7. l \in Parse /\ l.list = << >> /\ l.type = "bulk_reply" /\ l.readPos = z
    BY <1>1, <1>7, <2>1, <2>2, <2>3 DEF Parse
  <2>8. q.done /\ q.type = "bulk_reply" /\ q.readPos = z /\ q.list = <<text>>
    BY <2>5, <2>6, <2>7, FinishIs
  <2>9. Result(r) = <<text>>
    <3> DEFINE v == r.list
    <3>1. v \in Seq(Bulks) /\ Result(r) = v BY <1>1, BulksType
    <3>2. Len(v) = 1 /\ v[1] = text BY <1>2, <2>4 DEF str
    <3> HIDE DEF v
    <3>3. v = <<v[1]>> BY <3>1, <3>2, ShortSeq
    <3> QED BY <3>1, <3>2, <3>3
  <2>10. w + z = b + ReplyLen(r)
    <3>1. ReplyLen(r) = Len(str) + 6 BY <1>1 DEF ReplyLen, BulkLen, str
    <3> QED BY <1>1, <1>3, <2>2, <3>1 DEF a
  <2>11. Complete(r, q, b, w + q.readPos) BY <1>1, <2>8, <2>9, <2>10 DEF Complete
  <2> QED BY <2>8, <2>11 DEF Parsed, q
<1>11. CASE ~hasLen(p, buf, m)
  <2> DEFINE t == p.temp \o R
             z == k + Len(R)
  <2>1. q = [p EXCEPT !.temp = t, !.readPos = z] BY <1>11 DEF parseBulk, readLen
  <2>2. Len(t) = x + Len(R) /\ Copies(t, s, a) BY <1>9
  <2>3. z = Len(buf) /\ w + z = A BY <1>6, <1>7
  <2>4. A = a + Len(t) /\ A < a + m
    <3> DEFINE y == Len(R)
               l == Len(buf)
    <3>1. ~(m <= x + y) BY <1>9, <1>11
    <3>2. /\ y = l - k /\ l \in Nat /\ k <= l /\ A = w + l /\ w \in Nat
          /\ a + x = w + k /\ Len(t) = x + y
      BY <1>6, <1>7, <2>2
    <3> HIDE DEF x, y, k, l, m, t
    <3>3. A = a + (x + y) BY <1>5, <1>6, <3>2
    <3>4. A < a + m BY <1>5, <1>6, <1>8, <3>1, <3>2, <3>3
    <3> QED BY <3>2, <3>3, <3>4
  <2> HIDE DEF t, z, q
  <2>5. /\ q.temp = t /\ q.readPos = z /\ ~q.done /\ q.type = p.type
        /\ q.tempMaxLen = m
    BY <1>1, <1>7, <2>1 DEF Parse
  <2>6. Took(q, s, a, A) BY <2>2, <2>4, <2>5 DEF Took
  <2>7. InString(r, q, s, b, A)
    BY <1>1, <2>4, <2>5, <2>6 DEF InString, a, str
  <2> QED BY <2>3, <2>5, <2>7 DEF Parsed, q
<1> QED BY <1>10, <1>11

(* The string of a list that is parsed next. *)
LEMMA ElementAt ==
  ASSUME NEW r \in Replies, NEW s, NEW b \in Nat, ReplyAt(s, b, r),
         NEW p \in Parse, Elements(r, p)
  PROVE  LET k   == Len(p.list)
             a   == b + Off(r.list)[k]
             str == r.list[k + 1] IN
         /\ a \in Nat /\ b <= a /\ a + 4 <= b + ReplyLen(r)
         /\ str \in Bulks /\ BulkAt(s, a, str) /\ Inside(s, a, str)
         /\ b + Off(r.list)[k + 1] = a + BulkLen(str)
<1> DEFINE k == Len(p.list)
           N == Len(r.list)
           o == Off(r.list)
<1>1. r.type = "multi_bulk_reply" /\ k < N BY DEF Elements
<1>2. r.list \in Seq(Bulks) /\ N \in Nat BY <1>1, ListType
<1>3. k \in Nat BY LenProperties DEF Parse
<1>4. /\ o \in [0..N -> Nat]
      /\ \A j \in 1..N : o[j] = o[j - 1] + BulkLen(r.list[j])
      /\ \A j \in 0..N : o[j] <= o[N]
      /\ \A j \in 1..N : o[j - 1] + 4 <= o[j]
  BY <1>2, OffLemma DEF Offsets
<1>5. \A j \in 1..N : BulkAt(s, b + o[j - 1], r.list[j]) /\ Inside(s, b + o[j - 1], r.list[j])
  BY <1>1 DEF ReplyAt
<1>6. ReplyLen(r) = o[N] BY <1>1 DEF ReplyLen
<1> HIDE DEF k, N, o
<1>7. k + 1 \in 1..N /\ k + 1 \in 0..N /\ k \in 0..N /\ N \in 0..N /\ (k + 1) - 1 = k
  BY <1>1, <1>2, <1>3
<1> DEFINE u == o[k]
           v == o[k + 1]
           str == r.list[k + 1]
<1>8. /\ u \in Nat /\ v \in Nat /\ o[N] \in Nat /\ v = u + BulkLen(str)
      /\ v <= o[N] /\ u + 4 <= v
  BY <1>4, <1>7
<1>9. str \in Bulks BY <1>2, <1>7, ElementOfSeq DEF N
<1>10. BulkAt(s, b + u, str) /\ Inside(s, b + u, str) BY <1>5, <1>7
<1>11. BulkLen(str) \in Nat BY <1>9, BulkLenLemma
<1> HIDE DEF u, v, str
<1> DEFINE l == BulkLen(str)
<1> HIDE DEF l
<1>12. b + u \in Nat /\ b <= b + u /\ (b + u) + 4 <= b + ReplyLen(r) /\ b + v = (b + u) + l
  BY <1>6, <1>8, <1>11 DEF l
<1> QED BY <1>9, <1>10, <1>12 DEF k, N, o, u, v, str, l

(* No read ends inside a string of a list. *)
LEMMA NotInside ==
  ASSUME NEW s, NEW a \in Nat, NEW str \in Bulks, str # REDIS_MISSING, Inside(s, a, str),
         NEW A \in Nat, A > 0 => ~s[A].in, a + 4 <= A
  PROVE  a + BulkLen(str) <= A
<1> DEFINE n == Len(str)
           i == A - a
<1>1. n \in Nat
  <2>1. str \in Strings BY DEF Bulks
  <2> QED BY <2>1, StringType
<1>2. BulkLen(str) = n + 6 BY DEF BulkLen
<1>3. \A j \in 4..(n + 5) : s[a + j].in BY DEF Inside
<1> SUFFICES ASSUME ~(a + BulkLen(str) <= A) PROVE FALSE OBVIOUS
<1> HIDE DEF n
<1>4. i \in 4..(n + 5) /\ a + i = A /\ A > 0 BY <1>1, <1>2
<1> HIDE DEF i
<1>5. s[a + i].in BY <1>3, <1>4
<1>6. s[A].in BY <1>4, <1>5
<1> QED BY <1>4, <1>6

(* A string of a list. *)
LEMMA ParseElementSeen ==
  ASSUME NEW r \in Replies, NEW s, NEW b \in Nat, ReplyAt(s, b, r),
         NEW p, NEW buf, NEW w, NEW A, View(p, buf, s, w, A), ~p.threw,
         A > 0 => ~s[A].in,
         InLength(r, p, s, b, w + p.readPos)
  PROVE  LET e == parseElement(p, buf) IN
         /\ ~e.p.threw
         /\ Parsed(r, e.p, s, b, w + e.p.readPos)
         /\ ~e.again /\ ~e.p.done => /\ A < b + ReplyLen(r)
                                     /\ NoEnd(s, w + e.p.readPos, A)
<1> DEFINE k == Len(p.list)
           a == b + Off(r.list)[k]
           str == r.list[k + 1]
           n == IF str = REDIS_MISSING THEN -1 ELSE Len(str)
           x == Len(p.temp)
           j == p.readPos
           next == b + Off(r.list)[k + 1]
           e == parseElement(p, buf)
           content == lineOf(p, buf)
<1>1. Elements(r, p) /\ ~p.done /\ Took(p, s, a, w + j) /\ w + j < a + 4 BY DEF InLength
<1>2. p \in Parse /\ w \in Nat /\ A = w + Len(buf) /\ Len(buf) \in Nat /\ A \in Nat
  BY LenProperties DEF View
<1>3. /\ a \in Nat /\ b <= a /\ a + 4 <= b + ReplyLen(r)
      /\ str \in Bulks /\ BulkAt(s, a, str) /\ Inside(s, a, str)
      /\ next = a + BulkLen(str)
  BY <1>1, <1>2, ElementAt
<1>4. NumberLine(s, a, "$", n) BY <1>3 DEF BulkAt
<1>5. IsLine(s, a, 4) BY <1>4 DEF NumberLine
<1> HIDE DEF a, n, next, str
<1>6. /\ Seen(p, buf, s, a) /\ x \in Nat /\ a + x = w + j /\ j \in Nat
      /\ \A i \in Nat : i <= x + Len(rest(p, buf)) <=> a + i <= A
  BY <1>1, <1>3, TookSeen
<1>7. x < 4
  <2> HIDE DEF x, j
  <2> QED BY <1>1, <1>2, <1>3, <1>6
<1>8. /\ hasLine(p, buf) <=> 4 <= x + Len(rest(p, buf))
      /\ hasLine(p, buf) =>
           /\ lineLen(p, buf) = 4 - x
           /\ content \in Seq(ReplyChars) /\ Len(content) = 4 - 2 /\ Copies(content, s, a)
  <2> DEFINE f == 4
  <2>1. f \in Nat /\ f >= 3 /\ IsLine(s, a, f) /\ Len(p.temp) < f BY <1>5, <1>7
  <2> HIDE DEF f
  <2>2. /\ hasLine(p, buf) <=> f <= x + Len(rest(p, buf))
        /\ hasLine(p, buf) =>
             /\ lineLen(p, buf) = f - x
             /\ content \in Seq(ReplyChars) /\ Len(content) = f - 2 /\ Copies(content, s, a)
    BY <1>6, <2>1, LineSeen
  <2> QED BY <2>2 DEF f
<1>9. hasLine(p, buf) <=> a + 4 <= A
  <2>1. 4 \in Nat OBVIOUS
  <2> QED BY <1>6, <1>8, <2>1
<1>10. CASE ~hasLine(p, buf)
  <2>1. e.p = p /\ ~e.again BY <1>10 DEF parseElement
  <2> DEFINE y == a + 4
             z == b + ReplyLen(r)
             c == w + j
  <2>3. c \in Nat /\ y \in Nat
    <3>1. w \in Nat /\ j \in Nat /\ a \in Nat BY <1>2, <1>3, <1>6
    <3> HIDE DEF j
    <3> QED BY <3>1
  <2>2. A < y /\ y <= z BY <1>2, <1>3, <1>9, <1>10, <2>3
  <2>4. NoEnd(s, w + j, A) BY <1>10, NoLineSeen
  <2>5. A < z
    <3>1. z \in Nat \/ z \in Int
      <4>1. Parsed(r, p, s, b, w + j) BY DEF Parsed
      <4>2. ReplyLen(r) \in Nat
        <5> DEFINE N == Len(r.list)
                   o == Off(r.list)
        <5>1. r.type = "multi_bulk_reply" BY <1>1 DEF Elements
        <5>2. r.list \in Seq(Bulks) /\ N \in Nat BY <5>1, ListType
        <5>3. o \in [0..N -> Nat] BY <5>2, OffLemma DEF Offsets
        <5>4. N \in 0..N BY <5>2
        <5>5. o[N] \in Nat
          <6> HIDE DEF o, N
          <6> QED BY <5>3, <5>4
        <5> QED BY <5>1, <5>5 DEF ReplyLen
      <4> QED BY <4>2
    <3> HIDE DEF y, z
    <3> QED BY <1>2, <2>2, <2>3, <3>1
  <2>6. Parsed(r, p, s, b, w + j) BY DEF Parsed
  <2> QED BY <2>1, <2>4, <2>5, <2>6
<1>11. CASE hasLine(p, buf)
  <2> DEFINE t == << >>
             z == j + lineLen(p, buf)
             q == [readLine(p, buf) EXCEPT !.tempMaxLen = 0]
  <2>1. t \in Seq(ReplyChars) /\ t = << >> BY EmptySeq
  <2>2. z \in Nat /\ w + z = a + 4 /\ z <= Len(buf)
    <3> DEFINE l == lineLen(p, buf)
               m == Len(buf)
    <3>1. /\ l = 4 - x /\ x < 4 /\ x \in Nat /\ j \in Nat /\ a \in Nat /\ w \in Nat /\ m \in Nat
          /\ a + x = w + j /\ a + 4 <= A /\ A = w + m
      BY <1>2, <1>3, <1>6, <1>7, <1>8, <1>9, <1>11
    <3> HIDE DEF l, m, x, j
    <3>2. j + l \in Nat /\ w + (j + l) = a + 4 /\ j + l <= m BY <3>1
    <3> QED BY <3>2 DEF l, m
  <2>3. q = [p EXCEPT !.temp = t, !.readPos = z, !.tempMaxLen = 0] BY <1>2 DEF readLine, Parse
  <2> HIDE DEF t, z, q
  <2>4. /\ q \in Parse /\ q.temp = << >> /\ q.readPos = z /\ ~q.threw
        /\ q.list = p.list /\ q.type = p.type /\ q.multiCount = p.multiCount
    BY <1>2, <2>1, <2>2, <2>3 DEF Parse
  <2>5. Elements(r, q) BY <1>1, <2>4 DEF Elements
  <2>6. content \in Seq(ReplyChars) /\ Len(content) = 2 /\ Copies(content, s, a)
    BY <1>8, <1>11
  <2>7. hasNumber(content) /\ number(content) = n BY <1>3, <1>4, <2>6, NumberIs
  <2>8. CASE str = REDIS_MISSING
    <3>1. e = element(q, REDIS_MISSING)
      <4>1. number(content) = -1 BY <2>7, <2>8 DEF n
      <4> QED BY <1>11, <2>7, <4>1 DEF parseElement, q
    <3>2. REDIS_MISSING = r.list[Len(q.list) + 1] BY <2>4, <2>8 DEF str
    <3> DEFINE text == REDIS_MISSING
               g == element(q, text)
    <3>6. text = ToParse(r, q) BY <3>2 DEF ToParse
    <3> HIDE DEF e, text
    <3>7. /\ ~g.p.threw /\ g.p.readPos = q.readPos /\ g.again = ~g.p.done
          /\ Parsed(r, g.p, s, b, b + After(r, q))
      <4>1. AtHand(r, q, text) BY <2>4, <2>5, <3>6 DEF AtHand
      <4> QED BY <2>4, <4>1, ElementParsed
    <3>3. /\ ~e.p.threw /\ e.p.readPos = q.readPos /\ e.again = ~e.p.done
          /\ Parsed(r, e.p, s, b, b + After(r, q))
      BY <3>1, <3>7 DEF text
    <3>4. b + After(r, q) = next BY <2>4 DEF next, After
    <3>5. next = w + z BY <1>3, <2>2, <2>8 DEF BulkLen
    <3> QED BY <2>4, <3>3, <3>4, <3>5 DEF e
  <2>9. CASE str # REDIS_MISSING
    <3> DEFINE m == n + 2
               q1 == [q EXCEPT !.tempMaxLen = m]
               c == a + 4
    <3>1. n \in Nat /\ n # -1 /\ n = Len(str)
      <4>1. str \in Strings BY <1>3, <2>9 DEF Bulks
      <4>2. Len(str) \in Nat BY <4>1, StringType
      <4>3. n = Len(str) BY <2>9 DEF n
      <4> QED BY <4>2, <4>3
    <3>2. m \in Nat /\ 0 < m /\ c \in Nat BY <1>3, <3>1
    <3> HIDE DEF m, q1, c
    <3>3. /\ q1 \in Parse /\ q1.temp = << >> /\ q1.readPos = z /\ ~q1.threw
          /\ q1.list = p.list /\ q1.type = p.type /\ q1.multiCount = p.multiCount
          /\ q1.tempMaxLen = m
      BY <2>4, <3>2 DEF q1, Parse
    <3>4. View(q1, buf, s, w, A) BY <2>2, <3>3 DEF View
    <3>5. Took(q1, s, c, w + q1.readPos)
      <4>1. w + q1.readPos = c BY <2>2, <3>3 DEF c
      <4> QED BY <3>2, <3>3, <4>1, TookNothing
    <3>6. /\ Seen(q1, buf, s, c)
          /\ \A i \in Nat : i <= Len(q1.temp) + Len(rest(q1, buf)) <=> c + i <= A
      BY <3>2, <3>4, <3>5, TookSeen
    <3>7. Len(q1.temp) = 0 BY <3>3, EmptySeq
    <3>8. /\ hasLen(q1, buf, m) <=> m <= Len(q1.temp) + Len(rest(q1, buf))
          /\ hasLen(q1, buf, m) =>
               /\ lenOf(q1, buf, m) \in Seq(ReplyChars) /\ Len(lenOf(q1, buf, m)) = m
               /\ Copies(lenOf(q1, buf, m), s, c)
      BY <3>2, <3>6, <3>7, LenSeen
    <3>9. hasLen(q1, buf, m)
      <4>1. a + BulkLen(str) <= A BY <1>2, <1>3, <1>9, <1>11, <2>9, NotInside
      <4>2. BulkLen(str) = n + 6 BY <2>9, <3>1 DEF BulkLen
      <4>3. c + m = a + (n + 6) BY <1>3, <3>1 DEF c, m
      <4>4. c + m <= A BY <4>1, <4>2, <4>3
      <4> QED BY <3>2, <3>6, <3>8, <4>4
    <3> DEFINE text == withoutCRLF(q1, lenOf(q1, buf, m))
               l == readLen(q1, buf, m)
    <3>10. e = element(l, text)
      <4>1. number(content) # -1 BY <2>7, <3>1
      <4>2. q1.tempMaxLen = m BY <3>3
      <4>3. q1 = [[readLine(p, buf) EXCEPT !.tempMaxLen = 0] EXCEPT !.tempMaxLen = number(content) + 2]
        BY <2>7 DEF q1, q, m
      <4> QED BY <1>11, <2>7, <3>9, <4>1, <4>2, <4>3 DEF parseElement
    <3>11. text = str
      <4> DEFINE v == lenOf(q1, buf, m)
      <4>1. /\ v \in Seq(ReplyChars) /\ Len(v) = q1.tempMaxLen /\ Copies(v, s, a + 4)
            /\ q1.tempMaxLen = Len(str) + 2
        BY <3>1, <3>3, <3>8, <3>9 DEF c, m
      <4> HIDE DEF v
      <4>2. withoutCRLF(q1, v) = str BY <1>3, <2>9, <4>1, StringIs
      <4> QED BY <4>2 DEF v
    <3> DEFINE d == z + need(q1, m)
    <3>12. l = [q1 EXCEPT !.temp = t, !.readPos = d] BY <2>1, <3>3, <3>9 DEF readLen
    <3>13. d \in Nat /\ w + d = next
      <4>1. need(q1, m) = m BY <3>2, <3>7 DEF need
      <4>2. next = a + (n + 6)
        <5>1. BulkLen(str) = n + 6 BY <2>9, <3>1 DEF BulkLen
        <5> QED BY <1>3, <5>1
      <4>3. w + (z + m) = (a + 4) + (n + 2) /\ z + m \in Nat BY <1>2, <1>3, <2>2, <3>1, <3>2 DEF m
      <4>4. (a + 4) + (n + 2) = a + (n + 6) BY <1>3, <3>1
      <4> QED BY <4>1, <4>2, <4>3, <4>4
    <3> HIDE DEF d, l, text, e
    <3>14. /\ l \in Parse /\ l.temp = << >> /\ l.readPos = d /\ ~l.threw
           /\ l.list = p.list /\ l.type = p.type /\ l.multiCount = p.multiCount
      BY <2>1, <3>3, <3>12, <3>13 DEF Parse
    <3>15. Elements(r, l) BY <1>1, <3>14 DEF Elements
    <3>16. text = ToParse(r, l) BY <3>11, <3>14 DEF str, ToParse
    <3> DEFINE g == element(l, text)
    <3>19. /\ ~g.p.threw /\ g.p.readPos = l.readPos /\ g.again = ~g.p.done
           /\ Parsed(r, g.p, s, b, b + After(r, l))
      <4>1. AtHand(r, l, text) BY <3>14, <3>15, <3>16 DEF AtHand
      <4> QED BY <4>1, ElementParsed
    <3>17. /\ ~e.p.threw /\ e.p.readPos = l.readPos /\ e.again = ~e.p.done
           /\ Parsed(r, e.p, s, b, b + After(r, l))
      BY <3>10, <3>19
    <3>18. b + After(r, l) = next BY <3>14 DEF next, After
    <3> QED BY <3>13, <3>14, <3>17, <3>18 DEF e
  <2> QED BY <2>8, <2>9
<1> QED BY <1>10, <1>11

-----------------------------------------------------------------------------
(***************************************************************************)
(* RedisBlock: buf holds the characters of s between w and A, the parser   *)
(* is at w.                                                                *)
(***************************************************************************)
Held(buf, s, w, A) ==
  /\ Fresh(buf) /\ w \in Nat /\ A = w + length(buf) /\ Copies(buf.buf, s, w)

(* The first line. *)
LEMMA RecvTypeSeen ==
  ASSUME NEW r \in Replies, NEW s, NEW b \in Nat, ReplyAt(s, b, r),
         NEW p, NEW buf, NEW w, NEW A, Held(buf, s, w, A), Begun(p), p.readPos = 0,
         InFirstLine(r, p, s, b, w)
  PROVE  LET t == takeLine(p, buf)
             q == parseType(t.p, t.text) IN
         \E v \in Nat :
           /\ Held(t.buf, s, v, A) /\ t.buf.maxLen = buf.maxLen
           /\ ~t.ok => v = A /\ InFirstLine(r, t.p, s, b, v)
           /\ t.ok => /\ v = b + FirstLen(r) /\ v <= A
                      /\ TooShort(r) => q.threw
                      /\ ~TooShort(r) => ~q.threw /\ Parsed(r, q, s, b, v)
<1> DEFINE n == FirstLen(r)
           x == Len(p.temp)
           y == length(buf)
           t == takeLine(p, buf)
           q == parseType(t.p, t.text)
<1>1. n \in Nat /\ n >= 3 BY FirstLenLemma
<1>2. Took(p, s, b, w) /\ w < b + n BY DEF InFirstLine
<1>3. p \in Parse /\ p.temp \in Seq(ReplyChars) /\ x \in Nat BY LenProperties DEF Begun, Parse
<1>4. Fresh(buf) /\ w \in Nat /\ A = w + y /\ Copies(buf.buf, s, w) BY DEF Held
<1>5. y \in Nat BY <1>4, FreshUnread
<1>6. b + x = w /\ Copies(p.temp, s, b) BY <1>2 DEF Took
<1>7. Feed(p, buf, s, b, w) BY <1>3, <1>4, <1>6 DEF Feed
<1>8. IsLine(s, b, n) BY DEF ReplyAt
<1>9. x < n
  <2> HIDE DEF n, x
  <2> QED BY <1>1, <1>2, <1>3, <1>4, <1>6
<1> HIDE DEF n, t
<1>10. /\ t.ok <=> n <= x + y
       /\ t.ok => /\ Len(t.text) = n - 2 /\ Copies(t.text, s, b)
                  /\ length(t.buf) = y - (n - x)
                  /\ Copies(t.buf.buf, s, b + n)
       /\ ~t.ok => /\ Len(t.p.temp) = x + y /\ Copies(t.p.temp, s, b)
                   /\ length(t.buf) = 0
                   /\ Copies(t.buf.buf, s, w + y)
       /\ t.buf.maxLen = buf.maxLen
  BY <1>1, <1>7, <1>8, <1>9, TakeLineIs DEF t
<1>11. /\ t.text \in Seq(ReplyChars)
       /\ Fresh(t.buf) /\ Keeps(t.p, p)
       /\ t.ok => t.p.temp = << >>
  BY <1>3, <1>4, TakeLineLemma DEF t
<1>12. CASE ~t.ok
  <2>1. ~(n <= x + y) /\ Len(t.p.temp) = x + y /\ Copies(t.p.temp, s, b) /\ length(t.buf) = 0
        /\ Copies(t.buf.buf, s, A)
    BY <1>4, <1>10, <1>12
  <2>2. b + Len(t.p.temp) = A /\ A < b + n /\ A \in Nat
    <3> DEFINE z == Len(t.p.temp)
    <3>1. /\ z = x + y /\ ~(n <= x + y) /\ b + x = w /\ A = w + y
          /\ x \in Nat /\ y \in Nat /\ w \in Nat /\ n \in Nat
      BY <1>1, <1>3, <1>4, <1>5, <1>6, <2>1
    <3> HIDE DEF x, y, z
    <3>2. b + z = A /\ A < b + n /\ A \in Nat BY <3>1
    <3> QED BY <3>2 DEF z
  <2>3. Took(t.p, s, b, A) BY <2>1, <2>2 DEF Took
  <2>4. ~t.p.done /\ t.p.type = "no_reply" BY <1>11 DEF Keeps, Begun
  <2>5. InFirstLine(r, t.p, s, b, A) BY <2>2, <2>3, <2>4 DEF InFirstLine, n
  <2>6. Held(t.buf, s, A, A)
    <3>1. A = A + length(t.buf) BY <2>1, <2>2
    <3> QED BY <1>11, <2>1, <2>2, <3>1 DEF Held
  <2> QED BY <1>10, <1>12, <2>2, <2>5, <2>6 DEF t
<1>13. CASE t.ok
  <2> DEFINE v == b + n
  <2>1. v \in Nat /\ A = v + length(t.buf) /\ v <= A
    <3> DEFINE z == length(t.buf)
    <3>1. /\ z = y - (n - x) /\ b + x = w /\ A = w + y /\ n <= x + y
          /\ x \in Nat /\ y \in Nat /\ w \in Nat /\ n \in Nat
      BY <1>1, <1>3, <1>4, <1>5, <1>6, <1>10, <1>13
    <3> HIDE DEF x, y, z
    <3>2. v \in Nat /\ A = v + z /\ v <= A BY <3>1
    <3> QED BY <3>2 DEF z
  <2>2. Held(t.buf, s, v, A) BY <1>10, <1>11, <1>13, <2>1 DEF Held
  <2> DEFINE pp == t.p
             content == t.text
  <2>3. Begun(pp) /\ pp.temp = << >> BY <1>11, <1>13 DEF Keeps, Begun
  <2>4. content \in Seq(ReplyChars) /\ Len(content) = FirstLen(r) - 2 /\ Copies(content, s, b)
    BY <1>10, <1>11, <1>13 DEF n
  <2> HIDE DEF pp, content
  <2>5. LET f == parseType(pp, content) IN
        /\ TooShort(r) => f.threw
        /\ ~TooShort(r) => ~f.threw /\ Parsed(r, f, s, b, b + FirstLen(r))
    BY <2>3, <2>4, FirstLine
  <2>6. /\ TooShort(r) => q.threw
        /\ ~TooShort(r) => ~q.threw /\ Parsed(r, q, s, b, v)
    BY <2>5 DEF pp, content, n
  <2>7. v = b + FirstLen(r) BY DEF n
  <2> HIDE DEF v, q
  <2> QED BY <1>10, <1>13, <2>1, <2>2, <2>6, <2>7 DEF t, q
<1> QED BY <1>12, <1>13

(* The string of a bulk reply. *)
LEMMA RecvBulkSeen ==
  ASSUME NEW r \in Replies, NEW s, NEW b \in Nat, ReplyAt(s, b, r),
         NEW p \in Parse, NEW buf, NEW w, NEW A, Held(buf, s, w, A), p.list = << >>,
         InString(r, p, s, b, w), NEW size
  PROVE  LET e == recvBulk(p, buf, size) IN
         \E v \in Nat :
           /\ Held(e.buf, s, v, A) /\ e.buf.maxLen = buf.maxLen
           /\ Parsed(r, e.p, s, b, v)
           /\ ~e.p.done => v = A
<1> DEFINE str == r.list[1]
           m == p.tempMaxLen
           a == b + 4
           x == Len(p.temp)
           y == length(buf)
           t == takeLen(p, buf)
           text == withoutCRLF(p, t.text)
           e == recvBulk(p, buf, size)
<1>1. /\ ~p.done /\ p.type = "bulk_reply" /\ r.type = "bulk_reply" /\ str # REDIS_MISSING
      /\ m = Len(str) + 2
      /\ Took(p, s, a, w) /\ w < a + m
  BY DEF InString
<1>2. str \in Bulks /\ Len(r.list) = 1
  <2> DEFINE j == 1
  <2>1. r.list \in [1..j -> Bulks] /\ j \in Nat /\ 1 \in 1..j BY <1>1 DEF Replies
  <2> HIDE DEF j
  <2>2. Len(r.list) = j /\ r.list[1] \in Bulks BY <2>1
  <2> QED BY <2>2 DEF j
<1>3. Len(str) \in Nat
  <2>1. str \in Strings BY <1>1, <1>2 DEF Bulks
  <2> QED BY <2>1, StringType
<1>4. BulkAt(s, b, str) BY <1>1 DEF ReplyAt
<1>5. a \in Nat OBVIOUS
<1> HIDE DEF a, str
<1>6. p.temp \in Seq(ReplyChars) /\ x \in Nat /\ m \in Nat BY LenProperties DEF Parse
<1>7. Fresh(buf) /\ w \in Nat /\ A = w + y /\ Copies(buf.buf, s, w) BY DEF Held
<1>8. y \in Nat BY <1>7, FreshUnread
<1>9. a + x = w /\ Copies(p.temp, s, a) BY <1>1 DEF Took
<1>10. Feed(p, buf, s, a, w) BY <1>5, <1>7, <1>9 DEF Feed
<1>11. x < m
  <2> HIDE DEF m, x
  <2> QED BY <1>1, <1>5, <1>6, <1>7, <1>9
<1>12. Len(p.temp) <= p.tempMaxLen BY <1>6, <1>11
<1> HIDE DEF t
<1>13. /\ t.ok <=> m <= x + y
       /\ t.ok => /\ Len(t.text) = m /\ Copies(t.text, s, a)
                  /\ length(t.buf) = y - (m - x)
                  /\ Copies(t.buf.buf, s, a + m)
       /\ ~t.ok => /\ Len(t.p.temp) = x + y /\ Copies(t.p.temp, s, a)
                   /\ length(t.buf) = 0
                   /\ Copies(t.buf.buf, s, w + y)
       /\ t.buf.maxLen = buf.maxLen
  BY <1>10, <1>12, TakeLenIs DEF t
<1>14. t.text \in Seq(ReplyChars) /\ Fresh(t.buf) /\ Keeps(t.p, p)
  BY <1>7, <1>12, TakeLenLemma DEF t
<1>15. CASE t.ok
  <2> DEFINE v == a + m
  <2>1. v \in Nat /\ A = v + length(t.buf)
    <3> DEFINE z == length(t.buf)
    <3>1. /\ z = y - (m - x) /\ a + x = w /\ A = w + y
          /\ x \in Nat /\ y \in Nat /\ w \in Nat /\ m \in Nat
      BY <1>6, <1>7, <1>8, <1>9, <1>13, <1>15
    <3> HIDE DEF x, y, z, m
    <3>2. v \in Nat /\ A = v + z BY <1>5, <3>1
    <3> QED BY <3>2 DEF z
  <2>2. Held(t.buf, s, v, A) BY <1>13, <1>14, <1>15, <2>1 DEF Held
  <2>3. text = str
    <3> DEFINE u == t.text
    <3>1. u \in Seq(ReplyChars) /\ Len(u) = p.tempMaxLen /\ Copies(u, s, b + 4)
      BY <1>13, <1>14, <1>15 DEF a
    <3> HIDE DEF u
    <3>2. withoutCRLF(p, u) = str BY <1>1, <1>2, <1>4, <3>1, StringIs
    <3> QED BY <3>2 DEF u
  <2>4. text \in Seq(Elem) BY <1>2, <2>3, BulkType
  <2> DEFINE l == t.p
             q == finish(l, text)
  <2>5. e.p = q /\ e.buf = t.buf BY <1>15 DEF recvBulk, t
  <2>6. l \in Parse /\ l.list = << >> /\ l.type = "bulk_reply"
    BY <1>1, <1>14 DEF Keeps
  <2> HIDE DEF l, text
  <2>7. q.done /\ q.type = "bulk_reply" /\ q.list = <<text>> BY <2>4, <2>6, FinishIs
  <2>8. Result(r) = <<text>>
    <3> DEFINE u == r.list
    <3>1. u \in Seq(Bulks) /\ Result(r) = u BY <1>1, BulksType
    <3>2. Len(u) = 1 /\ u[1] = text BY <1>2, <2>3 DEF str
    <3> HIDE DEF u
    <3>3. u = <<u[1]>> BY <3>1, <3>2, ShortSeq
    <3> QED BY <3>1, <3>2, <3>3
  <2>9. v = b + ReplyLen(r)
    <3>1. ReplyLen(r) = Len(str) + 6 BY <1>1 DEF ReplyLen, BulkLen, str
    <3> QED BY <1>1, <1>3, <3>1 DEF a
  <2> HIDE DEF q, v, e
  <2>10. Complete(r, q, b, v) BY <1>1, <2>7, <2>8, <2>9 DEF Complete
  <2>11. Parsed(r, e.p, s, b, v) /\ e.p.done BY <2>5, <2>7, <2>10 DEF Parsed
  <2>12. e.buf.maxLen = buf.maxLen /\ Held(e.buf, s, v, A) BY <1>13, <2>2, <2>5
  <2> QED BY <2>1, <2>11, <2>12 DEF e
<1>16. CASE ~t.ok
  <2>1. e.p = t.p /\ e.buf = t.buf BY <1>16 DEF recvBulk, t
  <2>2. /\ ~(m <= x + y) /\ Len(t.p.temp) = x + y /\ Copies(t.p.temp, s, a)
        /\ length(t.buf) = 0 /\ Copies(t.buf.buf, s, A)
    BY <1>7, <1>13, <1>16
  <2>3. a + Len(t.p.temp) = A /\ A < a + m /\ A \in Nat
    <3> DEFINE z == Len(t.p.temp)
    <3>1. /\ z = x + y /\ ~(m <= x + y) /\ a + x = w /\ A = w + y
          /\ x \in Nat /\ y \in Nat /\ w \in Nat /\ m \in Nat
      BY <1>6, <1>7, <1>8, <1>9, <2>2
    <3> HIDE DEF x, y, z, m
    <3>2. a + z = A /\ A < a + m /\ A \in Nat BY <1>5, <3>1
    <3> QED BY <3>2 DEF z
  <2>4. Took(t.p, s, a, A) BY <2>2, <2>3 DEF Took
  <2>5. ~t.p.done /\ t.p.type = "bulk_reply" /\ t.p.tempMaxLen = m
    BY <1>1, <1>14 DEF Keeps
  <2>6. InString(r, t.p, s, b, A) BY <1>1, <2>3, <2>4, <2>5 DEF InString, a, str
  <2>7. Held(t.buf, s, A, A)
    <3>1. A = A + length(t.buf) BY <2>2, <2>3
    <3> QED BY <1>14, <2>2, <2>3, <3>1 DEF Held
  <2> HIDE DEF e
  <2>8. Parsed(r, e.p, s, b, A) BY <2>1, <2>6 DEF Parsed
  <2>9. Held(e.buf, s, A, A) /\ e.buf.maxLen = buf.maxLen BY <1>13, <2>1, <2>7
  <2> QED BY <2>3, <2>8, <2>9 DEF e
<1> QED BY <1>15, <1>16

(* A string of a list, after its length line: it has arrived wholly. *)
LEMMA RecvStringSeen ==
  ASSUME NEW str \in Bulks, str # REDIS_MISSING, NEW s, NEW a \in Nat,
         BulkAt(s, a, str), Inside(s, a, str),
         NEW q \in Parse, q.temp = << >>, q.tempMaxLen = Len(str) + 2,
         NEW buf, NEW A \in Nat, Held(buf, s, a + 4, A), A > 0 => ~s[A].in
  PROVE  LET t == takeLen(q, buf) IN
         /\ t.ok /\ withoutCRLF(q, t.text) = str
         /\ Keeps(t.p, q) /\ t.p.temp = << >>
         /\ Held(t.buf, s, a + BulkLen(str), A) /\ t.buf.maxLen = buf.maxLen
<1> DEFINE n == Len(str)
           c == a + 4
           m == q.tempMaxLen
           y == length(buf)
           t == takeLen(q, buf)
<1>1. n \in Nat
  <2>1. str \in Strings BY DEF Bulks
  <2> QED BY <2>1, StringType
<1>2. BulkLen(str) = n + 6 BY DEF BulkLen
<1>3. Fresh(buf) /\ c \in Nat /\ A = c + y /\ Copies(buf.buf, s, c) BY DEF Held
<1>4. y \in Nat BY <1>3, FreshUnread
<1>5. Len(q.temp) = 0 /\ \A i \in 1..Len(q.temp) : FALSE
  <2>1. Len(q.temp) = 0 BY EmptySeq
  <2> QED BY <2>1
<1>6. Feed(q, buf, s, c, c)
  <2>1. Copies(q.temp, s, c) BY <1>5 DEF Copies
  <2>2. c = c + Len(q.temp) BY <1>3, <1>5
  <2> QED BY <1>3, <2>1, <2>2 DEF Feed
<1>7. a + BulkLen(str) <= A
  <2>1. a + 4 <= A BY <1>3, <1>4
  <2> QED BY <2>1, NotInside
<1>8. m = n + 2 /\ m \in Nat BY <1>1
<1>9. Len(q.temp) <= q.tempMaxLen BY <1>5, <1>8
<1> HIDE DEF t
<1>10. /\ t.ok <=> m <= Len(q.temp) + y
       /\ t.ok => /\ Len(t.text) = m /\ Copies(t.text, s, c)
                  /\ t.p.temp = << >>
                  /\ length(t.buf) = y - (m - Len(q.temp))
                  /\ Copies(t.buf.buf, s, c + m)
       /\ t.buf.maxLen = buf.maxLen
  <2> HIDE DEF c
  <2> QED BY <1>6, <1>9, TakeLenIs DEF t
<1>11. t.text \in Seq(ReplyChars) /\ Fresh(t.buf) /\ Keeps(t.p, q)
  BY <1>3, <1>9, TakeLenLemma DEF t
<1>12. m <= y /\ c + m = a + BulkLen(str) /\ A = (c + m) + (y - m) /\ c + m \in Nat
  <2> DEFINE l == BulkLen(str)
  <2>1. l = n + 6 /\ a + l <= A /\ m = n + 2 /\ A = c + y /\ c = a + 4 /\ n \in Nat /\ y \in Nat
    BY <1>1, <1>2, <1>3, <1>4, <1>7, <1>8
  <2> HIDE DEF l, m, n, y
  <2>2. m <= y /\ c + m = a + l /\ A = (c + m) + (y - m) /\ c + m \in Nat BY <2>1
  <2> QED BY <2>2 DEF l
<1>13. t.ok
  <2> HIDE DEF m, y
  <2> QED BY <1>4, <1>5, <1>10, <1>12
<1>14. withoutCRLF(q, t.text) = str
  <2> DEFINE u == t.text
  <2>1. u \in Seq(ReplyChars) /\ Len(u) = q.tempMaxLen /\ Copies(u, s, a + 4)
    BY <1>10, <1>11, <1>13
  <2> HIDE DEF u
  <2>2. withoutCRLF(q, u) = str BY <2>1, StringIs
  <2> QED BY <2>2 DEF u
<1>15. Held(t.buf, s, c + m, A)
  <2>1. length(t.buf) = y - m
    <3>1. y - (m - Len(q.temp)) = y - m
      <4> DEFINE x == Len(q.temp)
      <4>1. x = 0 /\ m \in Nat /\ y \in Nat BY <1>4, <1>5, <1>8
      <4> HIDE DEF m, y, x
      <4>2. y - (m - x) = y - m BY <4>1
      <4> QED BY <4>2 DEF x
    <3> QED BY <1>10, <1>13, <3>1
  <2>2. Copies(t.buf.buf, s, c + m) BY <1>10, <1>13
  <2> DEFINE v == c + m
             z == length(t.buf)
  <2>3. v \in Nat /\ A = v + z BY <1>12, <2>1
  <2> HIDE DEF v, z
  <2>4. Held(t.buf, s, v, A) BY <1>11, <2>2, <2>3 DEF Held, v, z
  <2> QED BY <2>4 DEF v
<1>16. Held(t.buf, s, a + BulkLen(str), A) BY <1>12, <1>15
<1> QED BY <1>10, <1>11, <1>13, <1>14, <1>16 DEF t

(* A string of a list. *)
LEMMA RecvElementSeen ==
  ASSUME NEW r \in Replies, NEW s, NEW b \in Nat, ReplyAt(s, b, r),
         NEW p \in Parse, p.readPos = 0, ~p.threw, NEW buf, NEW w, NEW A, Held(buf, s, w, A),
         A > 0 => ~s[A].in, InLength(r, p, s, b, w), NEW size
  PROVE  LET e == recvElement(p, buf, size) IN
         \E v \in Nat :
           /\ Held(e.buf, s, v, A) /\ e.buf.maxLen = buf.maxLen
           /\ ~e.p.threw /\ Parsed(r, e.p, s, b, v)
           /\ ~e.again /\ ~e.p.done => v = A
<1> DEFINE k == Len(p.list)
           a == b + Off(r.list)[k]
           str == r.list[k + 1]
           n == IF str = REDIS_MISSING THEN -1 ELSE Len(str)
           x == Len(p.temp)
           y == length(buf)
           next == b + Off(r.list)[k + 1]
           t == takeLine(p, buf)
           e == recvElement(p, buf, size)
<1>1. Elements(r, p) /\ ~p.done /\ Took(p, s, a, w) /\ w < a + 4 BY DEF InLength
<1>2. /\ a \in Nat /\ str \in Bulks /\ BulkAt(s, a, str) /\ Inside(s, a, str)
      /\ next = a + BulkLen(str)
  BY <1>1, ElementAt
<1>3. NumberLine(s, a, "$", n) BY <1>2 DEF BulkAt
<1>4. IsLine(s, a, 4) BY <1>3 DEF NumberLine
<1> HIDE DEF a, n, next, str
<1>5. p.temp \in Seq(ReplyChars) /\ x \in Nat BY LenProperties DEF Parse
<1>6. Fresh(buf) /\ w \in Nat /\ A = w + y /\ Copies(buf.buf, s, w) BY DEF Held
<1>7. y \in Nat BY <1>6, FreshUnread
<1>8. a + x = w /\ Copies(p.temp, s, a) BY <1>1 DEF Took
<1>9. Feed(p, buf, s, a, w) BY <1>2, <1>6, <1>8 DEF Feed
<1>10. x < 4
  <2> HIDE DEF x
  <2> QED BY <1>1, <1>2, <1>5, <1>6, <1>8
<1> HIDE DEF t
<1>11. /\ t.ok <=> 4 <= x + y
       /\ t.ok => /\ Len(t.text) = 2 /\ Copies(t.text, s, a)
                  /\ length(t.buf) = y - (4 - x)
                  /\ Copies(t.buf.buf, s, a + 4)
       /\ ~t.ok => /\ Len(t.p.temp) = x + y /\ Copies(t.p.temp, s, a)
                   /\ length(t.buf) = 0
                   /\ Copies(t.buf.buf, s, w + y)
       /\ t.buf.maxLen = buf.maxLen
  <2> DEFINE f == 4
  <2>1. f \in Nat /\ f >= 3 /\ IsLine(s, a, f) /\ Len(p.temp) < f /\ f - 2 = 2 BY <1>4, <1>10
  <2> HIDE DEF f
  <2>2. /\ t.ok <=> f <= x + y
        /\ t.ok => /\ Len(t.text) = f - 2 /\ Copies(t.text, s, a)
                   /\ length(t.buf) = y - (f - x)
                   /\ Copies(t.buf.buf, s, a + f)
        /\ ~t.ok => /\ Len(t.p.temp) = x + y /\ Copies(t.p.temp, s, a)
                    /\ length(t.buf) = 0
                    /\ Copies(t.buf.buf, s, w + y)
        /\ t.buf.maxLen = buf.maxLen
    BY <1>9, <2>1, TakeLineIs DEF t
  <2> QED BY <2>1, <2>2 DEF f
<1>12. /\ t.text \in Seq(ReplyChars)
       /\ Fresh(t.buf) /\ Keeps(t.p, p)
       /\ t.ok => t.p.temp = << >>
  BY <1>6, TakeLineLemma DEF t
<1>13. CASE ~t.ok
  <2>1. e.p = t.p /\ e.buf = t.buf BY <1>13 DEF recvElement, t
  <2>2. /\ ~(4 <= x + y) /\ Len(t.p.temp) = x + y /\ Copies(t.p.temp, s, a)
        /\ length(t.buf) = 0 /\ Copies(t.buf.buf, s, A)
    BY <1>6, <1>11, <1>13
  <2>3. a + Len(t.p.temp) = A /\ A < a + 4 /\ A \in Nat
    <3> DEFINE z == Len(t.p.temp)
    <3>1. /\ z = x + y /\ ~(4 <= x + y) /\ a + x = w /\ A = w + y
          /\ x \in Nat /\ y \in Nat /\ w \in Nat /\ a \in Nat
      BY <1>2, <1>5, <1>6, <1>7, <1>8, <2>2
    <3> HIDE DEF x, y, z
    <3>2. a + z = A /\ A < a + 4 /\ A \in Nat BY <3>1
    <3> QED BY <3>2 DEF z
  <2>4. Took(t.p, s, a, A) BY <2>2, <2>3 DEF Took
  <2>5. /\ ~t.p.done /\ ~t.p.threw /\ t.p.type = p.type /\ t.p.list = p.list
        /\ t.p.multiCount = p.multiCount
    BY <1>1, <1>12 DEF Keeps
  <2>6. Elements(r, t.p) BY <1>1, <2>5 DEF Elements
  <2>7. a = b + Off(r.list)[Len(t.p.list)] BY <2>5 DEF a
  <2>8. InLength(r, t.p, s, b, A) BY <2>3, <2>4, <2>5, <2>6, <2>7 DEF InLength
  <2>9. Held(t.buf, s, A, A)
    <3>1. A = A + length(t.buf) BY <2>2, <2>3
    <3> QED BY <1>12, <2>2, <2>3, <3>1 DEF Held
  <2> HIDE DEF e
  <2>10. ~e.p.threw /\ Parsed(r, e.p, s, b, A) BY <2>1, <2>5, <2>8 DEF Parsed
  <2>11. Held(e.buf, s, A, A) /\ e.buf.maxLen = buf.maxLen BY <1>11, <2>1, <2>9
  <2> QED BY <2>3, <2>10, <2>11 DEF e
<1>14. CASE t.ok
  <2> DEFINE m == IF n = -1 THEN 0 ELSE n + 2
             q == [t.p EXCEPT !.tempMaxLen = m]
             c == a + 4
  <2>1. hasNumber(t.text) /\ number(t.text) = n
    <3> DEFINE u == t.text
    <3>1. u \in Seq(ReplyChars) /\ Len(u) = 2 /\ Copies(u, s, a) BY <1>11, <1>12, <1>14
    <3> HIDE DEF u
    <3>2. hasNumber(u) /\ number(u) = n BY <1>2, <1>3, <3>1, NumberIs
    <3> QED BY <3>2 DEF u
  <2>2. c \in Nat /\ A = c + length(t.buf) /\ A \in Nat
    <3> DEFINE z == length(t.buf)
    <3>1. /\ z = y - (4 - x) /\ a + x = w /\ A = w + y
          /\ x \in Nat /\ y \in Nat /\ w \in Nat /\ a \in Nat
      BY <1>2, <1>5, <1>6, <1>7, <1>8, <1>11, <1>14
    <3> HIDE DEF x, y, z
    <3>2. c \in Nat /\ A = c + z /\ A \in Nat BY <3>1
    <3> QED BY <3>2 DEF z
  <2>3. Held(t.buf, s, c, A) BY <1>11, <1>12, <1>14, <2>2 DEF Held
  <2>4. m \in Nat /\ (str = REDIS_MISSING => n = -1) /\ (str # REDIS_MISSING => n = Len(str) /\ n # -1 /\ m = Len(str) + 2)
    <3>1. CASE str = REDIS_MISSING BY <3>1 DEF n
    <3>2. CASE str # REDIS_MISSING
      <4>1. str \in Strings BY <1>2, <3>2 DEF Bulks
      <4>2. Len(str) \in Nat BY <4>1, StringType
      <4> QED BY <3>2, <4>2 DEF n
    <3> QED BY <3>1, <3>2
  <2> HIDE DEF m
  <2>5. /\ q \in Parse /\ q.temp = << >> /\ ~q.threw /\ ~q.done /\ q.tempMaxLen = m
        /\ q.list = p.list /\ q.type = p.type /\ q.multiCount = p.multiCount
    BY <1>1, <1>12, <1>14, <2>4 DEF Keeps, Parse
  <2> HIDE DEF q
  <2>6. CASE str = REDIS_MISSING
    <3> DEFINE text == REDIS_MISSING
               g == element(q, text)
    <3>1. q.tempMaxLen = 0 /\ q = [t.p EXCEPT !.tempMaxLen = IF number(t.text) = -1 THEN 0 ELSE number(t.text) + 2]
      BY <2>1, <2>4, <2>5, <2>6 DEF q, m
    <3>2. e.p = g.p /\ e.again = g.again /\ e.buf = t.buf
      BY <1>14, <2>1, <3>1 DEF recvElement, t
    <3>3. text = ToParse(r, q) BY <2>5, <2>6 DEF ToParse, str
    <3>4. Elements(r, q) BY <1>1, <2>5 DEF Elements
    <3>5. b + After(r, q) = next BY <2>5 DEF next, After
    <3>6. next = c BY <1>2, <2>6 DEF BulkLen
    <3>7. q \in Parse /\ ~q.threw /\ q.temp = << >> BY <2>5
    <3> HIDE DEF text, e, c
    <3>11. AtHand(r, q, text) BY <3>3, <3>4, <3>7 DEF AtHand
    <3>8. ~g.p.threw /\ g.again = ~g.p.done /\ Parsed(r, g.p, s, b, b + After(r, q))
      BY <3>11, ElementParsed
    <3> HIDE DEF g
    <3>9. ~e.p.threw /\ Parsed(r, e.p, s, b, c) /\ (e.again \/ e.p.done)
      BY <3>2, <3>5, <3>6, <3>8
    <3>10. Held(e.buf, s, c, A) /\ e.buf.maxLen = buf.maxLen BY <1>11, <2>3, <3>2
    <3> QED BY <2>2, <3>9, <3>10 DEF e
  <2>7. CASE str # REDIS_MISSING
    <3> DEFINE u == takeLen(q, t.buf)
               text == withoutCRLF(q, u.text)
               l == u.p
               g == element(l, text)
    <3>1. q.tempMaxLen = Len(str) + 2 /\ q.tempMaxLen # 0
      <4>1. str \in Strings BY <1>2, <2>7 DEF Bulks
      <4>2. Len(str) \in Nat BY <4>1, StringType
      <4> QED BY <2>4, <2>5, <2>7, <4>2
    <3>2. q = [t.p EXCEPT !.tempMaxLen = IF number(t.text) = -1 THEN 0 ELSE number(t.text) + 2]
      BY <2>1 DEF q, m
    <3>3. /\ u.ok /\ text = str
          /\ Keeps(l, q) /\ l.temp = << >>
          /\ Held(u.buf, s, a + BulkLen(str), A) /\ u.buf.maxLen = t.buf.maxLen
      <4> DEFINE B == t.buf
      <4>1. Held(B, s, a + 4, A) BY <2>3
      <4> HIDE DEF B
      <4>2. LET v == takeLen(q, B) IN
            /\ v.ok /\ withoutCRLF(q, v.text) = str
            /\ Keeps(v.p, q) /\ v.p.temp = << >>
            /\ Held(v.buf, s, a + BulkLen(str), A) /\ v.buf.maxLen = B.maxLen
        BY <1>2, <2>2, <2>5, <2>7, <3>1, <4>1, RecvStringSeen
      <4> QED BY <4>2 DEF B
    <3>4. e.p = g.p /\ e.again = g.again /\ e.buf = u.buf
      BY <1>14, <2>1, <3>1, <3>2, <3>3 DEF recvElement, t
    <3> HIDE DEF u, l, text
    <3>5. /\ l \in Parse /\ ~l.threw /\ l.list = p.list /\ l.type = p.type
          /\ l.multiCount = p.multiCount
      BY <2>5, <3>3 DEF Keeps
    <3>6. text = ToParse(r, l) BY <3>3, <3>5 DEF ToParse, str
    <3>7. Elements(r, l) BY <1>1, <3>5 DEF Elements
    <3>8. b + After(r, l) = next BY <3>5 DEF next, After
    <3>9. l \in Parse /\ ~l.threw /\ l.temp = << >> BY <3>3, <3>5
    <3> HIDE DEF e
    <3>14. AtHand(r, l, text) BY <3>6, <3>7, <3>9 DEF AtHand
    <3>10. ~g.p.threw /\ g.again = ~g.p.done /\ Parsed(r, g.p, s, b, b + After(r, l))
      BY <3>14, ElementParsed
    <3> HIDE DEF g
    <3>11. ~e.p.threw /\ Parsed(r, e.p, s, b, next) /\ (e.again \/ e.p.done)
      BY <3>4, <3>8, <3>10
    <3>12. Held(e.buf, s, next, A) /\ e.buf.maxLen = buf.maxLen
      BY <1>2, <1>11, <3>3, <3>4
    <3>13. next \in Nat BY <3>12 DEF Held
    <3> QED BY <3>11, <3>12, <3>13 DEF e
  <2> QED BY <2>6, <2>7
<1> QED BY <1>13, <1>14

-----------------------------------------------------------------------------
(***************************************************************************)
(* The inductive invariant about the replies.                              *)
(***************************************************************************)

(* A read ends at most between two elements. *)
SentInv ==
  /\ replies \in [1..MaxReplies -> Replies]
  /\ stream = sent(replies)[MaxReplies]
  /\ arrived > 0 => ~stream[arrived].in
  /\ m_bufferRecv.maxLen = RecvBufSize

DeliveredAre ==
  \A k \in 1..Len(delivered) :
    delivered[k].type = replies[k].type /\ delivered[k].list = Result(replies[k])

(* handleReadSome is going to read, or recv to return without a reply. *)
Waiting == pc = "read" \/ (pc = "end" /\ ~m_parse.done)

(* What has arrived after c is part of a line; RedisBlock leaves nothing in the buffer. *)
StopsAt(c) == NoEnd(stream, c, arrived) /\ (block = "RedisBlock" => c = arrived)

(* The parser is at c, in the reply after those that were delivered. *)
ParserAt(c) ==
  /\ Len(delivered) \in 0..MaxReplies
  /\ Len(delivered) < MaxReplies =>
       /\ Parsed(replies[Len(delivered) + 1], m_parse, stream,
                 Start(replies, Len(delivered)), c)
       /\ Waiting => arrived < Start(replies, Len(delivered) + 1)
  /\ Len(delivered) = MaxReplies =>
       m_parse = NewParse /\ c = Start(replies, Len(delivered)) /\ pc \in {"read", "recv"}
  /\ Waiting => StopsAt(c)

PlaceInv ==
  \E w : Held(m_bufferRecv, stream, w, arrived) /\ ParserAt(w + m_parse.readPos)

ReplyInv ==
  SentInv /\ DeliveredAre /\ (pc # "terminate" => PlaceInv) /\ ThrowsOnlyOnUnfit

(* What is known of a reply, and of the parser inside it. *)
InReply(K, r, b, w) ==
  /\ K = Len(delivered) /\ K \in Nat /\ K < MaxReplies
  /\ r = replies[K + 1] /\ r \in Replies
  /\ b = Start(replies, K) /\ b \in Nat /\ ReplyAt(stream, b, r)
  /\ ReplyLen(r) \in Nat /\ FirstLen(r) <= ReplyLen(r)
  /\ Start(replies, K + 1) = b + ReplyLen(r)
  /\ Held(m_bufferRecv, stream, w, arrived)
  /\ m_parse \in Parse
  /\ Parsed(r, m_parse, stream, b, w + m_parse.readPos)

(* The reply that is parsed, when not all were delivered. *)
LEMMA ReplyIs ==
  ASSUME RedisInv, SentInv, NEW w, Held(m_bufferRecv, stream, w, arrived),
         ParserAt(w + m_parse.readPos), Len(delivered) # MaxReplies
  PROVE  InReply(Len(delivered), replies[Len(delivered) + 1],
                 Start(replies, Len(delivered)), w)
<1> DEFINE K == Len(delivered)
<1>1. K \in 0..MaxReplies /\ K # MaxReplies BY DEF ParserAt
<1>2. MaxReplies \in Nat BY RedisAssumption
<1>3. Parsed(replies[K + 1], m_parse, stream, Start(replies, K), w + m_parse.readPos)
  <2>1. K < MaxReplies BY <1>1, <1>2
  <2> QED BY <2>1 DEF ParserAt
<1>4. m_parse \in Parse BY DEF RedisInv, ParseInv, Shape
<1> HIDE DEF K
<1>5. K \in Nat /\ K < MaxReplies /\ K \in 0..MaxReplies /\ K + 1 \in 1..MaxReplies /\ (K + 1) - 1 = K
  BY <1>1, <1>2
<1>6. /\ Start(replies, K) \in Nat
      /\ replies[K + 1] \in Replies
      /\ Start(replies, K + 1) = Start(replies, (K + 1) - 1) + ReplyLen(replies[K + 1])
      /\ ReplyAt(stream, Start(replies, (K + 1) - 1), replies[K + 1])
      /\ ReplyLen(replies[K + 1]) \in Nat /\ FirstLen(replies[K + 1]) <= ReplyLen(replies[K + 1])
  BY <1>5, StreamAt DEF SentInv
<1> QED BY <1>3, <1>4, <1>5, <1>6 DEF InReply, K

(* A parser that is not done waits, or goes on, before the end of its reply. *)
LEMMA NotAtEnd ==
  ASSUME NEW K, NEW r, NEW b, NEW w, InReply(K, r, b, w), ~m_parse.done
  PROVE  LET c == w + m_parse.readPos IN
         c \in Nat /\ b <= c /\ c < Start(replies, K + 1)
<1> DEFINE c == w + m_parse.readPos
<1>1. /\ r \in Replies /\ m_parse.temp \in Seq(ReplyChars) /\ b \in Nat
      /\ Parsed(r, m_parse, stream, b, c) /\ ReplyLen(r) \in Nat /\ FirstLen(r) <= ReplyLen(r)
      /\ Start(replies, K + 1) = b + ReplyLen(r)
  BY DEF InReply, Parse
<1> HIDE DEF c
<1>2. c \in Nat /\ b <= c /\ c < b + ReplyLen(r) BY <1>1, NotDone
<1> QED BY <1>1, <1>2 DEF c

(* A new block is at the beginning of the next reply. *)
LEMMA NewParsed ==
  ASSUME NEW r \in Replies, NEW s, NEW b \in Nat
  PROVE  Parsed(r, NewParse, s, b, b)
<1>1. NewParse.temp = << >> /\ NewParse.type = "no_reply" /\ ~NewParse.done BY DEF NewParse
<1>2. Took(NewParse, s, b, b) BY <1>1, TookNothing
<1>3. b < b + FirstLen(r) BY FirstLenLemma
<1> QED BY <1>1, <1>2, <1>3 DEF Parsed, InFirstLine

(* The end of the last reply is the end of the stream. *)
LEMMA AllArrived ==
  ASSUME RedisInv, SentInv, NEW w, Held(m_bufferRecv, stream, w, arrived),
         ParserAt(w + m_parse.readPos), Len(delivered) = MaxReplies
  PROVE  length(m_bufferRecv) = 0 /\ pc \in {"read", "recv"}
<1>1. m_parse = NewParse /\ w + m_parse.readPos = Start(replies, MaxReplies) /\ pc \in {"read", "recv"}
  BY DEF ParserAt
<1>2. m_parse.readPos = 0 BY <1>1 DEF NewParse
<1>3. w \in Nat /\ arrived = w + length(m_bufferRecv) BY DEF Held
<1>4. length(m_bufferRecv) \in Nat BY FreshUnread DEF RedisInv, ReadInv
<1>5. arrived <= Len(stream) /\ Len(stream) \in Nat BY LenProperties DEF RedisInv, ReadInv
<1>6. Start(replies, MaxReplies) = Len(stream) BY DEF Start, SentInv
<1> DEFINE y == length(m_bufferRecv)
<1>7. w = Len(stream) BY <1>1, <1>2, <1>3, <1>6
<1> HIDE DEF y
<1>8. y = 0 BY <1>3, <1>4, <1>5, <1>7 DEF y
<1> QED BY <1>1, <1>8 DEF y

(* When recv parses, it is inside a reply. *)
LEMMA Parsing ==
  ASSUME RedisInv, ReplyInv, pc = "body" \/ (pc = "recv" /\ hasWrite(m_bufferRecv))
  PROVE  /\ SentInv /\ DeliveredAre /\ ~m_parse.done /\ ~m_parse.threw
         /\ \E K, r, b, w : InReply(K, r, b, w)
<1>1. PICK w : Held(m_bufferRecv, stream, w, arrived) /\ ParserAt(w + m_parse.readPos)
  BY DEF ReplyInv, PlaceInv
<1>2. SentInv /\ DeliveredAre BY DEF ReplyInv
<1>3. Len(delivered) # MaxReplies
  <2>1. SUFFICES ASSUME Len(delivered) = MaxReplies PROVE FALSE OBVIOUS
  <2>2. length(m_bufferRecv) = 0 /\ pc \in {"read", "recv"} BY <1>1, <1>2, <2>1, AllArrived
  <2> QED BY <2>2 DEF hasWrite
<1>4. InReply(Len(delivered), replies[Len(delivered) + 1], Start(replies, Len(delivered)), w)
  BY <1>1, <1>2, <1>3, ReplyIs
<1>5. ~m_parse.done /\ ~m_parse.threw BY DEF RedisInv, ParseInv
<1> QED BY <1>2, <1>4, <1>5

(* Nothing has arrived after c. *)
LEMMA StopsAtEnd ==
  ASSUME arrived \in Nat
  PROVE  StopsAt(arrived)
<1>1. \A i \in (arrived + 1)..arrived : FALSE OBVIOUS
<1> QED BY <1>1 DEF StopsAt, NoEnd

(* A reply that the parser throws on, or that makeRedisBuffer throws on. *)
LEMMA ThrowStep ==
  ASSUME SentInv, DeliveredAre, NEW K, NEW r, NEW b, NEW w, InReply(K, r, b, w),
         Unfit(r), Start(replies, K + 1) <= arrived,
         UNCHANGED <<replies, stream, arrived, delivered, block>>,
         m_bufferRecv'.maxLen = m_bufferRecv.maxLen, pc' = "terminate"
  PROVE  ReplyInv'
<1>1. SentInv' /\ DeliveredAre' BY DEF SentInv, DeliveredAre
<1>2. /\ K = Len(delivered) /\ K \in Nat /\ K < MaxReplies /\ r = replies[K + 1]
  BY DEF InReply
<1>3. K + 1 \in 1..MaxReplies BY <1>2, RedisAssumption
<1>4. /\ K + 1 = Len(delivered') + 1 /\ Unfit(replies[K + 1])'
      /\ Len(sent(replies')[K + 1]) <= arrived'
  BY <1>2 DEF Unfit, Start
<1>5. ThrowsOnlyOnUnfit' BY <1>3, <1>4 DEF ThrowsOnlyOnUnfit
<1> QED BY <1>1, <1>5 DEF ReplyInv

(* An error line that is too short has no more than its first line. *)
LEMMA TooShortUnfit ==
  ASSUME NEW r, TooShort(r)
  PROVE  Unfit(r) /\ ReplyLen(r) = FirstLen(r)
BY DEF TooShort, Unfit, ReplyLen

(* One step of the parser inside a reply. *)
LEMMA ParserStep ==
  ASSUME SentInv, DeliveredAre, NEW K, NEW r, NEW b, NEW w, InReply(K, r, b, w),
         UNCHANGED <<replies, stream, arrived, delivered, block>>,
         m_bufferRecv'.maxLen = m_bufferRecv.maxLen, pc' \in {"body", "end"},
         NEW v, Held(m_bufferRecv', stream, v, arrived),
         Parsed(r, m_parse', stream, b, v + m_parse'.readPos),
         Waiting' => StopsAt(v + m_parse'.readPos) /\ arrived < Start(replies, K + 1)
  PROVE  ReplyInv'
<1>1. SentInv' BY DEF SentInv
<1>2. DeliveredAre' BY DEF DeliveredAre
<1> DEFINE c == v + m_parse'.readPos
           W == Waiting'
<1>3. /\ K = Len(delivered) /\ K \in Nat /\ K < MaxReplies /\ r = replies[K + 1]
      /\ b = Start(replies, K)
  BY DEF InReply
<1>4. MaxReplies \in Nat BY RedisAssumption
<1>5. K \in 0..MaxReplies /\ K # MaxReplies BY <1>3, <1>4
<1>6. W => StopsAt(c) /\ arrived < Start(replies, K + 1) OBVIOUS
<1>7. Parsed(replies[K + 1], m_parse', stream, Start(replies, K), c) BY <1>3
<1> HIDE DEF c, W
<1>8. /\ Len(delivered') \in 0..MaxReplies
      /\ Len(delivered') < MaxReplies =>
           /\ Parsed(replies'[Len(delivered') + 1], m_parse', stream',
                     Start(replies', Len(delivered')), c)
           /\ W => arrived' < Start(replies', Len(delivered') + 1)
      /\ Len(delivered') # MaxReplies
      /\ W => NoEnd(stream', c, arrived') /\ (block' = "RedisBlock" => c = arrived')
  BY <1>3, <1>5, <1>6, <1>7 DEF StopsAt
<1>9. Held(m_bufferRecv', stream', v, arrived') OBVIOUS
<1>10. PlaceInv'
  <2>1. ParserAt(v + m_parse.readPos)' BY <1>8 DEF ParserAt, StopsAt, c, W
  <2> QED BY <1>9, <2>1 DEF PlaceInv
<1>11. ThrowsOnlyOnUnfit' BY DEF ThrowsOnlyOnUnfit
<1> QED BY <1>1, <1>2, <1>10, <1>11 DEF ReplyInv

(* What parse() is given of the stream. *)
LEMMA ViewRecv ==
  ASSUME RedisInv, NEW K, NEW r, NEW b, NEW w, InReply(K, r, b, w)
  PROVE  View(m_parse, unread(m_bufferRecv), stream, w, arrived)
<1> DEFINE buf == unread(m_bufferRecv)
           n == length(m_bufferRecv)
<1>1. buf \in Seq(ReplyChars) /\ Len(buf) = n /\ n \in Nat /\ m_parse.readPos <= Len(buf)
  BY UnreadRecv
<1>2. Held(m_bufferRecv, stream, w, arrived) /\ m_parse \in Parse BY DEF InReply
<1>3. /\ w \in Nat /\ arrived = w + n /\ Copies(m_bufferRecv.buf, stream, w)
      /\ m_bufferRecv \in Buffer(ReplyChars) /\ InBounds(m_bufferRecv) /\ m_bufferRecv.readPos = 0
  BY <1>2 DEF Held, Fresh
<1>4. needReadLength(m_bufferRecv) = n BY <1>1, <1>3 DEF needReadLength
<1>5. \A i \in 1..n : buf[i] = m_bufferRecv.buf[i]
  <2>1. \A i \in 1..n : buf[i] = m_bufferRecv.buf[m_bufferRecv.readPos + i]
    BY <1>3, <1>4, UnreadLemma
  <2>2. \A i \in 1..n : m_bufferRecv.readPos + i = i BY <1>1, <1>3
  <2> HIDE DEF buf, n
  <2> QED BY <2>1, <2>2
<1>6. Copies(buf, stream, w)
  <2>1. \A i \in 1..n : stream[w + i] = m_bufferRecv.buf[i] BY <1>3 DEF Copies, length
  <2> HIDE DEF buf, n
  <2> QED BY <1>1, <1>5, <2>1 DEF Copies
<1> QED BY <1>1, <1>2, <1>3, <1>6 DEF View

(* The type that recv goes by tells how far the reply is parsed. *)
LEMMA TypeTells ==
  ASSUME NEW r, NEW p, NEW s, NEW b, NEW c, Parsed(r, p, s, b, c), ~p.done
  PROVE  /\ p.type = "no_reply" => InFirstLine(r, p, s, b, c)
         /\ p.type = "bulk_reply" => InString(r, p, s, b, c)
         /\ p.type = "multi_bulk_reply" => InLength(r, p, s, b, c)
BY DEF Parsed, Complete, InFirstLine, InString, InLength, Elements

(* RedisBlock2: the first line. *)
LEMMA ParseTypeReply ==
  ASSUME RedisInv, ReplyInv, ParseType
  PROVE  ReplyInv'
<1> DEFINE buf == unread(m_bufferRecv)
           q == parseType(readLine(m_parse, buf), lineOf(m_parse, buf))
<1>1. /\ pc = "recv" /\ hasWrite(m_bufferRecv) /\ m_parse.type = "no_reply"
      /\ block = "RedisBlock2"
      /\ UNCHANGED <<replies, stream, arrived, m_bufferRecv, delivered, block>>
      /\ \/ (~hasLine(m_parse, buf) /\ pc' = "end" /\ m_parse' = m_parse)
         \/ (hasLine(m_parse, buf) /\ m_parse' = q /\ pc' = AfterType(q))
  BY DEF ParseType, AtType, serverVars
<1>2. /\ SentInv /\ DeliveredAre /\ ~m_parse.done /\ ~m_parse.threw
      /\ \E K, r, b, w : InReply(K, r, b, w)
  BY <1>1, Parsing
<1>3. PICK K, r, b, w : InReply(K, r, b, w) BY <1>2
<1> DEFINE c == w + m_parse.readPos
<1>4. /\ r \in Replies /\ b \in Nat /\ ReplyAt(stream, b, r) /\ m_parse \in Parse
      /\ Held(m_bufferRecv, stream, w, arrived) /\ Parsed(r, m_parse, stream, b, c)
      /\ Start(replies, K + 1) = b + ReplyLen(r) /\ ReplyLen(r) \in Nat
      /\ FirstLen(r) <= ReplyLen(r)
  BY <1>3 DEF InReply
<1>5. View(m_parse, buf, stream, w, arrived) BY <1>3, ViewRecv
<1>6. Begun(m_parse) BY <1>1, <1>2, <1>4 DEF Begun, RedisInv, ParseInv, Shape
<1>7. InFirstLine(r, m_parse, stream, b, c) BY <1>1, <1>2, <1>4, TypeTells
<1> HIDE DEF buf
<1>8. /\ ~hasLine(m_parse, buf) => arrived < b + FirstLen(r) /\ NoEnd(stream, c, arrived)
      /\ hasLine(m_parse, buf) =>
           /\ b + FirstLen(r) <= arrived
           /\ TooShort(r) => q.threw
           /\ ~TooShort(r) => ~q.threw /\ Parsed(r, q, stream, b, w + q.readPos)
  BY <1>4, <1>5, <1>6, <1>7, ParseTypeSeen
<1> HIDE DEF q
<1>9. arrived \in Nat BY DEF RedisInv, ReadInv
<1>10. CASE ~hasLine(m_parse, buf)
  <2>1. StopsAt(c) BY <1>1, <1>8, <1>10 DEF StopsAt
  <2>2. arrived < Start(replies, K + 1)
    <3>1. FirstLen(r) \in Nat BY <1>4, FirstLenLemma
    <3> HIDE DEF c
    <3> QED BY <1>4, <1>8, <1>9, <1>10, <3>1
  <2>3. m_parse' = m_parse /\ pc' = "end" BY <1>1, <1>10
  <2>4. Held(m_bufferRecv', stream, w, arrived) BY <1>1, <1>4
  <2>5. Parsed(r, m_parse', stream, b, w + m_parse'.readPos) BY <1>4, <2>3
  <2>6. StopsAt(w + m_parse'.readPos) BY <2>1, <2>3
  <2>7. pc' \in {"body", "end"} /\ m_bufferRecv'.maxLen = m_bufferRecv.maxLen BY <1>1, <2>3
  <2>8. UNCHANGED <<replies, stream, arrived, delivered, block>> BY <1>1
  <2> QED BY <1>2, <1>3, <2>2, <2>4, <2>5, <2>6, <2>7, <2>8, ParserStep
<1>11. CASE hasLine(m_parse, buf) /\ ~TooShort(r)
  <2>1. m_parse' = q /\ pc' = AfterType(q) /\ ~q.threw BY <1>1, <1>8, <1>11
  <2>2. pc' \in {"body", "end"} /\ (pc' = "end" => m_parse'.done) BY <2>1 DEF AfterType
  <2>3. Held(m_bufferRecv', stream, w, arrived) BY <1>1, <1>4
  <2>4. Parsed(r, m_parse', stream, b, w + m_parse'.readPos) BY <1>8, <1>11, <2>1
  <2>5. ~Waiting' BY <2>2 DEF Waiting
  <2>6. m_bufferRecv'.maxLen = m_bufferRecv.maxLen BY <1>1
  <2>7. UNCHANGED <<replies, stream, arrived, delivered, block>> BY <1>1
  <2> QED BY <1>2, <1>3, <2>2, <2>3, <2>4, <2>5, <2>6, <2>7, ParserStep
<1>12. CASE hasLine(m_parse, buf) /\ TooShort(r)
  <2>1. q.threw /\ pc' = AfterType(q) BY <1>1, <1>8, <1>12
  <2>2. pc' = "terminate" BY <2>1 DEF AfterType
  <2>3. Unfit(r) /\ Start(replies, K + 1) <= arrived BY <1>4, <1>8, <1>12, TooShortUnfit
  <2>4. m_bufferRecv'.maxLen = m_bufferRecv.maxLen BY <1>1
  <2>5. UNCHANGED <<replies, stream, arrived, delivered, block>> BY <1>1
  <2> QED BY <1>2, <1>3, <2>2, <2>3, <2>4, <2>5, ThrowStep
<1> QED BY <1>10, <1>11, <1>12

(* RedisBlock2: the string of a bulk reply. *)
LEMMA ParseBulkReply ==
  ASSUME RedisInv, ReplyInv, ParseBulk, RedisInv'
  PROVE  ReplyInv'
<1> DEFINE buf == unread(m_bufferRecv)
           q == parseBulk(m_parse, buf)
<1>1. /\ pc = "body" \/ (pc = "recv" /\ hasWrite(m_bufferRecv))
      /\ m_parse.type = "bulk_reply"
      /\ UNCHANGED <<replies, stream, arrived, m_bufferRecv, delivered, block>>
      /\ m_parse' = q /\ pc' = "end"
  BY DEF ParseBulk, InBody, serverVars
<1>2. /\ SentInv /\ DeliveredAre /\ ~m_parse.done /\ ~m_parse.threw
      /\ \E K, r, b, w : InReply(K, r, b, w)
  BY <1>1, Parsing
<1>3. PICK K, r, b, w : InReply(K, r, b, w) BY <1>2
<1>4. /\ r \in Replies /\ b \in Nat /\ ReplyAt(stream, b, r)
      /\ Held(m_bufferRecv, stream, w, arrived)
      /\ Parsed(r, m_parse, stream, b, w + m_parse.readPos)
      /\ Start(replies, K + 1) = b + ReplyLen(r) /\ ReplyLen(r) \in Nat
      /\ FirstLen(r) <= ReplyLen(r)
  BY <1>3 DEF InReply
<1>5. View(m_parse, buf, stream, w, arrived) BY <1>3, ViewRecv
<1>6. m_parse.list = << >> BY <1>1, <1>2 DEF RedisInv, ParseInv, Shape
<1>7. InString(r, m_parse, stream, b, w + m_parse.readPos) BY <1>1, <1>2, <1>4, TypeTells
<1> HIDE DEF buf
<1>8. Parsed(r, q, stream, b, w + q.readPos) /\ (~q.done => w + q.readPos = arrived)
  BY <1>4, <1>5, <1>6, <1>7, ParseBulkSeen
<1> HIDE DEF q
<1>9. arrived \in Nat BY DEF RedisInv, ReadInv
<1>10. Parsed(r, m_parse', stream, b, w + m_parse'.readPos) BY <1>1, <1>8
<1>11. ASSUME ~m_parse'.done
       PROVE  StopsAt(w + m_parse'.readPos) /\ arrived < Start(replies, K + 1)
  <2>1. w + m_parse'.readPos = arrived BY <1>1, <1>8, <1>11
  <2>2. Parsed(r, m_parse', stream, b, arrived) BY <1>10, <2>1
  <2>3. m_parse'.temp \in Seq(ReplyChars) BY DEF RedisInv, ParseInv, Shape, Parse
  <2>4. arrived < b + ReplyLen(r) BY <1>4, <1>11, <2>2, <2>3, NotDone
  <2> QED BY <1>4, <1>9, <2>1, <2>4, StopsAtEnd
<1>12. Waiting' => StopsAt(w + m_parse'.readPos) /\ arrived < Start(replies, K + 1)
  BY <1>1, <1>11 DEF Waiting
<1>13. Held(m_bufferRecv', stream, w, arrived) BY <1>1, <1>4
<1>14. pc' \in {"body", "end"} /\ m_bufferRecv'.maxLen = m_bufferRecv.maxLen BY <1>1
<1>15. UNCHANGED <<replies, stream, arrived, delivered, block>> BY <1>1
<1> QED BY <1>2, <1>3, <1>10, <1>12, <1>13, <1>14, <1>15, ParserStep

(* RedisBlock2: a string of a list. *)
LEMMA ParseElementReply ==
  ASSUME RedisInv, ReplyInv, ParseElement, RedisInv'
  PROVE  ReplyInv'
<1> DEFINE buf == unread(m_bufferRecv)
           e == parseElement(m_parse, buf)
<1>1. /\ pc = "body" \/ (pc = "recv" /\ hasWrite(m_bufferRecv))
      /\ m_parse.type = "multi_bulk_reply"
      /\ block = "RedisBlock2"
      /\ UNCHANGED <<replies, stream, arrived, m_bufferRecv, delivered, block>>
      /\ m_parse' = e.p /\ pc' = AfterElement(e)
  BY DEF ParseElement, InBody, serverVars
<1>2. /\ SentInv /\ DeliveredAre /\ ~m_parse.done /\ ~m_parse.threw
      /\ \E K, r, b, w : InReply(K, r, b, w)
  BY <1>1, Parsing
<1>3. PICK K, r, b, w : InReply(K, r, b, w) BY <1>2
<1>4. /\ r \in Replies /\ b \in Nat /\ ReplyAt(stream, b, r)
      /\ Held(m_bufferRecv, stream, w, arrived)
      /\ Parsed(r, m_parse, stream, b, w + m_parse.readPos)
      /\ Start(replies, K + 1) = b + ReplyLen(r)
  BY <1>3 DEF InReply
<1>5. View(m_parse, buf, stream, w, arrived) BY <1>3, ViewRecv
<1>6. arrived > 0 => ~stream[arrived].in BY <1>2 DEF SentInv
<1>7. InLength(r, m_parse, stream, b, w + m_parse.readPos) BY <1>1, <1>2, <1>4, TypeTells
<1> HIDE DEF buf
<1>8. /\ ~e.p.threw
      /\ Parsed(r, e.p, stream, b, w + e.p.readPos)
      /\ ~e.again /\ ~e.p.done => /\ arrived < b + ReplyLen(r)
                                  /\ NoEnd(stream, w + e.p.readPos, arrived)
  BY <1>2, <1>4, <1>5, <1>6, <1>7, ParseElementSeen
<1> HIDE DEF e
<1>9. arrived \in Nat /\ w \in Nat BY <1>4 DEF RedisInv, ReadInv, Held
<1>10. Parsed(r, m_parse', stream, b, w + m_parse'.readPos) BY <1>1, <1>8
<1>11. pc' = IF e.again THEN "body" ELSE "end" BY <1>1, <1>8 DEF AfterElement
<1>12. ASSUME Waiting'
       PROVE  StopsAt(w + m_parse'.readPos) /\ arrived < Start(replies, K + 1)
  <2>1. ~e.again /\ ~e.p.done BY <1>1, <1>11, <1>12 DEF Waiting
  <2>2. arrived < b + ReplyLen(r) /\ NoEnd(stream, w + m_parse'.readPos, arrived)
    BY <1>1, <1>8, <2>1
  <2>3. StopsAt(w + m_parse'.readPos) BY <1>1, <2>2 DEF StopsAt
  <2> QED BY <1>4, <2>2, <2>3
<1>13. Held(m_bufferRecv', stream, w, arrived) BY <1>1, <1>4
<1>14. pc' \in {"body", "end"} /\ m_bufferRecv'.maxLen = m_bufferRecv.maxLen BY <1>1, <1>11
<1>15. UNCHANGED <<replies, stream, arrived, delivered, block>> BY <1>1
<1> QED BY <1>2, <1>3, <1>10, <1>12, <1>13, <1>14, <1>15, ParserStep

(* RedisBlock consumes what it takes at once: it is where its buffer begins. *)
LEMMA RecvReply ==
  ASSUME RedisInv, block = "RedisBlock", SentInv, DeliveredAre,
         NEW K, NEW r, NEW b, NEW w, InReply(K, r, b, w), RedisInv',
         UNCHANGED <<replies, stream, arrived, delivered, block>>,
         m_bufferRecv'.maxLen = m_bufferRecv.maxLen, pc' \in {"body", "end"},
         NEW v, Held(m_bufferRecv', stream, v, arrived),
         Parsed(r, m_parse', stream, b, v),
         pc' = "end" /\ ~m_parse'.done => v = arrived
  PROVE  ReplyInv'
<1>1. m_parse'.readPos = 0 BY DEF RedisInv, SizeInv
<1>2. v \in Nat BY DEF Held
<1>3. v + m_parse'.readPos = v BY <1>1, <1>2
<1>4. /\ r \in Replies /\ b \in Nat /\ Start(replies, K + 1) = b + ReplyLen(r)
      /\ ReplyLen(r) \in Nat /\ FirstLen(r) <= ReplyLen(r)
  BY DEF InReply
<1>5. arrived \in Nat BY DEF RedisInv, ReadInv
<1>6. Waiting' => StopsAt(v + m_parse'.readPos) /\ arrived < Start(replies, K + 1)
  <2> SUFFICES ASSUME Waiting'
               PROVE  StopsAt(v + m_parse'.readPos) /\ arrived < Start(replies, K + 1)
    OBVIOUS
  <2>1. ~m_parse'.done /\ v = arrived BY DEF Waiting
  <2>2. m_parse'.temp \in Seq(ReplyChars) BY DEF RedisInv, ParseInv, Shape, Parse
  <2>3. v < b + ReplyLen(r) BY <1>4, <2>1, <2>2, NotDone
  <2> QED BY <1>3, <1>4, <1>5, <2>1, <2>3, StopsAtEnd
<1>7. Parsed(r, m_parse', stream, b, v + m_parse'.readPos) BY <1>3
<1>8. UNCHANGED <<replies, stream, arrived, delivered, block>> OBVIOUS
<1> QED BY <1>6, <1>7, <1>8, ParserStep

(* RedisBlock: the first line. *)
LEMMA RecvTypeReply ==
  ASSUME RedisInv, ReplyInv, RecvType, RedisInv'
  PROVE  ReplyInv'
<1> DEFINE t == takeLine(m_parse, m_bufferRecv)
           q == parseType(t.p, t.text)
<1>1. /\ block = "RedisBlock" /\ pc = "recv" /\ hasWrite(m_bufferRecv)
      /\ m_parse.type = "no_reply"
      /\ UNCHANGED <<replies, stream, arrived, delivered, block>>
      /\ m_bufferRecv' = t.buf
      /\ \/ (~t.ok /\ m_parse' = t.p /\ pc' = "end")
         \/ (t.ok /\ m_parse' = q /\ pc' = AfterType(q))
  BY DEF RecvType, AtType, serverVars
<1>2. /\ SentInv /\ DeliveredAre /\ ~m_parse.done /\ ~m_parse.threw
      /\ \E K, r, b, w : InReply(K, r, b, w)
  BY <1>1, Parsing
<1>3. PICK K, r, b, w : InReply(K, r, b, w) BY <1>2
<1>4. /\ r \in Replies /\ b \in Nat /\ ReplyAt(stream, b, r) /\ m_parse \in Parse
      /\ Held(m_bufferRecv, stream, w, arrived)
      /\ Parsed(r, m_parse, stream, b, w + m_parse.readPos)
  BY <1>3 DEF InReply
<1>5. m_parse.readPos = 0 BY <1>1 DEF RedisInv, SizeInv
<1>6. w + m_parse.readPos = w BY <1>4, <1>5 DEF Held
<1>7. Begun(m_parse) BY <1>1, <1>2, <1>4 DEF Begun, RedisInv, ParseInv, Shape
<1>8. InFirstLine(r, m_parse, stream, b, w) BY <1>1, <1>2, <1>4, <1>6, TypeTells
<1>9. \E v \in Nat :
        /\ Held(t.buf, stream, v, arrived) /\ t.buf.maxLen = m_bufferRecv.maxLen
        /\ ~t.ok => v = arrived /\ InFirstLine(r, t.p, stream, b, v)
        /\ t.ok => /\ v = b + FirstLen(r) /\ v <= arrived
                   /\ TooShort(r) => q.threw
                   /\ ~TooShort(r) => ~q.threw /\ Parsed(r, q, stream, b, v)
  <2>1. /\ r \in Replies /\ b \in Nat /\ ReplyAt(stream, b, r) /\ Held(m_bufferRecv, stream, w, arrived)
        /\ Begun(m_parse) /\ m_parse.readPos = 0 /\ InFirstLine(r, m_parse, stream, b, w)
    BY <1>4, <1>5, <1>7, <1>8
  <2> QED BY <2>1, RecvTypeSeen
<1> HIDE DEF t, q
<1>10. PICK v \in Nat :
        /\ Held(t.buf, stream, v, arrived) /\ t.buf.maxLen = m_bufferRecv.maxLen
        /\ ~t.ok => v = arrived /\ InFirstLine(r, t.p, stream, b, v)
        /\ t.ok => /\ v = b + FirstLen(r) /\ v <= arrived
                   /\ TooShort(r) => q.threw
                   /\ ~TooShort(r) => ~q.threw /\ Parsed(r, q, stream, b, v)
  BY <1>9
<1>11. Held(m_bufferRecv', stream, v, arrived) /\ m_bufferRecv'.maxLen = m_bufferRecv.maxLen
  BY <1>1, <1>10
<1>12. UNCHANGED <<replies, stream, arrived, delivered, block>> BY <1>1
<1>13. CASE t.ok /\ TooShort(r)
  <2>1. q.threw /\ pc' = AfterType(q) BY <1>1, <1>10, <1>13
  <2>2. pc' = "terminate" BY <2>1 DEF AfterType
  <2>3. Unfit(r) /\ Start(replies, K + 1) <= arrived
    <3>1. Start(replies, K + 1) = b + ReplyLen(r) BY <1>3 DEF InReply
    <3> QED BY <1>10, <1>13, <3>1, TooShortUnfit
  <2> QED BY <1>2, <1>3, <1>11, <1>12, <2>2, <2>3, ThrowStep
<1>14. CASE ~t.ok \/ ~TooShort(r)
  <2>1. /\ Parsed(r, m_parse', stream, b, v) /\ pc' \in {"body", "end"}
        /\ (pc' = "end" /\ ~m_parse'.done => v = arrived)
    <3>1. CASE ~t.ok
      <4>1. Parsed(r, t.p, stream, b, v) BY <1>10, <3>1 DEF Parsed
      <4> QED BY <1>1, <1>10, <3>1, <4>1
    <3>2. CASE t.ok BY <1>1, <1>10, <1>14, <3>2 DEF AfterType
    <3> QED BY <3>1, <3>2
  <2> QED BY <1>1, <1>2, <1>3, <1>11, <1>12, <2>1, RecvReply
<1> QED BY <1>13, <1>14

(* RedisBlock: the string of a bulk reply. *)
LEMMA RecvBulkReply ==
  ASSUME RedisInv, ReplyInv, RecvBulk, RedisInv'
  PROVE  ReplyInv'
<1> DEFINE e == recvBulk(m_parse, m_bufferRecv, m_recvSize)
<1>1. /\ block = "RedisBlock" /\ (pc = "body" \/ (pc = "recv" /\ hasWrite(m_bufferRecv)))
      /\ m_parse.type = "bulk_reply"
      /\ UNCHANGED <<replies, stream, arrived, delivered, block>>
      /\ m_bufferRecv' = e.buf /\ m_parse' = e.p /\ pc' = "end"
  BY DEF RecvBulk, InBody, serverVars
<1>2. /\ SentInv /\ DeliveredAre /\ ~m_parse.done /\ ~m_parse.threw
      /\ \E K, r, b, w : InReply(K, r, b, w)
  BY <1>1, Parsing
<1>3. PICK K, r, b, w : InReply(K, r, b, w) BY <1>2
<1>4. /\ r \in Replies /\ b \in Nat /\ ReplyAt(stream, b, r) /\ m_parse \in Parse
      /\ Held(m_bufferRecv, stream, w, arrived)
      /\ Parsed(r, m_parse, stream, b, w + m_parse.readPos)
  BY <1>3 DEF InReply
<1>5. m_parse.readPos = 0 BY <1>1 DEF RedisInv, SizeInv
<1>6. w + m_parse.readPos = w BY <1>4, <1>5 DEF Held
<1>7. m_parse.list = << >> BY <1>1, <1>2 DEF RedisInv, ParseInv, Shape
<1>8. InString(r, m_parse, stream, b, w) BY <1>1, <1>2, <1>4, <1>6, TypeTells
<1>9. \E v \in Nat :
        /\ Held(e.buf, stream, v, arrived) /\ e.buf.maxLen = m_bufferRecv.maxLen
        /\ Parsed(r, e.p, stream, b, v)
        /\ ~e.p.done => v = arrived
  <2>1. /\ r \in Replies /\ b \in Nat /\ ReplyAt(stream, b, r) /\ Held(m_bufferRecv, stream, w, arrived)
        /\ m_parse \in Parse /\ m_parse.list = << >> /\ InString(r, m_parse, stream, b, w)
    BY <1>4, <1>7, <1>8
  <2> QED BY <2>1, RecvBulkSeen
<1> HIDE DEF e
<1>10. PICK v \in Nat :
        /\ Held(e.buf, stream, v, arrived) /\ e.buf.maxLen = m_bufferRecv.maxLen
        /\ Parsed(r, e.p, stream, b, v)
        /\ ~e.p.done => v = arrived
  BY <1>9
<1>11. Held(m_bufferRecv', stream, v, arrived) /\ m_bufferRecv'.maxLen = m_bufferRecv.maxLen
  BY <1>1, <1>10
<1>12. /\ Parsed(r, m_parse', stream, b, v) /\ pc' \in {"body", "end"}
       /\ (pc' = "end" /\ ~m_parse'.done => v = arrived)
  BY <1>1, <1>10
<1>13. UNCHANGED <<replies, stream, arrived, delivered, block>> BY <1>1
<1> QED BY <1>1, <1>2, <1>3, <1>11, <1>12, <1>13, RecvReply

(* RedisBlock: a string of a list. *)
LEMMA RecvElementReply ==
  ASSUME RedisInv, ReplyInv, RecvElement, RedisInv'
  PROVE  ReplyInv'
<1> DEFINE e == recvElement(m_parse, m_bufferRecv, m_recvSize)
<1>1. /\ block = "RedisBlock" /\ (pc = "body" \/ (pc = "recv" /\ hasWrite(m_bufferRecv)))
      /\ m_parse.type = "multi_bulk_reply"
      /\ UNCHANGED <<replies, stream, arrived, delivered, block>>
      /\ m_bufferRecv' = e.buf /\ m_parse' = e.p /\ pc' = AfterElement(e)
  BY DEF RecvElement, InBody, serverVars
<1>2. /\ SentInv /\ DeliveredAre /\ ~m_parse.done /\ ~m_parse.threw
      /\ \E K, r, b, w : InReply(K, r, b, w)
  BY <1>1, Parsing
<1>3. PICK K, r, b, w : InReply(K, r, b, w) BY <1>2
<1>4. /\ r \in Replies /\ b \in Nat /\ ReplyAt(stream, b, r) /\ m_parse \in Parse
      /\ Held(m_bufferRecv, stream, w, arrived)
      /\ Parsed(r, m_parse, stream, b, w + m_parse.readPos)
  BY <1>3 DEF InReply
<1>5. m_parse.readPos = 0 BY <1>1 DEF RedisInv, SizeInv
<1>6. w + m_parse.readPos = w BY <1>4, <1>5 DEF Held
<1>7. arrived > 0 => ~stream[arrived].in BY <1>2 DEF SentInv
<1>8. InLength(r, m_parse, stream, b, w) BY <1>1, <1>2, <1>4, <1>6, TypeTells
<1>9. \E v \in Nat :
        /\ Held(e.buf, stream, v, arrived) /\ e.buf.maxLen = m_bufferRecv.maxLen
        /\ ~e.p.threw /\ Parsed(r, e.p, stream, b, v)
        /\ ~e.again /\ ~e.p.done => v = arrived
  <2>1. /\ r \in Replies /\ b \in Nat /\ ReplyAt(stream, b, r) /\ Held(m_bufferRecv, stream, w, arrived)
        /\ m_parse \in Parse /\ m_parse.readPos = 0 /\ ~m_parse.threw /\ InLength(r, m_parse, stream, b, w)
        /\ (arrived > 0 => ~stream[arrived].in)
    BY <1>2, <1>4, <1>5, <1>7, <1>8
  <2> QED BY <2>1, RecvElementSeen
<1> HIDE DEF e
<1>10. PICK v \in Nat :
        /\ Held(e.buf, stream, v, arrived) /\ e.buf.maxLen = m_bufferRecv.maxLen
        /\ ~e.p.threw /\ Parsed(r, e.p, stream, b, v)
        /\ ~e.again /\ ~e.p.done => v = arrived
  BY <1>9
<1>11. Held(m_bufferRecv', stream, v, arrived) /\ m_bufferRecv'.maxLen = m_bufferRecv.maxLen
  BY <1>1, <1>10
<1>12. /\ Parsed(r, m_parse', stream, b, v) /\ pc' \in {"body", "end"}
       /\ (pc' = "end" /\ ~m_parse'.done => v = arrived)
  BY <1>1, <1>10 DEF AfterElement
<1>13. UNCHANGED <<replies, stream, arrived, delivered, block>> BY <1>1
<1> QED BY <1>1, <1>2, <1>3, <1>11, <1>12, <1>13, RecvReply

(* At the end of recv a reply is being parsed, and complete if the parser is done. *)
LEMMA Ending ==
  ASSUME RedisInv, ReplyInv, pc = "end"
  PROVE  /\ SentInv /\ DeliveredAre
         /\ \E K, r, b, w : InReply(K, r, b, w) /\ ParserAt(w + m_parse.readPos)
<1>1. PICK w : Held(m_bufferRecv, stream, w, arrived) /\ ParserAt(w + m_parse.readPos)
  BY DEF ReplyInv, PlaceInv
<1>2. SentInv /\ DeliveredAre BY DEF ReplyInv
<1>3. Len(delivered) # MaxReplies
  <2> SUFFICES ASSUME Len(delivered) = MaxReplies PROVE FALSE OBVIOUS
  <2>1. pc \in {"read", "recv"} BY <1>1 DEF ParserAt
  <2> QED BY <2>1
<1>4. InReply(Len(delivered), replies[Len(delivered) + 1], Start(replies, Len(delivered)), w)
  BY <1>1, <1>2, <1>3, ReplyIs
<1> QED BY <1>1, <1>2, <1>4

(* The reply that is complete is the next to deliver. *)
LEMMA DeliverStep ==
  ASSUME RedisInv, SentInv, DeliveredAre, NEW K, NEW r, NEW b, NEW w, InReply(K, r, b, w),
         m_parse.done, UNCHANGED <<replies, stream, arrived>>,
         m_bufferRecv'.maxLen = m_bufferRecv.maxLen,
         NEW v, v = w + m_parse.readPos, Held(m_bufferRecv', stream, v, arrived),
         NEW d, d.type = m_parse.type, d.list = m_parse.list,
         delivered' = Append(delivered, d), m_parse' = NewParse, pc' = "recv"
  PROVE  ReplyInv'
<1>1. /\ K = Len(delivered) /\ K \in Nat /\ K < MaxReplies /\ r = replies[K + 1] /\ r \in Replies
      /\ b \in Nat /\ ReplyLen(r) \in Nat /\ Start(replies, K + 1) = b + ReplyLen(r)
      /\ Parsed(r, m_parse, stream, b, v)
  BY DEF InReply
<1>2. MaxReplies \in Nat BY RedisAssumption
<1>3. Complete(r, m_parse, b, v)
  BY <1>1 DEF Parsed, InFirstLine, InString, InLength
<1>4. m_parse.type = r.type /\ m_parse.list = Result(r) /\ v = Start(replies, K + 1)
  BY <1>1, <1>3 DEF Complete
<1>5. /\ Len(delivered') = K + 1 /\ delivered'[K + 1] = d
      /\ \A k \in 1..K : delivered'[k] = delivered[k]
  <2>1. PICK S : delivered \in Seq(S) BY DEF RedisInv, DeliveredInv
  <2> DEFINE T == S \cup {d}
  <2>2. delivered \in Seq(T) /\ d \in T BY <2>1, SeqMonotonic
  <2> QED BY <1>1, <2>2, AppendProperties
<1>6. SentInv' BY DEF SentInv
<1>7. DeliveredAre'
  <2>1. ASSUME NEW k \in 1..(K + 1)
        PROVE  delivered'[k].type = replies[k].type /\ delivered'[k].list = Result(replies[k])
    <3>1. CASE k = K + 1 BY <1>1, <1>4, <1>5, <3>1
    <3>2. CASE k # K + 1
      <4>1. k \in 1..K BY <1>1, <3>2
      <4> QED BY <1>1, <1>5, <4>1 DEF DeliveredAre
    <3> QED BY <3>1, <3>2
  <2> QED BY <1>5, <2>1 DEF DeliveredAre
<1> DEFINE c == v + m_parse'.readPos
<1>8. v \in Nat BY <1>1, <1>4
<1>9. c = v
  <2>1. m_parse'.readPos = 0 BY DEF NewParse
  <2> QED BY <1>8, <2>1
<1> HIDE DEF c
<1>10. K + 1 \in 0..MaxReplies BY <1>1, <1>2
<1>11. ASSUME K + 1 < MaxReplies
       PROVE  Parsed(replies[(K + 1) + 1], m_parse', stream, Start(replies, K + 1), c)
  <2>1. (K + 1) + 1 \in 1..MaxReplies BY <1>1, <1>2, <1>11
  <2>2. replies[(K + 1) + 1] \in Replies BY <2>1 DEF SentInv
  <2>3. Parsed(replies[(K + 1) + 1], NewParse, stream, v, v) BY <1>8, <2>2, NewParsed
  <2> QED BY <1>4, <1>9, <2>3
<1>12. ~Waiting' BY DEF Waiting
<1> DEFINE L == Len(delivered')
<1>13. L = K + 1 BY <1>5
<1> HIDE DEF L
<1>14. /\ L \in 0..MaxReplies
       /\ L < MaxReplies => Parsed(replies'[L + 1], m_parse', stream', Start(replies', L), c)
       /\ L = MaxReplies => m_parse' = NewParse /\ c = Start(replies', L) /\ pc' \in {"read", "recv"}
  BY <1>4, <1>9, <1>10, <1>11, <1>13
<1>15. ParserAt(v + m_parse.readPos)' BY <1>12, <1>14 DEF ParserAt, L, c, Waiting
<1>16. Held(m_bufferRecv', stream', v, arrived') OBVIOUS
<1>17. PlaceInv' BY <1>15, <1>16 DEF PlaceInv
<1>18. ThrowsOnlyOnUnfit' BY DEF ThrowsOnlyOnUnfit
<1> QED BY <1>6, <1>7, <1>17, <1>18 DEF ReplyInv

(* There is no reply yet, and recv returns. *)
LEMMA WaitStep ==
  ASSUME RedisInv, SentInv, DeliveredAre, NEW K, NEW r, NEW b, NEW w, InReply(K, r, b, w),
         ParserAt(w + m_parse.readPos), pc = "end", ~m_parse.done,
         UNCHANGED <<replies, stream, arrived, delivered, block>>,
         m_bufferRecv'.maxLen = m_bufferRecv.maxLen,
         NEW v, v = w + m_parse.readPos, Held(m_bufferRecv', stream, v, arrived),
         m_parse' = [m_parse EXCEPT !.readPos = 0], pc' = "read"
  PROVE  ReplyInv'
<1>1. /\ K = Len(delivered) /\ K \in Nat /\ K < MaxReplies /\ r = replies[K + 1] /\ r \in Replies
      /\ b = Start(replies, K) /\ m_parse \in Parse
      /\ Parsed(r, m_parse, stream, b, v)
  BY DEF InReply
<1>2. Waiting BY DEF Waiting
<1>3. StopsAt(v) /\ arrived < Start(replies, K + 1) BY <1>1, <1>2 DEF ParserAt
<1>4. /\ m_parse'.readPos = 0 /\ m_parse'.type = m_parse.type /\ m_parse'.done = m_parse.done
      /\ m_parse'.temp = m_parse.temp /\ m_parse'.list = m_parse.list
      /\ m_parse'.tempMaxLen = m_parse.tempMaxLen /\ m_parse'.multiCount = m_parse.multiCount
  BY <1>1 DEF Parse
<1> DEFINE q == m_parse'
<1> HIDE DEF q
<1>5. Parsed(r, q, stream, b, v)
  BY <1>1, <1>4 DEF Parsed, Complete, InFirstLine, InString, InLength, Elements, Took, q
<1>6. v + m_parse'.readPos = v
  <2>1. v \in Nat BY DEF Held
  <2> QED BY <1>4, <2>1
<1>7. Parsed(r, m_parse', stream, b, v + m_parse'.readPos) BY <1>5, <1>6 DEF q
<1>8. MaxReplies \in Nat BY RedisAssumption
<1>9. K \in 0..MaxReplies /\ K # MaxReplies BY <1>1, <1>8
<1> DEFINE c == v + m_parse'.readPos
<1>10. StopsAt(c) BY <1>3, <1>6
<1> HIDE DEF c
<1>11. /\ Len(delivered') \in 0..MaxReplies
       /\ Len(delivered') < MaxReplies =>
            /\ Parsed(replies'[Len(delivered') + 1], m_parse', stream',
                      Start(replies', Len(delivered')), c)
            /\ arrived' < Start(replies', Len(delivered') + 1)
       /\ Len(delivered') # MaxReplies
       /\ NoEnd(stream', c, arrived') /\ (block' = "RedisBlock" => c = arrived')
  BY <1>1, <1>3, <1>7, <1>9, <1>10 DEF StopsAt, c
<1>12. ParserAt(v + m_parse.readPos)' BY <1>11 DEF ParserAt, StopsAt, c
<1>13. Held(m_bufferRecv', stream', v, arrived') OBVIOUS
<1>14. PlaceInv' BY <1>12, <1>13 DEF PlaceInv
<1>15. SentInv' /\ DeliveredAre' BY DEF SentInv, DeliveredAre
<1>16. ThrowsOnlyOnUnfit' BY DEF ThrowsOnlyOnUnfit
<1> QED BY <1>14, <1>15, <1>16 DEF ReplyInv

(* RedisBlock2: what was parsed leaves the buffer. *)
LEMMA RecvDoneReply ==
  ASSUME RedisInv, ReplyInv, RecvDone
  PROVE  ReplyInv'
<1> DEFINE n == m_parse.readPos
           c == clearReadBuffer(readData(m_bufferRecv, n))
           y == length(m_bufferRecv)
<1>1. /\ pc = "end" /\ m_bufferRecv' = c
      /\ UNCHANGED <<replies, stream, arrived, block>>
      /\ \/ /\ m_parse.done
            /\ delivered' = Append(delivered, Delivery(NewBuffer(0)))
            /\ m_parse' = NewParse /\ pc' = "recv"
         \/ /\ ~m_parse.done /\ m_parse' = [m_parse EXCEPT !.readPos = 0]
            /\ pc' = "read" /\ delivered' = delivered
  BY DEF RecvDone, serverVars
<1>2. /\ SentInv /\ DeliveredAre
      /\ \E K, r, b, w : InReply(K, r, b, w) /\ ParserAt(w + m_parse.readPos)
  BY <1>1, Ending
<1>3. PICK K, r, b, w : InReply(K, r, b, w) /\ ParserAt(w + m_parse.readPos) BY <1>2
<1>4. /\ w \in Nat /\ arrived = w + y /\ Copies(m_bufferRecv.buf, stream, w)
      /\ m_bufferRecv \in Buffer(ReplyChars) /\ InBounds(m_bufferRecv) /\ m_bufferRecv.readPos = 0
  BY <1>3 DEF InReply, Held, Fresh
<1>5. /\ n \in Nat /\ y \in Nat /\ n <= y /\ needReadLength(m_bufferRecv) = y
  BY FreshUnread DEF RedisInv, ReadInv, ParseInv, Shape, Parse
<1>6. canRead(m_bufferRecv, n) BY <1>5 DEF canRead
<1> HIDE DEF n
<1>7. /\ c \in Buffer(ReplyChars) /\ InBounds(c) /\ c.readPos = 0
      /\ c.maxLen = m_bufferRecv.maxLen
      /\ length(c) = y - n
      /\ \A i \in 1..length(c) : c.buf[i] = m_bufferRecv.buf[m_bufferRecv.readPos + n + i]
  BY <1>4, <1>5, <1>6, ConsumeLemma
<1> HIDE DEF c
<1> DEFINE v == w + n
<1>8. Held(c, stream, v, arrived)
  <2>1. \A i \in 1..y : stream[w + i] = m_bufferRecv.buf[i] BY <1>4 DEF Copies, length
  <2> HIDE DEF y
  <2>2. ASSUME NEW i \in 1..(y - n)
        PROVE  stream[(w + n) + i] = c.buf[i]
    <3>1. n + i \in 1..y /\ (w + n) + i = w + (n + i) /\ 0 + n + i = n + i BY <1>4, <1>5
    <3>2. c.buf[i] = m_bufferRecv.buf[0 + n + i] BY <1>4, <1>7
    <3> QED BY <2>1, <3>1, <3>2
  <2>3. Copies(c.buf, stream, w + n) BY <1>7, <2>2 DEF Copies, length
  <2>4. w + n \in Nat /\ arrived = (w + n) + length(c) BY <1>4, <1>5, <1>7
  <2>5. Fresh(c) BY <1>7 DEF Fresh
  <2> QED BY <2>3, <2>4, <2>5 DEF Held
<1>9. \E u : u = w + m_parse.readPos /\ Held(m_bufferRecv', stream, u, arrived)
  BY <1>1, <1>8 DEF n
<1>10. PICK u : u = w + m_parse.readPos /\ Held(m_bufferRecv', stream, u, arrived) BY <1>9
<1>11. m_bufferRecv'.maxLen = m_bufferRecv.maxLen BY <1>1, <1>7
<1>12. CASE m_parse.done
  <2> DEFINE d == Delivery(NewBuffer(0))
  <2>1. d.type = m_parse.type /\ d.list = m_parse.list BY DEF Delivery
  <2>2. delivered' = Append(delivered, d) /\ m_parse' = NewParse /\ pc' = "recv"
    BY <1>1, <1>12
  <2> HIDE DEF d
  <2> QED BY <1>1, <1>2, <1>3, <1>10, <1>11, <1>12, <2>1, <2>2, DeliverStep
<1>13. CASE ~m_parse.done
  <2>1. m_parse' = [m_parse EXCEPT !.readPos = 0] /\ pc' = "read" /\ delivered' = delivered
    BY <1>1, <1>13
  <2>2. UNCHANGED <<replies, stream, arrived, delivered, block>> BY <1>1, <2>1
  <2> QED BY <1>1, <1>2, <1>3, <1>10, <1>11, <1>13, <2>1, <2>2, WaitStep
<1> QED BY <1>12, <1>13

(* RedisBlock: it has left the buffer before. *)
LEMMA RecvEndReply ==
  ASSUME RedisInv, ReplyInv, RecvEnd
  PROVE  ReplyInv'
<1> DEFINE d == Delivery(makeRedisBuffer(m_parse, m_recvSize))
<1>1. /\ pc = "end" /\ block = "RedisBlock" /\ m_bufferRecv' = m_bufferRecv
      /\ UNCHANGED <<replies, stream, arrived, block>>
      /\ \/ /\ m_parse.done /\ makeRedisBufferThrows(m_parse)
            /\ pc' = "terminate" /\ delivered' = delivered
         \/ /\ m_parse.done /\ ~makeRedisBufferThrows(m_parse)
            /\ delivered' = Append(delivered, d)
            /\ m_parse' = NewParse /\ pc' = "recv"
         \/ ~m_parse.done /\ m_parse' = m_parse /\ pc' = "read" /\ delivered' = delivered
  BY DEF RecvEnd, serverVars
<1>2. /\ SentInv /\ DeliveredAre
      /\ \E K, r, b, w : InReply(K, r, b, w) /\ ParserAt(w + m_parse.readPos)
  BY <1>1, Ending
<1>3. PICK K, r, b, w : InReply(K, r, b, w) /\ ParserAt(w + m_parse.readPos) BY <1>2
<1>4. m_parse.readPos = 0 /\ m_parse \in Parse
  BY <1>1 DEF RedisInv, SizeInv, ParseInv, Shape
<1>5. Held(m_bufferRecv', stream, w, arrived) /\ w = w + m_parse.readPos
  <2>1. Held(m_bufferRecv, stream, w, arrived) BY <1>3 DEF InReply
  <2>2. w \in Nat BY <2>1 DEF Held
  <2> QED BY <1>1, <1>4, <2>1, <2>2
<1>6. m_bufferRecv'.maxLen = m_bufferRecv.maxLen BY <1>1
<1>7. CASE m_parse.done /\ ~makeRedisBufferThrows(m_parse)
  <2>1. d.type = m_parse.type /\ d.list = m_parse.list BY DEF Delivery
  <2>2. delivered' = Append(delivered, d) /\ m_parse' = NewParse /\ pc' = "recv"
    BY <1>1, <1>7
  <2> HIDE DEF d
  <2> QED BY <1>1, <1>2, <1>3, <1>5, <1>6, <1>7, <2>1, <2>2, DeliverStep
<1>8. CASE ~m_parse.done
  <2>1. m_parse' = m_parse /\ pc' = "read" /\ delivered' = delivered BY <1>1, <1>8
  <2>2. m_parse = [m_parse EXCEPT !.readPos = 0] BY <1>4 DEF Parse
  <2>3. m_parse' = [m_parse EXCEPT !.readPos = 0] BY <2>1, <2>2
  <2>4. UNCHANGED <<replies, stream, arrived, delivered, block>> BY <1>1, <2>1
  <2> QED BY <1>1, <1>2, <1>3, <1>5, <1>6, <1>8, <2>1, <2>3, <2>4, WaitStep
<1>9. CASE m_parse.done /\ makeRedisBufferThrows(m_parse)
  <2>1. /\ r \in Replies /\ Parsed(r, m_parse, stream, b, w + m_parse.readPos)
        /\ Start(replies, K + 1) = b + ReplyLen(r)
        /\ w \in Nat /\ arrived = w + length(m_bufferRecv)
    BY <1>3 DEF InReply, Held
  <2>2. Complete(r, m_parse, b, w + m_parse.readPos)
    BY <1>9, <2>1 DEF Parsed, InFirstLine, InString, InLength
  <2>3. /\ r.type = "int_reply" /\ ~isInt(r.list[1])
    BY <1>9, <2>2 DEF Complete, Result, makeRedisBufferThrows
  <2>4. toInt(r.list[1]) > INT_MAX
    <3> DEFINE text == r.list[1]
               n == text[1][2]
    <3>1. Len(text) = 1 /\ text[1][1] = "d" /\ n \in {-1, INT_MAX, INT_MAX + 1}
      BY <2>1, <2>3, OneLineType DEF InOneLine
    <3>2. n \notin (-INT_MAX - 1)..INT_MAX BY <2>3, <3>1 DEF isInt
    <3> HIDE DEF n
    <3>3. n > INT_MAX BY <3>1, <3>2, RedisAssumption
    <3> QED BY <3>3 DEF toInt, n
  <2>5. Unfit(r) BY <1>1, <2>3, <2>4 DEF Unfit
  <2>6. Start(replies, K + 1) <= arrived
    <3>1. w = b + ReplyLen(r) BY <1>5, <2>2 DEF Complete
    <3>2. length(m_bufferRecv) \in Nat BY FreshUnread DEF RedisInv, ReadInv
    <3> QED BY <2>1, <3>1, <3>2
  <2>7. pc' = "terminate" /\ UNCHANGED <<replies, stream, arrived, delivered, block>>
    BY <1>1, <1>9
  <2> QED BY <1>2, <1>3, <1>6, <2>5, <2>6, <2>7, ThrowStep
<1> QED BY <1>7, <1>8, <1>9

(* The buffer is empty: everything that was read is parsed. *)
LEMMA ReadAgainReply ==
  ASSUME RedisInv, ReplyInv, ReadAgain
  PROVE  ReplyInv'
<1>1. /\ pc = "recv" /\ ~hasWrite(m_bufferRecv) /\ pc' = "read"
      /\ UNCHANGED <<replies, stream, arrived, m_bufferRecv, m_parse, delivered, block>>
  BY DEF ReadAgain, serverVars
<1>2. PICK w : Held(m_bufferRecv, stream, w, arrived) /\ ParserAt(w + m_parse.readPos)
  BY <1>1 DEF ReplyInv, PlaceInv
<1>3. SentInv /\ DeliveredAre BY DEF ReplyInv
<1>4. SentInv' /\ DeliveredAre' BY <1>1, <1>3 DEF SentInv, DeliveredAre
<1> DEFINE c == w + m_parse.readPos
<1>5. c = arrived /\ arrived \in Nat
  <2>1. /\ w \in Nat /\ arrived = w + length(m_bufferRecv) /\ m_parse.readPos = 0
        /\ length(m_bufferRecv) \in Nat
    BY <1>1, <1>2, FreshUnread DEF Held, RedisInv, ParseInv
  <2>2. length(m_bufferRecv) = 0 BY <1>1, <2>1 DEF hasWrite
  <2> QED BY <2>1, <2>2
<1>6. Len(delivered) < MaxReplies => arrived < Start(replies, Len(delivered) + 1)
  <2> SUFFICES ASSUME Len(delivered) < MaxReplies
               PROVE  arrived < Start(replies, Len(delivered) + 1)
    OBVIOUS
  <2>1. Len(delivered) # MaxReplies BY RedisAssumption DEF ParserAt
  <2>2. InReply(Len(delivered), replies[Len(delivered) + 1], Start(replies, Len(delivered)), w)
    BY <1>2, <1>3, <2>1, ReplyIs
  <2>3. ~m_parse.done BY <1>1 DEF RedisInv, ParseInv
  <2>4. c < Start(replies, Len(delivered) + 1) BY <2>2, <2>3, NotAtEnd
  <2> QED BY <1>5, <2>4
<1>7. ParserAt(c)
  BY <1>2
<1> HIDE DEF c
<1>8. StopsAt(c) BY <1>5, StopsAtEnd
<1>9. NoEnd(stream', c, arrived') /\ (block' = "RedisBlock" => c = arrived')
  BY <1>1, <1>8 DEF StopsAt
<1>10. ParserAt(w + m_parse.readPos)'
  BY <1>1, <1>6, <1>7, <1>9 DEF ParserAt, StopsAt, c
<1>11. Held(m_bufferRecv, stream, w, arrived)' BY <1>1, <1>2
<1>12. PlaceInv' BY <1>10, <1>11 DEF PlaceInv
<1>13. ThrowsOnlyOnUnfit' BY <1>1 DEF ThrowsOnlyOnUnfit
<1> QED BY <1>1, <1>4, <1>12, <1>13 DEF ReplyInv

(* A read that ends between elements appends what comes next in the stream. *)
LEMMA ReadSomeReply ==
  ASSUME RedisInv, ReplyInv, ReadSome, ~CutElements
  PROVE  ReplyInv'
<1>1. PICK n \in 1..(m_bufferRecv.maxLen - length(m_bufferRecv)) :
        /\ arrived + n <= Len(stream)
        /\ ~stream[arrived + n].in
        /\ m_bufferRecv' = writeData(m_bufferRecv, SubSeq(stream, arrived + 1, arrived + n))
        /\ arrived' = arrived + n
  BY DEF ReadSome
<1>2. /\ pc = "read" /\ pc' = "recv"
      /\ UNCHANGED <<replies, stream, m_parse, delivered>>
  BY DEF ReadSome
<1>3. PICK w : Held(m_bufferRecv, stream, w, arrived) /\ ParserAt(w + m_parse.readPos)
  BY <1>2 DEF ReplyInv, PlaceInv
<1>4. SentInv /\ DeliveredAre BY DEF ReplyInv
<1> DEFINE B == m_bufferRecv
           y == length(B)
           s == SubSeq(stream, arrived + 1, arrived + n)
           B1 == writeData(B, s)
<1>5. /\ arrived \in Nat /\ Len(stream) \in Nat /\ y \in Nat /\ B.maxLen \in Nat
      /\ stream \in Seq(ReplyChars) /\ B \in Buffer(ReplyChars) /\ InBounds(B) /\ B.readPos = 0
  BY LenProperties DEF RedisInv, ReadInv, Fresh, Buffer, length
<1>6. n \in Nat /\ n >= 1 /\ y + n <= B.maxLen
  <2> HIDE DEF y
  <2> QED BY <1>1, <1>5 DEF y
<1>7. /\ s \in Seq(ReplyChars) /\ Len(s) = n /\ \A i \in 1..n : s[i] = stream[arrived + i]
  BY <1>1, <1>5, <1>6, WindowLemma
<1> HIDE DEF s
<1>8. m_bufferRecv' = B1 BY <1>1 DEF s
<1>9. /\ B1 \in Buffer(ReplyChars) /\ InBounds(B1)
      /\ B1.readPos = B.readPos /\ B1.maxLen = B.maxLen
      /\ length(B1) = y + n
      /\ \A i \in 1..y : B1.buf[i] = B.buf[i]
      /\ \A i \in 1..n : B1.buf[y + i] = s[i]
  <2>1. length(B) + Len(s) <= B.maxLen BY <1>6, <1>7
  <2>2. B \in Buffer(ReplyChars) /\ s \in Seq(ReplyChars) /\ InBounds(B) BY <1>5, <1>7
  <2> HIDE DEF B
  <2>3. /\ B1 \in Buffer(ReplyChars) /\ InBounds(B1)
        /\ B1.readPos = B.readPos /\ B1.maxLen = B.maxLen
        /\ length(B) + Len(s) <= B.maxLen =>
             /\ length(B1) = length(B) + Len(s)
             /\ \A i \in 1..length(B) : B1.buf[i] = B.buf[i]
             /\ \A i \in 1..Len(s) : B1.buf[length(B) + i] = s[i]
    BY <2>2, WriteDataLemma
  <2> HIDE DEF B1
  <2> QED BY <1>7, <2>1, <2>3
<1> HIDE DEF B1
<1>10. w \in Nat /\ arrived = w + y /\ \A i \in 1..y : stream[w + i] = B.buf[i]
  BY <1>3 DEF Held, Copies, length
<1>11. Held(m_bufferRecv', stream, w, arrived')
  <2> HIDE DEF y
  <2>1. ASSUME NEW i \in 1..(y + n) PROVE stream[w + i] = B1.buf[i]
    <3>1. CASE i \in 1..y BY <1>9, <1>10, <3>1
    <3>2. CASE i \notin 1..y
      <4> DEFINE j == i - y
      <4>1. j \in 1..n /\ y + j = i /\ w + i = arrived + j BY <1>5, <1>6, <1>10, <3>2
      <4> HIDE DEF j
      <4>2. B1.buf[y + j] = stream[arrived + j] BY <1>7, <1>9, <4>1
      <4> QED BY <4>1, <4>2
    <3> QED BY <3>1, <3>2
  <2>2. Copies(B1.buf, stream, w) BY <1>9, <2>1 DEF Copies, length
  <2>3. arrived + n = w + length(B1) BY <1>5, <1>6, <1>9, <1>10
  <2>4. Fresh(B1) BY <1>5, <1>9 DEF Fresh
  <2> QED BY <1>1, <1>8, <1>10, <2>2, <2>3, <2>4 DEF Held
<1>12. SentInv' BY <1>1, <1>2, <1>4, <1>8, <1>9 DEF SentInv
<1>13. DeliveredAre' BY <1>2, <1>4 DEF DeliveredAre
<1>14. ~Waiting' BY <1>2 DEF Waiting
<1>15. ParserAt(w + m_parse.readPos)' BY <1>2, <1>3, <1>14 DEF ParserAt, Waiting
<1>16. Held(m_bufferRecv, stream, w, arrived)' BY <1>2, <1>11
<1>17. PlaceInv' BY <1>15, <1>16 DEF PlaceInv
<1>18. ThrowsOnlyOnUnfit' BY <1>2 DEF ThrowsOnlyOnUnfit
<1> QED BY <1>12, <1>13, <1>17, <1>18 DEF ReplyInv

(* At the start nothing has arrived of the first reply. *)
LEMMA InitReply == Init => ReplyInv
<1> SUFFICES ASSUME Init PROVE ReplyInv OBVIOUS
<1>1. RedisInv BY InitRedis
<1>2. SentInv BY NewBufferLemma, RedisAssumption DEF Init, SentInv
<1>3. Len(delivered) = 0 BY DEF Init
<1>4. DeliveredAre BY <1>3 DEF DeliveredAre
<1>5. /\ m_parse = NewParse /\ m_parse.readPos = 0 /\ arrived = 0 /\ pc = "read"
  BY DEF Init, NewParse
<1>6. Held(m_bufferRecv, stream, 0, arrived)
  <2>1. Fresh(m_bufferRecv) /\ length(m_bufferRecv) = 0
    BY NewBufferLemma, RedisAssumption DEF Init, Fresh
  <2>2. \A i \in 1..Len(m_bufferRecv.buf) : FALSE BY <2>1 DEF length
  <2>3. arrived = 0 + length(m_bufferRecv) BY <1>5, <2>1
  <2> QED BY <2>1, <2>2, <2>3 DEF Held, Copies
<1>7. MaxReplies \in Nat BY RedisAssumption
<1>8. /\ Start(replies, 0) = 0
      /\ MaxReplies # 0 =>
           /\ Parsed(replies[0 + 1], m_parse, stream, Start(replies, 0), 0)
           /\ 0 < Start(replies, 0 + 1)
  <2>1. Start(replies, 0) = 0 BY <1>2, StreamAt DEF SentInv
  <2>2. ASSUME MaxReplies # 0
        PROVE  Parsed(replies[0 + 1], m_parse, stream, Start(replies, 0), 0)
    <3> DEFINE k == 0 + 1
    <3>1. k \in 1..MaxReplies BY <1>7, <2>2
    <3> HIDE DEF k
    <3>2. replies[k] \in Replies BY <1>2, <3>1 DEF SentInv
    <3> QED BY <1>5, <2>1, <3>2, NewParsed DEF k
  <2>3. ASSUME MaxReplies # 0 PROVE 0 < Start(replies, 0 + 1)
    <3> DEFINE k == 1
    <3>1. k \in 1..MaxReplies /\ k - 1 = 0 /\ 0 + 1 = k BY <1>7, <2>3
    <3> HIDE DEF k
    <3>2. /\ Start(replies, k) = Start(replies, k - 1) + ReplyLen(replies[k])
          /\ ReplyLen(replies[k]) \in Nat /\ FirstLen(replies[k]) <= ReplyLen(replies[k])
      BY <1>2, <3>1, StreamAt DEF SentInv
    <3>3. replies[k] \in Replies BY <1>2, <3>1 DEF SentInv
    <3>4. FirstLen(replies[k]) >= 3 /\ FirstLen(replies[k]) \in Nat BY <3>3, FirstLenLemma
    <3>5. 0 < Start(replies, k) BY <2>1, <3>1, <3>2, <3>4
    <3> QED BY <3>1, <3>5
  <2> QED BY <2>1, <2>2, <2>3
<1> DEFINE c == 0
<1>9. 0 + m_parse.readPos = c BY <1>5
<1>10. ParserAt(c)
  <2>1. 0 \in 0..MaxReplies /\ (0 < MaxReplies => MaxReplies # 0) BY <1>7
  <2>2. StopsAt(c) BY <1>5, StopsAtEnd
  <2> QED BY <1>3, <1>5, <1>8, <2>1, <2>2 DEF ParserAt
<1> HIDE DEF c
<1>11. PlaceInv BY <1>6, <1>9, <1>10 DEF PlaceInv
<1>12. ThrowsOnlyOnUnfit BY <1>5 DEF ThrowsOnlyOnUnfit
<1> QED BY <1>2, <1>4, <1>11, <1>12 DEF ReplyInv

(* The invariant holds in every state if no read ends inside a string of a list. *)
LEMMA ReplyInvariant ==
  ASSUME ~CutElements
  PROVE  Spec => [](RedisInv /\ ReplyInv)
<1>1. Init => RedisInv /\ ReplyInv BY InitRedis, InitReply
<1>2. RedisInv /\ ReplyInv /\ [Next]_vars => ReplyInv'
  <2> SUFFICES ASSUME RedisInv, ReplyInv, [Next]_vars PROVE ReplyInv' OBVIOUS
  <2>1. RedisInv' BY RedisStep
  <2>2. CASE UNCHANGED vars
    BY <2>2 DEF vars, serverVars, ReplyInv, SentInv, DeliveredAre, PlaceInv, ParserAt,
                Waiting, StopsAt, ThrowsOnlyOnUnfit, Unfit
  <2> QED BY <2>1, <2>2, ReadSomeReply, ParseTypeReply, ParseBulkReply, ParseElementReply,
             RecvDoneReply, RecvTypeReply, RecvBulkReply, RecvElementReply, RecvEndReply,
             ReadAgainReply
      DEF Next
<1>3. RedisInv /\ [Next]_vars => RedisInv' BY RedisStep
<1> QED BY <1>1, <1>2, <1>3, PTL DEF Spec

(***************************************************************************)
(* handleReadSome hands the application the server's replies, in order and *)
(* intact, and each as soon as its last character was read: for any number *)
(* of replies with lines, bulks and lists of any length, any size of the   *)
(* receive buffer and every place at which a read may end but inside an    *)
(* element of a multi-bulk reply.  There both block classes take text of   *)
(* the element for the line with the length of the next (the run           *)
(* redis_recv_cut).  Of an error the line comes without four characters    *)
(* at its head, whatever they are.                                         *)
(***************************************************************************)
THEOREM RedisRepliesIntact ==
  ASSUME ~CutElements
  PROVE  Spec => []RepliesIntact
<1>1. RedisInv /\ ReplyInv => RepliesIntact
  <2> SUFFICES ASSUME RedisInv, ReplyInv PROVE RepliesIntact OBVIOUS
  <2>1. DeliveredAre BY DEF ReplyInv
  <2>2. ASSUME pc = "read", NEW k \in 1..MaxReplies
        PROVE  k <= Len(delivered) <=> Start(replies, k) <= arrived
    <3>1. PICK w : Held(m_bufferRecv, stream, w, arrived) /\ ParserAt(w + m_parse.readPos)
      BY <2>2 DEF ReplyInv, PlaceInv
    <3> DEFINE K == Len(delivered)
               c == w + m_parse.readPos
               S(j) == Start(replies, j)
    <3>2. SentInv /\ MaxReplies \in Nat BY RedisAssumption DEF ReplyInv
    <3>3. K \in 0..MaxReplies BY <3>1 DEF ParserAt
    <3>4. /\ \A j \in 0..MaxReplies : S(j) \in Nat
          /\ \A m \in 0..MaxReplies : \A j \in 0..m : S(j) <= S(m)
      BY <3>2, StreamAt DEF SentInv
    <3>5. c <= arrived /\ c \in Nat /\ arrived \in Nat
      <4>1. w \in Nat /\ arrived = w + length(m_bufferRecv) BY <3>1 DEF Held
      <4>2. length(m_bufferRecv) \in Nat BY FreshUnread DEF RedisInv, ReadInv
      <4>3. m_parse.readPos = 0 BY <2>2 DEF RedisInv, ParseInv
      <4> QED BY <4>1, <4>2, <4>3
    <3>6. Waiting BY <2>2 DEF Waiting
    <3>7. S(K) <= c /\ (K # MaxReplies => arrived < S(K + 1))
      <4>1. CASE K = MaxReplies BY <3>1, <3>5, <4>1 DEF ParserAt
      <4>2. CASE K # MaxReplies
        <5>1. InReply(K, replies[K + 1], S(K), w) BY <3>1, <3>2, <4>2, ReplyIs
        <5>2. ~m_parse.done BY <2>2 DEF RedisInv, ParseInv
        <5>3. S(K) <= c BY <5>1, <5>2, NotAtEnd
        <5>4. K < MaxReplies BY <5>1 DEF InReply
        <5> QED BY <3>1, <3>6, <5>3, <5>4 DEF ParserAt
      <4> QED BY <4>1, <4>2
    <3> HIDE DEF K, c, S
    <3>8. ASSUME k <= K PROVE S(k) <= arrived
      <4>1. k \in 0..K /\ k \in 0..MaxReplies BY <3>2, <3>3, <3>8
      <4>2. S(k) <= S(K) /\ S(k) \in Nat /\ S(K) \in Nat BY <3>3, <3>4, <4>1
      <4> QED BY <3>5, <3>7, <4>2
    <3>9. ASSUME ~(k <= K) PROVE ~(S(k) <= arrived)
      <4>1. K # MaxReplies /\ K + 1 \in 0..k /\ k \in 0..MaxReplies /\ K + 1 \in 0..MaxReplies
        BY <3>2, <3>3, <3>9
      <4>2. S(K + 1) <= S(k) /\ S(k) \in Nat /\ S(K + 1) \in Nat BY <3>4, <4>1
      <4> QED BY <3>5, <3>7, <4>1, <4>2
    <3> QED BY <3>8, <3>9 DEF K, S
  <2>3. \A k \in 1..Len(delivered) :
          delivered[k].type = replies[k].type /\ Intact(delivered[k].list, replies[k])
    <3>1. 3 \in 0..4 /\ 3 + 1 = 4 OBVIOUS
    <3>2. \A r : Intact(Result(r), r) BY <3>1 DEF Result, Intact
    <3> QED BY <2>1, <3>2 DEF DeliveredAre
  <2>4. pc = "read" => \A k \in 1..MaxReplies :
                         k <= Len(delivered) <=> Len(sent(replies)[k]) <= arrived
    BY <2>2 DEF Start
  <2> QED BY <2>3, <2>4 DEF RepliesIntact
<1> QED BY <1>1, ReplyInvariant, PTL

(***************************************************************************)
(* Under the same condition no cut makes a lexical_cast or a substr of     *)
(* either block class throw.  What ends the io thread, and with it the     *)
(* program, is an error line with fewer than three characters after its    *)
(* "-" and, for RedisBlock, an integer that does not fit an int; and they  *)
(* end it only when all of them has arrived.                               *)
(***************************************************************************)
THEOREM RedisThrowsOnlyOnUnfit ==
  ASSUME ~CutElements
  PROVE  Spec => []ThrowsOnlyOnUnfit
<1>1. ReplyInv => ThrowsOnlyOnUnfit BY DEF ReplyInv
<1> QED BY <1>1, ReplyInvariant, PTL

(***************************************************************************)
(* Whatever the lengths of lines, bulks and lists and the size of the      *)
(* buffer, the buffer is full when the next read starts only if RedisParse *)
(* waits in it for the end of a line as long as the buffer or longer: the  *)
(* buffer holds nothing but that part of one line.  RedisBlock leaves the  *)
(* buffer empty.                                                           *)
(***************************************************************************)
THEOREM RedisRoomToRead ==
  ASSUME ~CutElements, RecvBufSize > 0
  PROVE  Spec => []RoomToRead
<1>1. RedisInv /\ ReplyInv => RoomToRead
  <2> DEFINE buf == unread(m_bufferRecv)
             y == length(m_bufferRecv)
  <2> SUFFICES ASSUME RedisInv, ReplyInv, pc = "read", isFull(m_bufferRecv)
               PROVE  /\ block = "RedisBlock2"
                      /\ \A i \in 1..Len(buf) : buf[i].t # "lf"
                      /\ Len(buf) = RecvBufSize
    BY DEF RoomToRead
  <2>1. PICK w : Held(m_bufferRecv, stream, w, arrived) /\ ParserAt(w + m_parse.readPos)
    BY DEF ReplyInv, PlaceInv
  <2>2. /\ w \in Nat /\ arrived = w + y /\ m_parse.readPos = 0 /\ Len(buf) = y /\ y \in Nat
    BY <2>1, UnreadRecv DEF Held, RedisInv, ParseInv
  <2>3. y = RecvBufSize
    <3>1. m_bufferRecv.maxLen = RecvBufSize BY DEF ReplyInv, SentInv
    <3>2. y <= m_bufferRecv.maxLen BY <2>1 DEF Held, Fresh, InBounds
    <3>3. y >= m_bufferRecv.maxLen BY DEF isFull
    <3> HIDE DEF y
    <3> QED BY <2>2, <3>1, <3>2, <3>3, RedisAssumption
  <2>4. w + m_parse.readPos = w BY <2>2
  <2>5. StopsAt(w) BY <2>1, <2>4 DEF ParserAt, Waiting
  <2>6. block = "RedisBlock2"
    <3>1. block # "RedisBlock"
      <4> HIDE DEF y
      <4> QED BY <2>2, <2>3, <2>5 DEF StopsAt
    <3> QED BY <3>1 DEF RedisInv, ReadInv
  <2>7. Len(delivered) # MaxReplies
    <3> SUFFICES ASSUME Len(delivered) = MaxReplies PROVE FALSE OBVIOUS
    <3>1. y = 0 BY <2>1, AllArrived DEF ReplyInv
    <3> QED BY <2>3, <3>1
  <2>8. View(m_parse, buf, stream, w, arrived)
    <3>1. SentInv BY DEF ReplyInv
    <3> QED BY <2>1, <2>7, <3>1, ReplyIs, ViewRecv
  <2>9. Copies(buf, stream, w) BY <2>8 DEF View
  <2>10. \A i \in 1..y : stream[w + i].t # "lf"
    <3> HIDE DEF y
    <3> SUFFICES ASSUME NEW i \in 1..y PROVE stream[w + i].t # "lf" OBVIOUS
    <3>1. w + i \in (w + 1)..arrived BY <2>2
    <3> QED BY <2>5, <3>1 DEF StopsAt, NoEnd
  <2> HIDE DEF buf, y
  <2> QED BY <2>2, <2>3, <2>6, <2>9, <2>10 DEF Copies
<1> QED BY <1>1, ReplyInvariant, PTL
=============================================================================
