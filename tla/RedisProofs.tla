---------------------------- MODULE RedisProofs -----------------------------
(***************************************************************************)
(* Proofs about RedisRecv, for any replies, receive buffer and way of      *)
(* cutting the stream, cuts inside elements included.                      *)
(***************************************************************************)
EXTENDS RedisRecv, CommonLemmas

(* The characters that a server sends: no number is less than -1. *)
ReplyChars == {c \in Chars : c.n >= -1}

(* A line end. *)
LEMMA LineEndType ==
  ASSUME NEW in \in BOOLEAN
  PROVE  REDIS_LBR(in) \in Seq(ReplyChars) /\ Len(REDIS_LBR(in)) = 2
<1> DEFINE a == Char("cr", 0, in)
           b == Char("lf", 0, FALSE)
<1>1. a \in ReplyChars /\ b \in ReplyChars BY DEF Char, ReplyChars, Chars
<1>2. REDIS_LBR(in) = <<a, b>> BY DEF REDIS_LBR
<1> HIDE DEF a, b
<1>3. <<a, b>> \in Seq(ReplyChars) /\ Len(<<a, b>>) = 2 BY <1>1
<1> QED BY <1>2, <1>3

(* What a text on the wire consists of. *)
Wire == {"x", "E", "R", "sp", "d", "lf"} \X {n \in Int : n >= -1}

(* A text as characters. *)
LEMMA WrittenType ==
  ASSUME NEW text \in Seq(Wire), NEW in \in BOOLEAN
  PROVE  /\ written(text, in) \in Seq(ReplyChars)
         /\ Len(written(text, in)) = Len(text)
<1> DEFINE l == Len(text)
           b == [i \in 1..l |-> Char(text[i][1], text[i][2], in)]
<1>1. l \in Nat BY LenProperties
<1>2. \A i \in 1..l : text[i] \in Wire BY ElementOfSeq
<1>3. \A w \in Wire : Char(w[1], w[2], in) \in ReplyChars
  BY DEF Char, ReplyChars, Chars, Wire
<1>4. \A i \in 1..l : Char(text[i][1], text[i][2], in) \in ReplyChars BY <1>2, <1>3
<1>5. written(text, in) = b BY DEF written
<1> HIDE DEF l
<1>6. b \in [1..l -> ReplyChars] BY <1>4
<1> HIDE DEF b
<1>7. b \in Seq(ReplyChars) /\ Len(b) = l BY <1>1, <1>6
<1> QED BY <1>5, <1>7 DEF l

(* A bulk that is not missing. *)
LEMMA StringsType ==
  ASSUME NEW str \in Strings
  PROVE  /\ str \in Seq(Wire)
         /\ Len(str) \in Nat /\ Len(str) <= MaxPayload
         /\ \A i \in 1..Len(str) : str[i] \in {<<"x", 0>>, <<"lf", 0>>}
<1> DEFINE T == {<<"x", 0>>, <<"lf", 0>>}
<1>1. PICK k \in 0..MaxPayload : str \in [1..k -> T] BY DEF Strings
<1>2. k \in Nat /\ k <= MaxPayload BY <1>1, RedisAssumption
<1>3. T \subseteq Wire BY DEF Wire
<1> HIDE DEF T
<1>4. str \in Seq(T) /\ Len(str) = k BY <1>1, <1>2
<1>5. str \in Seq(Wire) BY <1>3, <1>4, SeqMonotonic
<1>6. \A i \in 1..Len(str) : str[i] \in T BY <1>4, ElementOfSeq
<1> QED BY <1>2, <1>4, <1>5, <1>6 DEF T

(* The text of a status. *)
LEMMA LinesType ==
  ASSUME NEW text \in Lines
  PROVE  /\ text \in Seq(Wire)
         /\ \A i \in 1..Len(text) : text[i] = <<"x", 0>>
<1> DEFINE T == {<<"x", 0>>}
<1>1. PICK k \in 0..MaxLine : text \in [1..k -> T] BY DEF Lines
<1>2. k \in Nat BY <1>1, RedisAssumption
<1>3. T \subseteq Wire BY DEF Wire
<1> HIDE DEF T
<1>4. text \in Seq(T) /\ Len(text) = k BY <1>1, <1>2
<1>5. text \in Seq(Wire) BY <1>3, <1>4, SeqMonotonic
<1>6. \A i \in 1..Len(text) : text[i] \in T BY <1>4, ElementOfSeq
<1> QED BY <1>5, <1>6 DEF T

(* The text of an error: no line end in it, and its last character no number. *)
LEMMA ErrorsType ==
  ASSUME NEW text \in Errors
  PROVE  /\ text \in Seq(Wire)
         /\ \A i \in 1..Len(text) : text[i][1] \in {"x", "E", "R", "sp"} /\ text[i][2] = 0
<1> DEFINE T == {"x", "E", "R", "sp"} \X {0}
           a == <<"E", 0>>
           b == <<"R", 0>>
           c == <<"sp", 0>>
<1>1. T \subseteq Wire BY DEF Wire
<1>2. a \in T /\ b \in T /\ c \in T /\ <<"x", 0>> \in T OBVIOUS
<1>3. \A w \in T : w[1] \in {"x", "E", "R", "sp"} /\ w[2] = 0 OBVIOUS
<1>4. ERR = <<a, b, b, c>> BY DEF ERR
<1> HIDE DEF T, a, b, c
<1>5. ERR \in Seq(T) BY <1>2, <1>4
<1>6. \A t \in Lines : t \in Seq(T)
  <2> SUFFICES ASSUME NEW t \in Lines PROVE t \in Seq(T) OBVIOUS
  <2>1. t \in Seq(Wire) /\ \A i \in 1..Len(t) : t[i] \in T BY <1>2, LinesType
  <2>2. Len(t) \in Nat /\ t \in [1..Len(t) -> T] BY <2>1, LenProperties
  <2> QED BY <2>2, SeqDef
<1>7. text \in Seq(T)
  <2>1. CASE text \in Lines BY <1>6, <2>1
  <2>2. CASE text \notin Lines
    <3>1. PICK t \in Lines : text = ERR \o t BY <2>2 DEF Errors
    <3> QED BY <1>5, <1>6, <3>1, ConcatProperties
  <2> QED BY <2>1, <2>2
<1>8. \A i \in 1..Len(text) : text[i] \in T BY <1>7, ElementOfSeq
<1>9. text \in Seq(Wire) BY <1>1, <1>7, SeqMonotonic
<1> QED BY <1>3, <1>8, <1>9

(* The text of an integer is one number. *)
LEMMA NumbersType ==
  ASSUME NEW text \in Numbers
  PROVE  /\ text \in Seq(Wire) /\ Len(text) = 1
         /\ text[1][1] = "d" /\ text[1][2] \in {-1, INT_MAX, INT_MAX + 1}
<1>1. PICK n \in {-1, INT_MAX, INT_MAX + 1} : text = << <<"d", n>> >> BY DEF Numbers
<1> DEFINE w == <<"d", n>>
<1>2. n \in Int /\ n >= -1 BY <1>1, RedisAssumption
<1>3. w \in Wire /\ w[1] = "d" /\ w[2] = n BY <1>2 DEF Wire
<1> HIDE DEF w
<1>4. text = <<w>> BY <1>1 DEF w
<1>5. text \in Seq(Wire) /\ Len(text) = 1 /\ text[1] = w BY <1>3, <1>4
<1> QED BY <1>1, <1>3, <1>5

(* A line with a number. *)
LEMMA LengthLineType ==
  ASSUME NEW first \in {"$", "*"}, NEW n \in Int, n >= -1
  PROVE  /\ lengthLine(first, n) \in Seq(ReplyChars)
         /\ Len(lengthLine(first, n)) = 4
<1> DEFINE a == Char(first, 0, FALSE)
           b == Char("d", n, FALSE)
           c == Char("cr", 0, FALSE)
           d == Char("lf", 0, FALSE)
<1>1. a \in ReplyChars /\ b \in ReplyChars /\ c \in ReplyChars /\ d \in ReplyChars
  BY DEF Char, ReplyChars, Chars
<1>2. lengthLine(first, n) = <<a, b>> \o <<c, d>> BY DEF lengthLine, REDIS_LBR
<1> HIDE DEF a, b, c, d
<1>3. <<a, b>> \in Seq(ReplyChars) /\ <<c, d>> \in Seq(ReplyChars) BY <1>1
<1>4. /\ <<a, b>> \o <<c, d>> \in Seq(ReplyChars)
      /\ Len(<<a, b>> \o <<c, d>>) = Len(<<a, b>>) + Len(<<c, d>>)
  BY <1>3, ConcatProperties
<1>5. Len(<<a, b>>) = 2 /\ Len(<<c, d>>) = 2 OBVIOUS
<1> QED BY <1>2, <1>4, <1>5

(* A bulk with its length. *)
LEMMA BulkTextType ==
  ASSUME NEW str \in Strings
  PROVE  bulkText(str) \in Seq(ReplyChars)
<1> DEFINE l == lengthLine("$", Len(str))
           a == [l EXCEPT ![4].in = TRUE]
           b == written(str, TRUE)
           c == REDIS_LBR(TRUE)
<1>1. str \in Seq(Wire) /\ Len(str) \in Nat BY StringsType
<1>2. l \in Seq(ReplyChars) /\ Len(l) = 4 BY <1>1, LengthLineType
<1>3. a \in Seq(ReplyChars)
  <2> HIDE DEF l
  <2>1. l[4] \in ReplyChars
    <3>1. 4 \in 1..Len(l) BY <1>2
    <3> QED BY <1>2, <3>1, ElementOfSeq
  <2>2. [l[4] EXCEPT !.in = TRUE] \in ReplyChars BY <2>1 DEF ReplyChars, Chars
  <2>3. a = [l EXCEPT ![4] = [l[4] EXCEPT !.in = TRUE]] OBVIOUS
  <2> DEFINE e == [l[4] EXCEPT !.in = TRUE]
  <2> HIDE DEF a, e
  <2>4. [l EXCEPT ![4] = e] \in Seq(ReplyChars) 
    <3>1. l \in [1..4 -> ReplyChars] BY <1>2, LenProperties
    <3>2. [l EXCEPT ![4] = e] \in [1..4 -> ReplyChars] BY <2>2, <3>1 DEF e
    <3>3. 4 \in Nat OBVIOUS
    <3> QED BY <3>2, <3>3, SeqDef
  <2> QED BY <2>3, <2>4 DEF e
<1>4. b \in Seq(ReplyChars) BY <1>1, WrittenType
<1>5. c \in Seq(ReplyChars) BY LineEndType
<1>6. bulkText(str) = a \o b \o c BY DEF bulkText
<1> HIDE DEF a, b, c
<1>7. a \o b \in Seq(ReplyChars) BY <1>3, <1>4, ConcatProperties
<1> QED BY <1>5, <1>6, <1>7, ConcatProperties

(* A bulk of a reply, or the number for a missing one. *)
LEMMA EncodeBulkType ==
  ASSUME NEW b \in Bulks
  PROVE  encodeBulk(b) \in Seq(ReplyChars)
<1>1. CASE b = REDIS_MISSING BY <1>1, LengthLineType DEF encodeBulk
<1>2. CASE b # REDIS_MISSING
  <2>1. b \in Strings BY <1>2 DEF Bulks
  <2> QED BY <1>2, <2>1, BulkTextType DEF encodeBulk
<1> QED BY <1>1, <1>2

(* A reply of one line. *)
LEMMA EncodeLineType ==
  ASSUME NEW first \in {"+", "-", ":"}, NEW text \in Seq(Wire)
  PROVE  encodeLine(first, text) \in Seq(ReplyChars)
<1> DEFINE a == <<Char(first, 0, FALSE)>>
           b == written(text, FALSE)
           c == REDIS_LBR(FALSE)
<1>1. a \in Seq(ReplyChars)
  <2> DEFINE e == Char(first, 0, FALSE)
  <2>1. e \in ReplyChars BY DEF Char, ReplyChars, Chars
  <2> HIDE DEF e
  <2>2. <<e>> \in Seq(ReplyChars) BY <2>1
  <2> QED BY <2>2 DEF e
<1>2. b \in Seq(ReplyChars) BY WrittenType
<1>3. c \in Seq(ReplyChars) BY LineEndType
<1>4. encodeLine(first, text) = a \o b \o c BY DEF encodeLine
<1> HIDE DEF a, b, c
<1>5. a \o b \in Seq(ReplyChars) BY <1>1, <1>2, ConcatProperties
<1> QED BY <1>3, <1>4, <1>5, ConcatProperties


(* A command: a length line, and a bulk for the command and for each argument. *)
LEMMA MakeCommandType ==
  ASSUME NEW cmd \in Strings, NEW args \in Seq(Strings)
  PROVE  makeCommand(cmd, args) \in Seq(ReplyChars)
<1> DEFINE N == Len(args)
           c == lengthLine("*", N + 1) \o bulkText(cmd)
           e == [k \in 1..N |-> bulkText(args[k])]
           Is(g) == g = [k \in 0..N |-> IF k = 0 THEN c ELSE g[k - 1] \o bulkText(args[k])]
<1>1. N \in Nat BY LenProperties
<1>2. c \in Seq(ReplyChars)
  <2>1. N + 1 \in Int /\ N + 1 >= -1 BY <1>1
  <2>2. lengthLine("*", N + 1) \in Seq(ReplyChars) BY <2>1, LengthLineType
  <2>3. bulkText(cmd) \in Seq(ReplyChars) BY BulkTextType
  <2> QED BY <2>2, <2>3, ConcatProperties
<1>3. Pieces(e, ReplyChars, N)
  <2>1. \A k \in 1..N : args[k] \in Strings BY ElementOfSeq
  <2>2. \A k \in 1..N : bulkText(args[k]) \in Seq(ReplyChars) BY <2>1, BulkTextType
  <2> QED BY <2>2 DEF Pieces
<1>4. \A k \in 1..N : e[k] = bulkText(args[k]) OBVIOUS
<1>5. makeCommand(cmd, args) = (CHOOSE x : Is(x))[N] BY DEF makeCommand
<1> HIDE DEF N, c, e
<1>6. \A g : Is(g) <=> Concat(g, c, e, N)
  <2>1. \A k \in 0..N : k = 0 \/ k \in 1..N BY <1>1
  <2> QED BY <1>4, <2>1 DEF Concat
<1>7. PICK g : Concat(g, c, e, N) BY <1>1, <1>2, <1>3, ConcatExists
<1> DEFINE w == CHOOSE x : Is(x)
<1>8. Concat(w, c, e, N) BY <1>6, <1>7
<1> HIDE DEF w
<1>9. /\ w[0] = c
      /\ \A k \in 1..N : w[k] = w[k - 1] \o e[k]
      /\ \A k \in 0..N : w[k] \in Seq(ReplyChars)
  BY <1>1, <1>2, <1>3, <1>8, ConcatLemma, Zenon
<1>10. N \in 0..N BY <1>1
<1> QED BY <1>5, <1>9, <1>10 DEF w

(* A list of strings, through makeCommand, push and clone. *)
LEMMA EncodeCommandType ==
  ASSUME NEW list \in Commands
  PROVE  encodeCommand(list) \in Seq(ReplyChars)
<1> DEFINE text == makeCommand(Head(list), Tail(list))
           a == NewBuffer(1)
           b == tailData(a, text)
           c == NewBuffer(b.maxLen)
           d == tailData(c, b.buf)
<1>1. list \in Seq(Strings) /\ list # << >>
  <2>1. PICK k \in 1..MaxElements : list \in [1..k -> Strings] BY DEF Commands
  <2>2. k \in Nat /\ k >= 1 BY <2>1, RedisAssumption
  <2> QED BY <2>1, <2>2
<1>2. Head(list) \in Strings /\ Tail(list) \in Seq(Strings) BY <1>1, HeadTailProperties
<1>3. text \in Seq(ReplyChars) BY <1>2, MakeCommandType
<1>4. a \in Buffer(ReplyChars) /\ InBounds(a) BY NewBufferLemma
<1> HIDE DEF text, a
<1>5. b \in Buffer(ReplyChars) /\ InBounds(b) BY <1>3, <1>4, TailDataLemma
<1> HIDE DEF b
<1>6. b.buf \in Seq(ReplyChars) /\ b.maxLen \in Nat BY <1>5 DEF Buffer
<1>7. c \in Buffer(ReplyChars) /\ InBounds(c) BY <1>6, NewBufferLemma
<1> HIDE DEF c
<1>8. d \in Buffer(ReplyChars) BY <1>6, <1>7, TailDataLemma
<1>9. d.buf \in Seq(ReplyChars) BY <1>8 DEF Buffer
<1> QED BY <1>9 DEF encodeCommand, clone, push, text, a, b, c

(* What the server writes for a reply. *)
LEMMA EncodeType ==
  ASSUME NEW r \in Replies
  PROVE  encode(r) \in Seq(ReplyChars)
<1>1. CASE r.type = "status_code_reply"
  <2>1. r.list[1] \in Lines BY <1>1 DEF Replies
  <2>2. encodeLine("+", r.list[1]) \in Seq(ReplyChars) BY <2>1, LinesType, EncodeLineType
  <2> QED BY <1>1, <2>2 DEF encode
<1>2. CASE r.type = "error_reply"
  <2>1. r.list[1] \in Errors BY <1>2 DEF Replies
  <2>2. encodeLine("-", r.list[1]) \in Seq(ReplyChars) BY <2>1, ErrorsType, EncodeLineType
  <2> QED BY <1>2, <2>2 DEF encode
<1>3. CASE r.type = "int_reply"
  <2>1. r.list[1] \in Numbers BY <1>3 DEF Replies
  <2>2. encodeLine(":", r.list[1]) \in Seq(ReplyChars) BY <2>1, NumbersType, EncodeLineType
  <2> QED BY <1>3, <2>2 DEF encode
<1>4. CASE r.type = "bulk_reply"
  <2> DEFINE text == encodeBulk(r.list[1])
             bare == [i \in 1..Len(text) |-> [text[i] EXCEPT !.in = FALSE]]
  <2>1. r.list[1] \in Bulks BY <1>4 DEF Replies
  <2>2. text \in Seq(ReplyChars) BY <2>1, EncodeBulkType
  <2>3. encode(r) = bare BY <1>4 DEF encode
  <2> HIDE DEF text
  <2>4. Len(text) \in Nat /\ \A i \in 1..Len(text) : text[i] \in ReplyChars
    BY <2>2, LenProperties, ElementOfSeq
  <2>5. \A x \in ReplyChars : [x EXCEPT !.in = FALSE] \in ReplyChars BY DEF ReplyChars, Chars
  <2>6. bare \in [1..Len(text) -> ReplyChars] BY <2>4, <2>5
  <2> HIDE DEF bare
  <2>7. bare \in Seq(ReplyChars) BY <2>4, <2>6
  <2> QED BY <2>3, <2>7
<1>5. CASE r.type = "multi_bulk_reply" /\ r.list = << >>
  <2>1. lengthLine("*", -1) \in Seq(ReplyChars) BY LengthLineType
  <2>2. r.list \notin Commands
    <3> SUFFICES ASSUME << >> \in Commands PROVE FALSE BY <1>5
    <3>1. PICK k \in 1..MaxElements : << >> \in [1..k -> Strings] BY DEF Commands
    <3>2. 1 \in 1..k /\ DOMAIN << >> = 1..k BY <3>1, RedisAssumption
    <3> QED BY <3>2
  <2>3. encode(r) = lengthLine("*", -1) BY <1>5, <2>2 DEF encode
  <2> QED BY <2>1, <2>3
<1>6. CASE r.type = "multi_bulk_reply" /\ r.list # << >>
  <2> DEFINE list == r.list
  <2>1. list \in Lists BY <1>6 DEF Replies
  <2>2. CASE list \in Commands BY <1>6, <2>2, EncodeCommandType DEF encode
  <2>3. CASE list \notin Commands
    <3> DEFINE N == Len(list)
               c == lengthLine("*", N)
               e == [k \in 1..N |-> encodeBulk(list[k])]
               Is(g) == g = [k \in 0..N |-> IF k = 0 THEN c ELSE g[k - 1] \o encodeBulk(list[k])]
    <3>1. N \in Nat /\ list \in Seq(Bulks)
      <4>1. PICK k \in 1..MaxElements : list \in [1..k -> Bulks] BY <2>1 DEF Lists
      <4>2. k \in Nat BY <4>1, RedisAssumption
      <4>3. list \in Seq(Bulks) BY <4>1, <4>2
      <4> QED BY <4>3, LenProperties
    <3>2. encode(r) = (CHOOSE x : Is(x))[N] BY <1>6, <2>3 DEF encode
    <3>3. c \in Seq(ReplyChars)
      <4>1. N \in Int /\ N >= -1 BY <3>1
      <4> QED BY <4>1, LengthLineType
    <3>4. Pieces(e, ReplyChars, N)
      <4>1. \A k \in 1..N : list[k] \in Bulks BY <3>1, ElementOfSeq
      <4>2. \A k \in 1..N : encodeBulk(list[k]) \in Seq(ReplyChars) BY <4>1, EncodeBulkType
      <4> QED BY <4>2 DEF Pieces
    <3>5. \A k \in 1..N : e[k] = encodeBulk(list[k]) OBVIOUS
    <3> HIDE DEF N, c, e, list
    <3>6. \A g : Is(g) <=> Concat(g, c, e, N)
      <4>1. \A k \in 0..N : k = 0 \/ k \in 1..N BY <3>1
      <4> QED BY <3>5, <4>1 DEF Concat
    <3>7. PICK g : Concat(g, c, e, N) BY <3>1, <3>3, <3>4, ConcatExists
    <3> DEFINE w == CHOOSE x : Is(x)
    <3>8. Concat(w, c, e, N) BY <3>6, <3>7
    <3> HIDE DEF w
    <3>9. /\ w[0] = c
          /\ \A k \in 1..N : w[k] = w[k - 1] \o e[k]
          /\ \A k \in 0..N : w[k] \in Seq(ReplyChars)
      BY <3>1, <3>3, <3>4, <3>8, ConcatLemma, Zenon
    <3>10. N \in 0..N BY <3>1
    <3> QED BY <3>2, <3>9, <3>10 DEF w
  <2> QED BY <2>2, <2>3
<1>7. r.type \in {"status_code_reply", "error_reply", "int_reply", "bulk_reply",
                  "multi_bulk_reply"}
  BY DEF Replies
<1> QED BY <1>1, <1>2, <1>3, <1>4, <1>5, <1>6, <1>7

(* What the server writes altogether. *)
LEMMA StreamType ==
  ASSUME NEW rs \in [1..MaxReplies -> Replies]
  PROVE  sent(rs)[MaxReplies] \in Seq(ReplyChars)
<1> DEFINE N == MaxReplies
           c == << >>
           e == [k \in 1..N |-> encode(rs[k])]
           Is(g) == g = [k \in 0..N |-> IF k = 0 THEN c ELSE g[k - 1] \o encode(rs[k])]
<1>1. N \in Nat /\ c \in Seq(ReplyChars) BY RedisAssumption, EmptySeq
<1>2. Len(rs) = N BY <1>1
<1>3. Pieces(e, ReplyChars, N)
  <2>1. \A k \in 1..N : encode(rs[k]) \in Seq(ReplyChars) BY EncodeType
  <2> QED BY <2>1 DEF Pieces
<1>4. \A k \in 1..N : e[k] = encode(rs[k]) OBVIOUS
<1> HIDE DEF N, c, e
<1>5. \A g : Is(g) <=> Concat(g, c, e, N)
  <2>1. \A k \in 0..N : k = 0 \/ k \in 1..N BY <1>1
  <2> QED BY <1>4, <2>1 DEF Concat
<1>6. PICK g : Concat(g, c, e, N) BY <1>1, <1>3, ConcatExists
<1> DEFINE w == CHOOSE x : Is(x)
<1>7. sent(rs) = w BY <1>2 DEF sent, c
<1>8. Concat(w, c, e, N) BY <1>5, <1>6
<1> HIDE DEF w
<1>9. /\ w[0] = c
      /\ \A k \in 1..N : w[k] = w[k - 1] \o e[k]
      /\ \A k \in 0..N : w[k] \in Seq(ReplyChars)
  BY <1>1, <1>3, <1>8, ConcatLemma, Zenon
<1>10. N \in 0..N BY <1>1
<1> QED BY <1>7, <1>9, <1>10 DEF N
-----------------------------------------------------------------------------
(* The parser *)

Kinds == {"no_reply", "status_code_reply", "error_reply", "int_reply", "bulk_reply",
          "multi_bulk_reply"}

(* A character of a parsed element. *)
Elem == {"-", "+", "$", ":", "*", "d", "x", "E", "R", "sp", "cr", "lf", "missing"} \X Int

Parse == [type : Kinds, multiCount : Nat, tempMaxLen : Nat, temp : Seq(ReplyChars),
          list : Seq(Seq(Elem)), done : BOOLEAN, readPos : Nat, threw : BOOLEAN]

(* A parsed text has one character for each read. *)
LEMMA TextType ==
  ASSUME NEW s \in Seq(ReplyChars)
  PROVE  Text(s) \in Seq(Elem) /\ Len(Text(s)) = Len(s)
<1> DEFINE l == Len(s)
           b == [i \in 1..l |-> <<s[i].t, s[i].n>>]
<1>1. l \in Nat /\ \A i \in 1..l : s[i] \in ReplyChars BY LenProperties, ElementOfSeq
<1>2. \A c \in ReplyChars : <<c.t, c.n>> \in Elem BY DEF ReplyChars, Chars, Elem
<1>3. Text(s) = b BY DEF Text
<1> HIDE DEF l, Elem
<1>4. b \in [1..l -> Elem] BY <1>1, <1>2
<1> HIDE DEF b
<1>5. b \in Seq(Elem) /\ Len(b) = l BY <1>1, <1>4
<1> QED BY <1>3, <1>5 DEF l

(* SubSeq from the beginning, and to the end. *)
LEMMA FrontType ==
  ASSUME NEW S, NEW s \in Seq(S), NEW n \in Nat, n <= Len(s)
  PROVE  /\ SubSeq(s, 1, n) \in Seq(S)
         /\ Len(SubSeq(s, 1, n)) = n
         /\ \A i \in 1..n : SubSeq(s, 1, n)[i] = s[i]
<1>1. Len(s) \in Nat /\ 0 + n <= Len(s) /\ 0 + 1 = 1 /\ 0 + n = n BY LenProperties
<1>2. /\ SubSeq(s, 0 + 1, 0 + n) \in Seq(S)
      /\ Len(SubSeq(s, 0 + 1, 0 + n)) = n
      /\ \A i \in 1..n : SubSeq(s, 0 + 1, 0 + n)[i] = s[0 + i]
  BY <1>1, WindowLemma
<1>3. \A i \in 1..n : 0 + i = i OBVIOUS
<1> QED BY <1>1, <1>2, <1>3

(* The rest of a sequence from k on. *)
LEMMA BackType ==
  ASSUME NEW S, NEW s \in Seq(S), NEW k \in Nat, k <= Len(s)
  PROVE  /\ SubSeq(s, k + 1, Len(s)) \in Seq(S)
         /\ Len(SubSeq(s, k + 1, Len(s))) = Len(s) - k
         /\ \A i \in 1..(Len(s) - k) : SubSeq(s, k + 1, Len(s))[i] = s[k + i]
<1> DEFINE n == Len(s) - k
<1>1. Len(s) \in Nat /\ n \in Nat /\ k + n = Len(s) /\ k + n <= Len(s) BY LenProperties
<1> HIDE DEF n
<1>2. /\ SubSeq(s, k + 1, k + n) \in Seq(S)
      /\ Len(SubSeq(s, k + 1, k + n)) = n
      /\ \A i \in 1..n : SubSeq(s, k + 1, k + n)[i] = s[k + i]
  BY <1>1, WindowLemma
<1> QED BY <1>1, <1>2 DEF n

(* What substr returns of a line that is long enough. *)
LEMMA FromType ==
  ASSUME NEW str \in Seq(ReplyChars), NEW k \in Nat, k <= Len(str)
  PROVE  from(str, k) \in Seq(Elem)
<1>1. SubSeq(str, k + 1, Len(str)) \in Seq(ReplyChars) BY BackType
<1> QED BY <1>1, TextType DEF from

(* A set of naturals with an upper bound has a greatest element. *)
LEMMA GreatestNatural ==
  ASSUME NEW N \in Nat, NEW T \in SUBSET (1..N), T # {}
  PROVE  \E x \in T : \A y \in T : y <= x
<1> DEFINE U == {N - x : x \in T}
<1>1. \A x \in T : x \in Nat /\ N - x \in Nat OBVIOUS
<1>2. U \in SUBSET Nat /\ U # {} BY <1>1
<1> HIDE DEF U
<1>3. PICK u \in U : \A v \in U : u <= v BY <1>2, LeastNatural
<1>4. PICK x \in T : u = N - x BY <1>3 DEF U
<1>5. \A y \in T : N - x <= N - y BY <1>3, <1>4 DEF U
<1>6. \A y \in T : y <= x BY <1>1, <1>5
<1> QED BY <1>6

(* What is left of a line without its end. *)
LEMMA RtrimType ==
  ASSUME NEW str \in Seq(ReplyChars)
  PROVE  rtrim(str) \in Seq(ReplyChars)
<1> DEFINE N == Len(str)
           keep == {i \in 1..N : str[i].t \notin {"cr", "lf"}}
           m == CHOOSE i \in keep : \A j \in keep : j <= i
<1>1. N \in Nat BY LenProperties
<1>2. rtrim(str) = IF keep = {} THEN << >> ELSE SubSeq(str, 1, m) BY DEF rtrim
<1>3. keep \in SUBSET (1..N) OBVIOUS
<1> HIDE DEF keep
<1>4. CASE keep = {} BY <1>2, <1>4, EmptySeq
<1>5. CASE keep # {}
  <2>1. m \in keep BY <1>1, <1>3, <1>5, GreatestNatural
  <2> HIDE DEF m
  <2>2. m \in Nat /\ m <= Len(str) BY <1>1, <1>3, <2>1
  <2>3. SubSeq(str, 1, m) \in Seq(ReplyChars) BY <2>2, FrontType
  <2> QED BY <1>2, <1>5, <2>3
<1> QED BY <1>4, <1>5

(* What is left to parse, and the first line of it. *)
LEMMA RestLemma ==
  ASSUME NEW p, NEW buf \in Seq(ReplyChars), p.readPos \in Nat, p.readPos <= Len(buf)
  PROVE  /\ rest(p, buf) \in Seq(ReplyChars)
         /\ Len(rest(p, buf)) = Len(buf) - p.readPos
         /\ Len(rest(p, buf)) \in Nat
<1>1. Len(buf) \in Nat BY LenProperties
<1> QED BY <1>1, BackType DEF rest

(* A complete line ends inside what is left to parse, at the first line feed. *)
LEMMA LineLemma ==
  ASSUME NEW p, NEW buf \in Seq(ReplyChars), p.readPos \in Nat, p.readPos <= Len(buf),
         p.temp \in Seq(ReplyChars), hasLine(p, buf)
  PROVE  /\ lineLen(p, buf) \in 1..Len(rest(p, buf))
         /\ lineOf(p, buf) \in Seq(ReplyChars)
         /\ rest(p, buf)[lineLen(p, buf)].t = "lf"
         /\ \A j \in 1..(lineLen(p, buf) - 1) : rest(p, buf)[j].t # "lf"
<1> DEFINE r == rest(p, buf)
           T == {i \in 1..Len(r) : r[i].t = "lf"}
           l == lineLen(p, buf)
<1>1. r \in Seq(ReplyChars) /\ Len(r) \in Nat BY RestLemma
<1>2. T # {} BY DEF hasLine
<1>3. T \in SUBSET Nat /\ T \in SUBSET (1..Len(r)) OBVIOUS
<1>4. l = CHOOSE i \in 1..Len(r) : r[i].t = "lf" /\ \A j \in 1..(i - 1) : r[j].t # "lf"
  BY DEF lineLen
<1>5. \E i \in 1..Len(r) : r[i].t = "lf" /\ \A j \in 1..(i - 1) : r[j].t # "lf"
  <2> HIDE DEF T
  <2>1. PICK i \in T : \A j \in T : i <= j BY <1>2, <1>3, LeastNatural
  <2>2. i \in 1..Len(r) /\ r[i].t = "lf" BY <2>1 DEF T
  <2>3. ASSUME NEW j \in 1..(i - 1), r[j].t = "lf" PROVE FALSE
    <3>1. j \in 1..Len(r) /\ ~(i <= j) BY <1>1, <2>2
    <3>2. j \in T BY <2>3, <3>1 DEF T
    <3> QED BY <2>1, <3>1, <3>2
  <2> QED BY <2>2, <2>3
<1>6. l \in 1..Len(r) /\ r[l].t = "lf" /\ \A j \in 1..(l - 1) : r[j].t # "lf"
  <2> HIDE DEF r, l
  <2> QED BY <1>4, <1>5
<1> HIDE DEF l, T
<1>7. l \in Nat /\ l <= Len(r) BY <1>1, <1>6
<1> HIDE DEF r
<1>8. SubSeq(r, 1, l) \in Seq(ReplyChars) BY <1>1, <1>7, FrontType
<1>9. p.temp \o SubSeq(r, 1, l) \in Seq(ReplyChars) BY <1>8, ConcatProperties
<1>10. lineOf(p, buf) \in Seq(ReplyChars) BY <1>9, RtrimType DEF lineOf, r, l
<1> QED BY <1>6, <1>10 DEF l, r


(***************************************************************************)
(* What a parse in progress, a finished and a failed one look like.  The   *)
(* characters that temp holds of a bulk are always fewer than it needs.    *)
(***************************************************************************)
OneString == {"status_code_reply", "error_reply", "int_reply", "bulk_reply"}

Shape(p) ==
  /\ p \in Parse
  /\ p.type = "no_reply" => p.list = << >>
  /\ p.type \in {"status_code_reply", "error_reply", "int_reply"} => p.done \/ p.threw
  /\ p.type \in OneString /\ p.done => Len(p.list) = 1
  /\ p.type = "bulk_reply" /\ ~p.done /\ ~p.threw =>
       p.list = << >> /\ 2 <= p.tempMaxLen /\ Len(p.temp) < p.tempMaxLen

(* s[k] is what the first k strings add to m_recvSize. *)
Sums(s, list) ==
  /\ s \in [0..Len(list) -> Nat]
  /\ s[0] = 0
  /\ \A k \in 1..Len(list) : s[k] = s[k - 1] + PodSize + Len(list[k])

(* m_recvSize counts what makeRedisBuffer will write of what is parsed so far. *)
Sized(p, size) ==
  /\ p.type = "no_reply" /\ p.done => size = PodSize
  /\ p.type = "int_reply" => size = 2 * PodSize
  /\ p.type \in {"status_code_reply", "error_reply"} => size = PodSize + Len(p.list[1])
  /\ p.type = "bulk_reply" => size = PodSize + (IF p.done THEN Len(p.list[1]) ELSE 0)
  /\ p.type = "multi_bulk_reply" =>
       \E s : Sums(s, p.list) /\ size = 2 * PodSize + s[Len(p.list)]

(* A line with a type has a first character. *)
LEMMA ReplyTypeLemma ==
  ASSUME NEW str \in Seq(ReplyChars)
  PROVE  /\ getReplyType(str) \in Kinds
         /\ getReplyType(str) # "no_reply" => Len(str) >= 1
<1>1. getReplyType(str) \in Kinds
  <2>1. CASE str = << >> BY <2>1 DEF getReplyType, Kinds
  <2>2. CASE str # << >> BY <2>2 DEF getReplyType, Kinds
  <2> QED BY <2>1, <2>2
<1>2. ASSUME getReplyType(str) # "no_reply" PROVE Len(str) >= 1
  <2>1. str # << >> BY <1>2 DEF getReplyType
  <2> QED BY <2>1
<1> QED BY <1>1, <1>2

(* What is read as a number (lexical_cast<int> of all but the first character). *)
LEMMA HasNumberLemma ==
  ASSUME NEW str \in Seq(ReplyChars)
  PROVE  /\ hasNumber(str) <=>
              Len(str) = 2 /\ str[2].t = "d" /\ str[2].n \in (-INT_MAX - 1)..INT_MAX
         /\ hasNumber(str) => number(str) = str[2].n
<1> DEFINE w == SubSeq(str, 1 + 1, Len(str))
           f == from(str, 1)
<1>1. Len(str) \in Nat BY LenProperties
<1>2. f = Text(w) BY DEF from
<1>3. hasNumber(str) <=> (Len(f) = 1 /\ f[1][1] = "d" /\ f[1][2] \in (-INT_MAX - 1)..INT_MAX)
  BY DEF hasNumber, isInt
<1>4. number(str) = f[1][2] BY DEF number, toInt
<1> HIDE DEF f
<1>5. CASE Len(str) = 0
  <2>1. w \in Seq(ReplyChars) /\ Len(w) = 0 BY <1>5
  <2>2. Len(f) = 0 BY <1>2, <2>1, TextType
  <2> QED BY <1>3, <1>5, <2>2
<1>6. CASE Len(str) >= 1
  <2>1. /\ w \in Seq(ReplyChars) /\ Len(w) = Len(str) - 1
        /\ \A i \in 1..(Len(str) - 1) : w[i] = str[1 + i]
    <3>1. 1 \in Nat /\ 1 <= Len(str) BY <1>1, <1>6
    <3> QED BY <3>1, BackType
  <2> HIDE DEF w
  <2>2. Len(f) = Len(w) BY <1>2, <2>1, TextType
  <2>3. CASE Len(w) = 1
    <3>1. Len(str) = 2 /\ w[1] = str[2]
      <4> DEFINE n == Len(str)
      <4>1. n \in Nat /\ n - 1 = 1 BY <1>1, <2>1, <2>3
      <4> HIDE DEF n
      <4>2. n = 2 /\ 1 \in 1..(n - 1) /\ 1 + 1 = 2 BY <4>1
      <4>3. w[1] = str[1 + 1] BY <2>1, <4>2 DEF n
      <4> QED BY <4>2, <4>3 DEF n
    <3>2. f[1] = <<w[1].t, w[1].n>> BY <1>2, <2>3 DEF Text
    <3>3. f[1][1] = str[2].t /\ f[1][2] = str[2].n BY <3>1, <3>2
    <3> QED BY <1>3, <1>4, <2>2, <2>3, <3>1, <3>3
  <2>4. CASE Len(w) # 1
    <3>1. Len(str) # 2 BY <1>1, <2>1, <2>4
    <3> QED BY <1>3, <2>2, <2>4, <3>1
  <2> QED BY <2>3, <2>4
<1> QED BY <1>1, <1>5, <1>6

(* No number on the wire is less than -1. *)
LEMMA NumberLemma ==
  ASSUME NEW str \in Seq(ReplyChars), hasNumber(str)
  PROVE  /\ number(str) \in Int /\ number(str) >= -1
         /\ number(str) # -1 => number(str) \in Nat
<1>1. Len(str) = 2 /\ number(str) = str[2].n BY HasNumberLemma
<1>2. str[2] \in ReplyChars
  <2>1. 2 \in 1..Len(str) BY <1>1
  <2> QED BY <2>1, ElementOfSeq
<1>3. str[2].n \in Int /\ str[2].n >= -1 BY <1>2 DEF ReplyChars, Chars
<1> QED BY <1>1, <1>3

(* The text that stands for a missing bulk. *)
LEMMA MissingType == REDIS_MISSING \in Seq(Elem)
<1> DEFINE e == <<"missing", 0>>
<1>1. e \in Elem BY DEF Elem
<1> HIDE DEF e
<1>2. <<e>> \in Seq(Elem) BY <1>1
<1> QED BY <1>2 DEF REDIS_MISSING, e

(* finish adds the last string. *)
LEMMA FinishLemma ==
  ASSUME NEW p \in Parse, p.list = << >>, NEW text \in Seq(Elem)
  PROVE  LET f == finish(p, text) IN
         /\ f \in Parse
         /\ f.done /\ f.threw = p.threw
         /\ Len(f.list) = 1 /\ f.list[1] = text
         /\ f.type = p.type /\ f.temp = p.temp /\ f.readPos = p.readPos
<1> DEFINE l == Append(p.list, text)
           f == [p EXCEPT !.list = l, !.done = TRUE]
<1>1. finish(p, text) = f BY DEF finish
<1>2. l \in Seq(Seq(Elem)) /\ Len(l) = 1 /\ l[1] = text
  <2>1. p.list \in Seq(Seq(Elem)) BY DEF Parse
  <2>2. l = <<text>>  BY <2>1
  <2>3. <<text>> \in Seq(Seq(Elem)) OBVIOUS
  <2> QED BY <2>2, <2>3
<1> HIDE DEF l
<1>3. /\ f \in Parse
      /\ f.list = l /\ f.done = TRUE /\ f.threw = p.threw
      /\ f.type = p.type /\ f.temp = p.temp /\ f.readPos = p.readPos
  BY <1>2 DEF Parse
<1> HIDE DEF f
<1> QED BY <1>1, <1>2, <1>3

(* Before the first element of a list is parsed, nothing but the count is there. *)
LEMMA NoSums ==
  ASSUME NEW p, p.list = << >>
  PROVE  \E s : Sums(s, p.list) /\ 2 * PodSize = 2 * PodSize + s[Len(p.list)]
<1> DEFINE s == [k \in 0..0 |-> 0]
<1>1. Len(p.list) = 0 OBVIOUS
<1>2. s \in [0..0 -> Nat] /\ s[0] = 0 OBVIOUS
<1> HIDE DEF s
<1>3. Sums(s, p.list) BY <1>1, <1>2 DEF Sums
<1> QED BY <1>1, <1>2, <1>3 DEF PodSize

(* The first line of a reply (redisparser.h:111, redisblock.cpp:181). *)
LEMMA ParseTypeLemma ==
  ASSUME NEW q \in Parse, q.type = "no_reply", q.list = << >>, ~q.done, ~q.threw,
         q.temp = << >>, NEW content \in Seq(ReplyChars)
  PROVE  LET p == parseType(q, content) IN
         /\ Shape(p)
         /\ p.readPos = q.readPos
         /\ lineSize(p) \in Nat
         /\ ~p.threw => Sized(p, lineSize(p))
         /\ ~p.threw /\ ~p.done => p.type \in {"bulk_reply", "multi_bulk_reply"}
<1> DEFINE type == getReplyType(content)
           t == [q EXCEPT !.type = type]
           p == parseType(q, content)
<1>1. type \in Kinds /\ (type # "no_reply" => 1 <= Len(content)) /\ Len(content) \in Nat
  BY ReplyTypeLemma, LenProperties
<1>2. /\ t \in Parse /\ t.type = type /\ t.list = << >> /\ ~t.done /\ ~t.threw
      /\ t.temp = << >> /\ t.readPos = q.readPos
  BY <1>1 DEF Parse
<1>3. PodSize = 4 BY DEF PodSize
<1> HIDE DEF t, type
<1>4. ASSUME NEW text \in Seq(Elem), p = finish(t, text), type \in OneString
      PROVE  /\ Shape(p)
             /\ p.readPos = q.readPos
             /\ Sized(p, lineSize(p)) /\ lineSize(p) \in Nat
             /\ p.done
  <2> HIDE DEF p
  <2>1. /\ p \in Parse /\ p.done /\ ~p.threw /\ p.type = type
        /\ Len(p.list) = 1 /\ p.list[1] = text /\ p.readPos = q.readPos
    BY <1>2, <1>4, FinishLemma
  <2>2. Shape(p) BY <1>4, <2>1 DEF Shape, OneString
  <2>3. Len(text) \in Nat BY <1>4, LenProperties
  <2>4. CASE type = "int_reply"
    <3>1. lineSize(p) = 2 * PodSize BY <2>1, <2>4 DEF lineSize
    <3> QED BY <1>3, <2>1, <2>2, <2>4, <3>1 DEF Sized
  <2>5. CASE type \in {"status_code_reply", "error_reply", "bulk_reply"}
    <3>1. lineSize(p) = PodSize + Len(text) BY <2>1, <2>5 DEF lineSize
    <3>2. PodSize + Len(text) \in Nat BY <1>3, <2>3
    <3> QED BY <2>1, <2>2, <2>5, <3>1, <3>2 DEF Sized
  <2> QED BY <1>4, <2>4, <2>5 DEF OneString
<1>5. ASSUME p = [t EXCEPT !.threw = TRUE]
      PROVE  /\ Shape(p) /\ p.readPos = q.readPos /\ p.threw
             /\ lineSize(p) \in Nat
  <2> HIDE DEF p
  <2>1. /\ p \in Parse /\ p.threw /\ p.list = << >> /\ p.readPos = q.readPos /\ ~p.done
    BY <1>2, <1>5 DEF Parse
  <2>2. lineSize(p) = PodSize \/ lineSize(p) = 2 * PodSize \/ lineSize(p) = PodSize + 0
    <3>1. p.type \in Kinds BY <2>1 DEF Parse
    <3> QED BY <2>1, <3>1 DEF lineSize, Kinds
  <2>3. lineSize(p) \in Nat BY <1>3, <2>2
  <2> QED BY <2>1, <2>3 DEF Shape
<1>6. CASE type = "no_reply"
  <2>1. p = [t EXCEPT !.done = TRUE] BY <1>6 DEF parseType, t, type
  <2> HIDE DEF p
  <2>2. /\ p \in Parse /\ p.done /\ ~p.threw /\ p.type = "no_reply" /\ p.list = << >>
        /\ p.readPos = q.readPos
    BY <1>2, <1>6, <2>1 DEF Parse
  <2>3. Shape(p) BY <2>2 DEF Shape, OneString
  <2>4. lineSize(p) = PodSize BY <2>2 DEF lineSize
  <2>5. Sized(p, lineSize(p)) BY <2>2, <2>4 DEF Sized
  <2> QED BY <1>3, <2>2, <2>3, <2>4, <2>5 DEF p
<1>7. CASE type = "status_code_reply"
  <2>1. p = finish(t, from(content, 1)) BY <1>7 DEF parseType, t, type
  <2>2. from(content, 1) \in Seq(Elem) BY <1>1, <1>7, FromType
  <2>3. type \in OneString BY <1>7 DEF OneString
  <2> HIDE DEF p
  <2> QED BY <1>4, <2>1, <2>2, <2>3 DEF p
<1>8. CASE type = "int_reply"
  <2>1. p = finish(t, from(content, 1)) BY <1>8 DEF parseType, t, type
  <2>2. from(content, 1) \in Seq(Elem) BY <1>1, <1>8, FromType
  <2>3. type \in OneString BY <1>8 DEF OneString
  <2> HIDE DEF p
  <2> QED BY <1>4, <2>1, <2>2, <2>3 DEF p
<1>9. CASE type = "error_reply"
  <2>1. CASE Len(content) < 4
    <3>1. p = [t EXCEPT !.threw = TRUE] BY <1>9, <2>1 DEF parseType, t, type
    <3> HIDE DEF p
    <3> QED BY <1>5, <3>1 DEF p
  <2>2. CASE ~(Len(content) < 4)
    <3>1. p = finish(t, from(content, 4)) BY <1>9, <2>2 DEF parseType, t, type
    <3>2. 4 <= Len(content) BY <1>1, <2>2
    <3>3. from(content, 4) \in Seq(Elem) BY <3>2, FromType
    <3>4. type \in OneString BY <1>9 DEF OneString
    <3> HIDE DEF p
    <3> QED BY <1>4, <3>1, <3>3, <3>4 DEF p
  <2> QED BY <2>1, <2>2
<1>10. CASE type \in {"bulk_reply", "multi_bulk_reply"} /\ ~hasNumber(content)
  <2>1. p = [t EXCEPT !.threw = TRUE] BY <1>10 DEF parseType, t, type
  <2> HIDE DEF p
  <2> QED BY <1>5, <2>1 DEF p
<1>11. CASE type = "bulk_reply" /\ hasNumber(content)
  <2> DEFINE n == number(content)
  <2>1. n \in Int /\ (n # -1 => n \in Nat) BY <1>11, NumberLemma
  <2>2. CASE n = -1
    <3>1. p = finish(t, REDIS_MISSING) BY <1>11, <2>2 DEF parseType, t, type
    <3>2. type \in OneString BY <1>11 DEF OneString
    <3> HIDE DEF p
    <3> QED BY <1>4, <3>1, <3>2, MissingType DEF p
  <2>3. CASE n # -1
    <3>1. p = [t EXCEPT !.tempMaxLen = n + 2] BY <1>11, <2>3 DEF parseType, t, type
    <3> HIDE DEF p
    <3>2. n + 2 \in Nat /\ 2 <= n + 2 /\ 0 < n + 2 BY <2>1, <2>3
    <3> HIDE DEF n
    <3>3. /\ p \in Parse /\ ~p.done /\ ~p.threw /\ p.type = "bulk_reply" /\ p.list = << >>
          /\ p.readPos = q.readPos /\ p.temp = << >> /\ p.tempMaxLen = n + 2
      BY <1>2, <1>11, <3>1, <3>2 DEF Parse
    <3>4. Len(p.temp) = 0 BY <3>3
    <3>5. Shape(p) BY <3>2, <3>3, <3>4 DEF Shape
    <3>6. lineSize(p) = PodSize + 0 BY <3>3 DEF lineSize
    <3>7. Sized(p, lineSize(p)) BY <3>3, <3>6 DEF Sized
    <3> QED BY <1>3, <3>3, <3>5, <3>6, <3>7 DEF p
  <2> QED BY <2>2, <2>3
<1>12. CASE type = "multi_bulk_reply" /\ hasNumber(content)
  <2> DEFINE n == number(content)
  <2>1. n \in Int /\ (n # -1 => n \in Nat) BY <1>12, NumberLemma
  <2>2. p = [t EXCEPT !.done = TRUE] \/ (n # -1 /\ p = [t EXCEPT !.multiCount = n])
    <3>1. CASE n = -1
      <4>1. p = [t EXCEPT !.done = TRUE] BY <1>12, <3>1 DEF parseType, t, type
      <4> HIDE DEF p, n
      <4> QED BY <4>1
    <3>2. CASE n # -1
      <4>1. p = [t EXCEPT !.multiCount = n] BY <1>12, <3>2 DEF parseType, t, type
      <4> QED BY <3>2, <4>1
    <3> QED BY <3>1, <3>2
  <2> HIDE DEF p, n
  <2>3. /\ p \in Parse /\ ~p.threw /\ p.type = "multi_bulk_reply" /\ p.list = << >>
        /\ p.readPos = q.readPos
    <3>1. CASE p = [t EXCEPT !.done = TRUE] BY <1>2, <1>12, <3>1 DEF Parse
    <3>2. CASE n # -1 /\ p = [t EXCEPT !.multiCount = n] BY <1>2, <1>12, <2>1, <3>2 DEF Parse
    <3> QED BY <2>2, <3>1, <3>2
  <2>4. Shape(p) BY <2>3 DEF Shape, OneString
  <2>5. lineSize(p) = 2 * PodSize BY <2>3 DEF lineSize
  <2>6. Sized(p, lineSize(p)) BY <2>3, <2>5, NoSums DEF Sized
  <2> QED BY <1>3, <2>3, <2>4, <2>5, <2>6 DEF p
<1> QED BY <1>1, <1>6, <1>7, <1>8, <1>9, <1>10, <1>11, <1>12 DEF Kinds


(* Shape and fields of a record that differs from p in what was read. *)
LEMMA ReadLenLemma ==
  ASSUME NEW p \in Parse, NEW buf \in Seq(ReplyChars), p.readPos <= Len(buf),
         NEW len \in Nat, Len(p.temp) <= len
  PROVE  LET r == readLen(p, buf, len) IN
         /\ r \in Parse
         /\ r.type = p.type /\ r.list = p.list /\ r.done = p.done /\ r.threw = p.threw
         /\ r.tempMaxLen = p.tempMaxLen /\ r.multiCount = p.multiCount
         /\ r.readPos <= Len(buf)
         /\ hasLen(p, buf, len) => /\ lenOf(p, buf, len) \in Seq(ReplyChars)
                                   /\ Len(lenOf(p, buf, len)) = len
                                   /\ r.temp = << >>
         /\ ~hasLen(p, buf, len) /\ Len(p.temp) < len => Len(r.temp) < len
<1> DEFINE r == readLen(p, buf, len)
           s == rest(p, buf)
           n == need(p, len)
           x == Len(p.temp)
           y == Len(s)
           z == p.readPos
<1>1. /\ p.temp \in Seq(ReplyChars) /\ z \in Nat /\ x \in Nat /\ Len(buf) \in Nat
  BY LenProperties DEF Parse
<1>2. s \in Seq(ReplyChars) /\ y = Len(buf) - z /\ y \in Nat BY <1>1, RestLemma
<1>3. n = len - x /\ n \in Nat BY <1>1 DEF need
<1>4. CASE hasLen(p, buf, len)
  <2>1. n <= y BY <1>4 DEF hasLen
  <2>2. r = [p EXCEPT !.temp = << >>, !.readPos = z + n] BY <1>4 DEF readLen
  <2>3. lenOf(p, buf, len) = p.temp \o SubSeq(s, 1, n) BY DEF lenOf
  <2> HIDE DEF r, s, n, x, y
  <2>4. SubSeq(s, 1, n) \in Seq(ReplyChars) /\ Len(SubSeq(s, 1, n)) = n
    BY <1>2, <1>3, <2>1, FrontType DEF y
  <2>5. /\ p.temp \o SubSeq(s, 1, n) \in Seq(ReplyChars)
        /\ Len(p.temp \o SubSeq(s, 1, n)) = x + n
    BY <1>1, <2>4, ConcatProperties DEF x
  <2>6. x + n = len /\ z + n \in Nat /\ z + n <= Len(buf) BY <1>1, <1>2, <1>3, <2>1
  <2> HIDE DEF z
  <2>7. << >> \in Seq(ReplyChars) BY EmptySeq
  <2>8. /\ r \in Parse /\ r.temp = << >> /\ r.readPos = z + n
        /\ r.type = p.type /\ r.list = p.list /\ r.done = p.done /\ r.threw = p.threw
        /\ r.tempMaxLen = p.tempMaxLen /\ r.multiCount = p.multiCount
    BY <2>2, <2>6, <2>7 DEF Parse
  <2> QED BY <1>4, <2>3, <2>5, <2>6, <2>8 DEF r
<1>5. CASE ~hasLen(p, buf, len)
  <2>1. s = << >> \/ ~(n <= y) BY <1>5 DEF hasLen
  <2>2. r = [p EXCEPT !.temp = p.temp \o s, !.readPos = z + y] BY <1>5 DEF readLen
  <2>3. s = << >> => y = 0 OBVIOUS
  <2> HIDE DEF r, n, y, s
  <2>4. p.temp \o s \in Seq(ReplyChars) /\ Len(p.temp \o s) = x + y
    BY <1>1, <1>2, ConcatProperties DEF x, y
  <2> HIDE DEF x
  <2>5. z + y \in Nat /\ z + y <= Len(buf) BY <1>1, <1>2
  <2>6. x < len => x + y < len BY <1>1, <1>2, <1>3, <2>1, <2>3
  <2> HIDE DEF z
  <2>7. /\ r \in Parse /\ r.temp = p.temp \o s /\ r.readPos = z + y
        /\ r.type = p.type /\ r.list = p.list /\ r.done = p.done /\ r.threw = p.threw
        /\ r.tempMaxLen = p.tempMaxLen /\ r.multiCount = p.multiCount
    BY <2>2, <2>4, <2>5 DEF Parse
  <2> QED BY <1>5, <2>4, <2>5, <2>6, <2>7 DEF r, x
<1> QED BY <1>4, <1>5

(* A bulk without its line end. *)
LEMMA WithoutType ==
  ASSUME NEW p \in Parse, NEW str \in Seq(ReplyChars), Len(str) = p.tempMaxLen,
         2 <= p.tempMaxLen
  PROVE  withoutCRLF(p, str) \in Seq(Elem)
<1>1. p.tempMaxLen \in Nat BY DEF Parse
<1>2. p.tempMaxLen - 2 \in Nat /\ p.tempMaxLen - 2 <= Len(str) BY <1>1
<1>3. SubSeq(str, 1, p.tempMaxLen - 2) \in Seq(ReplyChars) BY <1>2, FrontType
<1> QED BY <1>3, TextType DEF withoutCRLF

(* The body of a bulk (redisparser.h:159). *)
LEMMA ParseBulkLemma ==
  ASSUME NEW p, Shape(p), p.type = "bulk_reply", ~p.done, ~p.threw,
         NEW buf \in Seq(ReplyChars), p.readPos <= Len(buf)
  PROVE  LET w == parseBulk(p, buf) IN
         Shape(w) /\ ~w.threw /\ w.readPos <= Len(buf)
<1> DEFINE len == p.tempMaxLen
           r == readLen(p, buf, len)
           w == parseBulk(p, buf)
<1>1. /\ p \in Parse /\ len \in Nat /\ p.list = << >> /\ 2 <= len /\ Len(p.temp) < len
      /\ Len(p.temp) \in Nat
  BY LenProperties DEF Shape, Parse
<1>2. Len(p.temp) <= len BY <1>1
<1>3. /\ r \in Parse
      /\ r.type = p.type /\ r.list = p.list /\ r.done = p.done /\ r.threw = p.threw
      /\ r.tempMaxLen = p.tempMaxLen
      /\ r.readPos <= Len(buf)
      /\ hasLen(p, buf, len) => /\ lenOf(p, buf, len) \in Seq(ReplyChars)
                                /\ Len(lenOf(p, buf, len)) = len
      /\ ~hasLen(p, buf, len) /\ Len(p.temp) < len => Len(r.temp) < len
  BY <1>1, <1>2, ReadLenLemma
<1>4. CASE hasLen(p, buf, len)
  <2> DEFINE text == withoutCRLF(p, lenOf(p, buf, len))
  <2>1. text \in Seq(Elem) BY <1>1, <1>3, <1>4, WithoutType
  <2>2. w = finish(r, text) BY <1>4 DEF parseBulk
  <2> HIDE DEF r, text, w
  <2>3. /\ w \in Parse /\ w.done /\ w.threw = r.threw /\ Len(w.list) = 1
        /\ w.type = r.type /\ w.readPos = r.readPos
    BY <1>1, <1>3, <2>1, <2>2, FinishLemma
  <2>4. Shape(w) BY <1>3, <2>3 DEF Shape, OneString
  <2> QED BY <1>3, <2>3, <2>4 DEF w
<1>5. CASE ~hasLen(p, buf, len)
  <2>1. w = r BY <1>5 DEF parseBulk
  <2> HIDE DEF r, w
  <2>2. Shape(w) BY <1>1, <1>3, <1>5, <2>1 DEF Shape, OneString
  <2> QED BY <1>3, <2>1, <2>2 DEF w
<1> QED BY <1>4, <1>5

(* An element is added to the list. *)
LEMMA ElementLemma ==
  ASSUME NEW p \in Parse, p.type = "multi_bulk_reply", ~p.threw, NEW text \in Seq(Elem)
  PROVE  LET e == element(p, text) IN
         /\ Shape(e.p) /\ e.p.type = "multi_bulk_reply" /\ ~e.p.threw
         /\ e.p.list = Append(p.list, text)
         /\ e.p.readPos = p.readPos
         /\ e.again = ~e.p.done
<1> DEFINE l == Append(p.list, text)
           d == (Len(l) = p.multiCount)
           f == [p EXCEPT !.list = l, !.done = d]
           e == element(p, text)
<1>1. e = [p |-> f, again |-> Len(l) # p.multiCount] BY DEF element
<1>2. l \in Seq(Seq(Elem))
  <2>1. p.list \in Seq(Seq(Elem)) BY DEF Parse
  <2> DEFINE T == Seq(Elem)
             list == p.list
  <2>2. list \in Seq(T) /\ text \in T BY <2>1
  <2> HIDE DEF T, list
  <2>3. Append(list, text) \in Seq(T) BY <2>2, AppendProperties
  <2> QED BY <2>3 DEF T, list
<1>3. d \in BOOLEAN /\ ~d = (Len(l) # p.multiCount) OBVIOUS
<1> HIDE DEF l, d
<1>4. /\ f \in Parse /\ f.list = l /\ f.done = d /\ f.type = p.type /\ f.threw = p.threw
      /\ f.readPos = p.readPos
  BY <1>2, <1>3 DEF Parse
<1> HIDE DEF f
<1>5. Shape(f) BY <1>4 DEF Shape, OneString
<1> QED BY <1>1, <1>3, <1>4, <1>5 DEF l

(* One element of a list (redisparser.h:169). *)
LEMMA ParseElementLemma ==
  ASSUME NEW p, Shape(p), p.type = "multi_bulk_reply", ~p.done, ~p.threw,
         NEW buf \in Seq(ReplyChars), p.readPos <= Len(buf)
  PROVE  LET e == parseElement(p, buf) IN
         /\ Shape(e.p) /\ e.p.type = "multi_bulk_reply" /\ e.p.readPos <= Len(buf)
         /\ e.again \in BOOLEAN
         /\ e.again => ~e.p.done /\ ~e.p.threw
<1> DEFINE l == lineLen(p, buf)
           content == lineOf(p, buf)
           q == [p EXCEPT !.temp = << >>, !.readPos = p.readPos + l, !.tempMaxLen = 0]
           e == parseElement(p, buf)
           Good == /\ Shape(e.p) /\ e.p.type = "multi_bulk_reply" /\ e.p.readPos <= Len(buf)
                   /\ e.again \in BOOLEAN
                   /\ e.again => ~e.p.done /\ ~e.p.threw
<1> SUFFICES Good OBVIOUS
<1>1. /\ p \in Parse /\ p.readPos \in Nat /\ p.temp \in Seq(ReplyChars) /\ Len(buf) \in Nat
  BY LenProperties DEF Shape, Parse
<1>2. CASE ~hasLine(p, buf)
  <2>1. e = [p |-> p, again |-> FALSE] BY <1>2 DEF parseElement
  <2> HIDE DEF e
  <2> QED BY <2>1
<1>3. CASE hasLine(p, buf)
  <2>1. /\ l \in 1..Len(rest(p, buf)) /\ content \in Seq(ReplyChars) BY <1>1, <1>3, LineLemma
  <2>2. Len(rest(p, buf)) = Len(buf) - p.readPos BY <1>1, RestLemma
  <2>3. p.readPos + l \in Nat /\ p.readPos + l <= Len(buf) BY <1>1, <2>1, <2>2
  <2>4. [readLine(p, buf) EXCEPT !.tempMaxLen = 0] = q
    BY <1>1 DEF readLine, Parse
  <2>5. << >> \in Seq(ReplyChars) BY EmptySeq
  <2> HIDE DEF l, content
  <2>6. /\ q \in Parse /\ q.type = p.type /\ q.readPos = p.readPos + l /\ ~q.threw /\ ~q.done
        /\ q.temp = << >> /\ q.list = p.list /\ q.multiCount = p.multiCount
    BY <1>1, <2>3, <2>5 DEF Parse
  <2> HIDE DEF q
  <2>7. CASE ~hasNumber(content)
    <3> DEFINE t == [q EXCEPT !.threw = TRUE]
    <3>1. e = [p |-> t, again |-> FALSE] BY <1>3, <2>4, <2>7 DEF parseElement, content
    <3>2. t \in Parse /\ t.type = q.type /\ t.readPos = q.readPos BY <2>6 DEF Parse
    <3> HIDE DEF t, e
    <3>3. Shape(t) BY <2>6, <3>2 DEF Shape, OneString
    <3> QED BY <2>3, <2>6, <3>1, <3>2, <3>3
  <2>8. CASE hasNumber(content) /\ number(content) = -1
    <3>1. e = element(q, REDIS_MISSING) BY <1>3, <2>4, <2>8 DEF parseElement, content
    <3> HIDE DEF e
    <3>2. /\ Shape(e.p) /\ e.p.type = "multi_bulk_reply" /\ ~e.p.threw
          /\ e.p.readPos = q.readPos /\ e.again = ~e.p.done
      BY <2>6, <3>1, MissingType, ElementLemma
    <3>3. e.p.done \in BOOLEAN BY <3>2 DEF Shape, Parse
    <3> QED BY <2>3, <2>6, <3>2, <3>3
  <2>9. CASE hasNumber(content) /\ number(content) # -1
    <3> DEFINE len == number(content) + 2
               r == [q EXCEPT !.tempMaxLen = len]
               u == readLen(r, buf, len)
    <3>1. len \in Nat /\ 2 <= len
      <4>1. number(content) \in Nat BY <2>1, <2>9, NumberLemma
      <4> QED BY <4>1
    <3>2. e = IF hasLen(r, buf, r.tempMaxLen)
              THEN element(readLen(r, buf, r.tempMaxLen),
                           withoutCRLF(r, lenOf(r, buf, r.tempMaxLen)))
              ELSE [p |-> readLen(r, buf, r.tempMaxLen), again |-> FALSE]
      <4> DEFINE qq == [readLine(p, buf) EXCEPT !.tempMaxLen = 0]
                 rr == [qq EXCEPT !.tempMaxLen = number(content) + 2]
                 F(x) == IF hasLen(x, buf, x.tempMaxLen)
                         THEN element(readLen(x, buf, x.tempMaxLen),
                                      withoutCRLF(x, lenOf(x, buf, x.tempMaxLen)))
                         ELSE [p |-> readLen(x, buf, x.tempMaxLen), again |-> FALSE]
      <4>1. e = IF ~hasLine(p, buf) THEN [p |-> p, again |-> FALSE]
                ELSE IF ~hasNumber(content) THEN [p |-> [qq EXCEPT !.threw = TRUE], again |-> FALSE]
                ELSE IF number(content) = -1 THEN element(qq, REDIS_MISSING)
                ELSE F(rr)
        BY Zenon DEF parseElement, content
      <4>2. rr = r BY <2>4
      <4> HIDE DEF F, rr, qq, r, e
      <4>3. e = F(rr) BY <1>3, <2>9, <4>1
      <4>4. e = F(r) BY <4>2, <4>3
      <4> QED BY <4>4, Zenon DEF F
    <3> HIDE DEF len
    <3>3. /\ r \in Parse /\ r.type = q.type /\ r.readPos = q.readPos /\ ~r.threw /\ ~r.done
          /\ r.temp = << >> /\ r.list = q.list /\ r.tempMaxLen = len
      BY <2>6, <3>1 DEF Parse
    <3> HIDE DEF r, e
    <3>4. Len(r.temp) <= len /\ r.readPos <= Len(buf)
      <4>1. Len(r.temp) = 0 BY <3>3
      <4> QED BY <2>3, <2>6, <3>1, <3>3, <4>1
    <3>5. /\ u \in Parse
          /\ u.type = r.type /\ u.list = r.list /\ u.done = r.done /\ u.threw = r.threw
          /\ u.readPos <= Len(buf)
          /\ hasLen(r, buf, len) => /\ lenOf(r, buf, len) \in Seq(ReplyChars)
                                    /\ Len(lenOf(r, buf, len)) = len
      BY <3>1, <3>3, <3>4, ReadLenLemma
    <3> HIDE DEF u
    <3>6. CASE hasLen(r, buf, len)
      <4> DEFINE text == withoutCRLF(r, lenOf(r, buf, len))
      <4>1. text \in Seq(Elem) BY <3>1, <3>3, <3>5, <3>6, WithoutType
      <4>2. e = element(u, text) BY <3>2, <3>3, <3>6 DEF u
      <4> HIDE DEF text
      <4>3. /\ Shape(e.p) /\ e.p.type = "multi_bulk_reply" /\ ~e.p.threw
            /\ e.p.readPos = u.readPos /\ e.again = ~e.p.done
        BY <2>6, <3>3, <3>5, <4>1, <4>2, ElementLemma
      <4>4. e.p.done \in BOOLEAN BY <4>3 DEF Shape, Parse
      <4> QED BY <3>5, <4>3, <4>4
    <3>7. CASE ~hasLen(r, buf, len)
      <4>1. e = [p |-> u, again |-> FALSE] BY <3>2, <3>3, <3>7 DEF u
      <4>2. Shape(u) BY <2>6, <3>3, <3>5 DEF Shape, OneString
      <4> QED BY <2>6, <3>3, <3>5, <4>1, <4>2
    <3> QED BY <3>6, <3>7
  <2> QED BY <2>7, <2>8, <2>9
<1> QED BY <1>2, <1>3
-----------------------------------------------------------------------------
(* RedisBlock *)

(* A receive buffer none of whose bytes was read. *)
Fresh(b) == b \in Buffer(ReplyChars) /\ InBounds(b) /\ b.readPos = 0

(* A parse that keeps everything of p but temp. *)
Keeps(r, p) ==
  /\ r \in Parse
  /\ r.type = p.type /\ r.list = p.list /\ r.done = p.done /\ r.threw = p.threw
  /\ r.tempMaxLen = p.tempMaxLen /\ r.multiCount = p.multiCount /\ r.readPos = p.readPos

(* n characters leave the buffer for temp or, after those of temp, for the caller. *)
LEMMA TakeLemma ==
  ASSUME NEW p \in Parse, NEW buf, Fresh(buf), NEW n \in Nat, n <= length(buf),
         NEW ok \in BOOLEAN
  PROVE  LET w == take(p, buf, n, ok) IN
         /\ w.ok = ok
         /\ w.text \in Seq(ReplyChars) /\ Len(w.text) = Len(p.temp) + n
         /\ Fresh(w.buf)
         /\ Keeps(w.p, p)
         /\ w.p.temp = IF ok THEN << >> ELSE w.text
<1> DEFINE text == p.temp \o peek(buf, n)
           new == IF ok THEN << >> ELSE text
           r == [p EXCEPT !.temp = new]
           c == clearReadBuffer(readData(buf, n))
           w == take(p, buf, n, ok)
<1>1. w = [ok |-> ok, text |-> text, p |-> r, buf |-> c] BY DEF take
<1>2. canRead(buf, n)
  <2>1. length(buf) \in Nat BY LenProperties DEF Fresh, Buffer, length
  <2> QED BY <2>1 DEF canRead, needReadLength, Fresh
<1>3. buf \in Buffer(ReplyChars) /\ InBounds(buf) BY DEF Fresh
<1>4. peek(buf, n) \in Seq(ReplyChars) /\ Len(peek(buf, n)) = n BY <1>2, <1>3, PeekLemma
<1>5. p.temp \in Seq(ReplyChars) BY DEF Parse
<1>6. text \in Seq(ReplyChars) /\ Len(text) = Len(p.temp) + n BY <1>4, <1>5, ConcatProperties
<1>7. c \in Buffer(ReplyChars) /\ InBounds(c) /\ c.readPos = 0 BY <1>2, <1>3, ConsumeLemma
<1> HIDE DEF text, c
<1>8. new \in Seq(ReplyChars) BY <1>6, EmptySeq
<1>9. r.temp = new
  <2> HIDE DEF new
  <2> QED BY DEF Parse
<1>10. Keeps(r, p)
  <2> HIDE DEF new
  <2> QED BY <1>8 DEF Parse, Keeps
<1> HIDE DEF r, w
<1>11. Fresh(c) BY <1>7 DEF Fresh
<1> QED BY <1>1, <1>6, <1>9, <1>10, <1>11 DEF w

(* Everything in a fresh buffer is left to read. *)
LEMMA FreshUnread ==
  ASSUME NEW buf, Fresh(buf)
  PROVE  /\ unread(buf) \in Seq(ReplyChars)
         /\ Len(unread(buf)) = length(buf) /\ needReadLength(buf) = length(buf)
         /\ length(buf) \in Nat
<1>1. length(buf) \in Nat BY LenProperties DEF Fresh, Buffer, length
<1>2. needReadLength(buf) = length(buf) BY <1>1 DEF needReadLength, Fresh
<1>3. unread(buf) \in Seq(ReplyChars) /\ Len(unread(buf)) = needReadLength(buf)
  BY UnreadLemma DEF Fresh
<1> QED BY <1>1, <1>2, <1>3

(* readline (redisblock.cpp:311). *)
LEMMA TakeLineLemma ==
  ASSUME NEW p \in Parse, p.readPos = 0, NEW buf, Fresh(buf)
  PROVE  LET w == takeLine(p, buf) IN
         /\ w.ok \in BOOLEAN
         /\ w.text \in Seq(ReplyChars)
         /\ Fresh(w.buf)
         /\ Keeps(w.p, p)
         /\ w.ok => w.p.temp = << >>
<1> DEFINE ok == hasLine(p, unread(buf))
           n == IF ok THEN lineLen(p, unread(buf)) ELSE needReadLength(buf)
           v == take(p, buf, n, ok)
           w == takeLine(p, buf)
<1>1. /\ unread(buf) \in Seq(ReplyChars)
      /\ Len(unread(buf)) = length(buf) /\ needReadLength(buf) = length(buf)
      /\ length(buf) \in Nat
  BY FreshUnread
<1>2. p.readPos \in Nat /\ p.readPos <= Len(unread(buf)) /\ p.temp \in Seq(ReplyChars)
  BY <1>1 DEF Parse
<1>3. Len(rest(p, unread(buf))) = length(buf) BY <1>1, <1>2, RestLemma
<1>4. n \in Nat /\ n <= length(buf)
  <2>1. CASE ok
    <3>1. lineLen(p, unread(buf)) \in 1..Len(rest(p, unread(buf))) BY <1>1, <1>2, <2>1, LineLemma
    <3> QED BY <1>1, <1>3, <2>1, <3>1
  <2>2. CASE ~ok BY <1>1, <2>2
  <2> QED BY <2>1, <2>2
<1>5. ok \in BOOLEAN BY DEF hasLine
<1>6. w = [v EXCEPT !.text = rtrim(@)] BY DEF takeLine
<1>7. \E x, t, b : v = [ok |-> ok, text |-> t, p |-> x, buf |-> b] BY DEF take
<1> HIDE DEF n, ok
<1>8. /\ v.ok = ok
      /\ v.text \in Seq(ReplyChars)
      /\ Fresh(v.buf)
      /\ Keeps(v.p, p)
      /\ v.p.temp = IF ok THEN << >> ELSE v.text
  BY <1>4, <1>5, TakeLemma
<1>9. rtrim(v.text) \in Seq(ReplyChars) BY <1>8, RtrimType
<1> HIDE DEF v, w
<1>10. w.ok = v.ok /\ w.text = rtrim(v.text) /\ w.p = v.p /\ w.buf = v.buf BY <1>6, <1>7
<1> QED BY <1>5, <1>8, <1>9, <1>10 DEF w

(* readLen (redisblock.cpp:297). *)
LEMMA TakeLenLemma ==
  ASSUME NEW p \in Parse, NEW buf, Fresh(buf), Len(p.temp) <= p.tempMaxLen
  PROVE  LET w == takeLen(p, buf) IN
         /\ w.ok \in BOOLEAN
         /\ w.text \in Seq(ReplyChars)
         /\ Fresh(w.buf)
         /\ Keeps(w.p, p)
         /\ w.ok => Len(w.text) = p.tempMaxLen
         /\ ~w.ok => Len(w.p.temp) < p.tempMaxLen
<1> DEFINE x == Len(p.temp)
           m == need(p, p.tempMaxLen)
           ok == m <= needReadLength(buf)
           n == IF ok THEN m ELSE needReadLength(buf)
           w == takeLen(p, buf)
<1>1. needReadLength(buf) = length(buf) /\ length(buf) \in Nat BY FreshUnread
<1>2. x \in Nat /\ p.tempMaxLen \in Nat BY LenProperties DEF Parse
<1>3. m = p.tempMaxLen - x /\ m \in Nat BY <1>2 DEF need
<1>4. w = take(p, buf, n, ok) BY DEF takeLen
<1> HIDE DEF m, w
<1>5. n \in Nat /\ n <= length(buf) BY <1>1, <1>3
<1>6. ok \in BOOLEAN OBVIOUS
<1>7. (ok => n = m) /\ (~ok => n = length(buf) /\ length(buf) < m) BY <1>1, <1>3
<1> HIDE DEF n, ok
<1>8. /\ w.ok = ok
      /\ w.text \in Seq(ReplyChars) /\ Len(w.text) = x + n
      /\ Fresh(w.buf)
      /\ Keeps(w.p, p)
      /\ w.p.temp = IF ok THEN << >> ELSE w.text
  BY <1>4, <1>5, <1>6, TakeLemma
<1> HIDE DEF x
<1>9. ok => Len(w.text) = p.tempMaxLen BY <1>2, <1>3, <1>7, <1>8
<1>10. ~ok => Len(w.p.temp) < p.tempMaxLen BY <1>1, <1>2, <1>3, <1>5, <1>7, <1>8
<1> QED BY <1>6, <1>8, <1>9, <1>10 DEF w

(* A bulk adds its length to m_recvSize (redisblock.cpp:250). *)
LEMMA RecvBulkLemma ==
  ASSUME NEW p, Shape(p), p.type = "bulk_reply", ~p.done, ~p.threw,
         NEW buf, Fresh(buf), NEW size \in Nat, Sized(p, size)
  PROVE  LET w == recvBulk(p, buf, size) IN
         /\ Shape(w.p) /\ ~w.p.threw /\ w.p.readPos = p.readPos
         /\ Fresh(w.buf)
         /\ w.size \in Nat /\ Sized(w.p, w.size)
<1> DEFINE v == takeLen(p, buf)
           text == withoutCRLF(p, v.text)
           w == recvBulk(p, buf, size)
<1>1. /\ p \in Parse /\ p.list = << >> /\ 2 <= p.tempMaxLen /\ Len(p.temp) < p.tempMaxLen
      /\ Len(p.temp) \in Nat /\ p.tempMaxLen \in Nat
  BY LenProperties DEF Shape, Parse
<1>2. Len(p.temp) <= p.tempMaxLen BY <1>1
<1>3. /\ v.ok \in BOOLEAN
      /\ v.text \in Seq(ReplyChars)
      /\ Fresh(v.buf)
      /\ Keeps(v.p, p)
      /\ v.ok => Len(v.text) = p.tempMaxLen
      /\ ~v.ok => Len(v.p.temp) < p.tempMaxLen
  BY <1>1, <1>2, TakeLenLemma
<1>4. size = PodSize BY DEF Sized, PodSize
<1>5. CASE v.ok
  <2>1. w = [p |-> finish(v.p, text), buf |-> v.buf, size |-> size + Len(text)]
    BY <1>5 DEF recvBulk
  <2>2. text \in Seq(Elem) BY <1>1, <1>3, <1>5, WithoutType
  <2>3. Len(text) \in Nat BY <2>2, LenProperties
  <2> DEFINE f == finish(v.p, text)
  <2> HIDE DEF v, text, w
  <2>4. /\ f \in Parse /\ f.done /\ f.threw = v.p.threw
        /\ Len(f.list) = 1 /\ f.list[1] = text
        /\ f.type = v.p.type /\ f.readPos = v.p.readPos
    BY <1>1, <1>3, <2>2, FinishLemma DEF Keeps
  <2> HIDE DEF f
  <2>5. f.type = "bulk_reply" /\ ~f.threw /\ f.readPos = p.readPos BY <1>3, <2>4 DEF Keeps
  <2>6. Shape(f) BY <2>4, <2>5 DEF Shape, OneString
  <2>7. Sized(f, size + Len(text)) BY <1>4, <2>4, <2>5 DEF Sized
  <2>8. size + Len(text) \in Nat BY <2>3
  <2> QED BY <1>3, <2>1, <2>5, <2>6, <2>7, <2>8 DEF w, f
<1>6. CASE ~v.ok
  <2>1. w = [p |-> v.p, buf |-> v.buf, size |-> size] BY <1>6 DEF recvBulk
  <2> HIDE DEF v, w
  <2>2. Shape(v.p) BY <1>1, <1>3, <1>6 DEF Keeps, Shape, OneString
  <2>3. Sized(v.p, size) BY <1>3, <1>4 DEF Keeps, Sized, PodSize
  <2>4. ~v.p.threw /\ v.p.readPos = p.readPos BY <1>3 DEF Keeps
  <2> QED BY <1>3, <2>1, <2>2, <2>3, <2>4 DEF w
<1> QED BY <1>3, <1>5, <1>6


(* One more string adds its length and a pod. *)
LEMMA SumsAppend ==
  ASSUME NEW list \in Seq(Seq(Elem)), NEW s, Sums(s, list), NEW text \in Seq(Elem)
  PROVE  \E s2 : /\ Sums(s2, Append(list, text))
                 /\ s2[Len(Append(list, text))] = s[Len(list)] + PodSize + Len(text)
                 /\ s[Len(list)] \in Nat
<1> DEFINE N == Len(list)
           T == Seq(Elem)
           l == Append(list, text)
           v == s[N] + PodSize + Len(text)
           s2 == [k \in 0..(N + 1) |-> IF k = N + 1 THEN v ELSE s[k]]
<1>1. N \in Nat /\ PodSize = 4 /\ Len(text) \in Nat BY LenProperties DEF PodSize
<1>2. list \in Seq(T) /\ text \in T OBVIOUS
<1> HIDE DEF T
<1>3. /\ Len(l) = N + 1 /\ l[N + 1] = text
      /\ \A k \in 1..N : l[k] = list[k]
  BY <1>2, AppendProperties
<1>4. /\ s \in [0..N -> Nat] /\ s[0] = 0
      /\ \A k \in 1..N : s[k] = s[k - 1] + PodSize + Len(list[k])
  BY DEF Sums
<1> HIDE DEF N, l
<1>5. N \in 0..N /\ s[N] \in Nat BY <1>1, <1>4
<1>6. v \in Nat BY <1>1, <1>5
<1> HIDE DEF v
<1>7. s2 \in [0..(N + 1) -> Nat] BY <1>1, <1>4, <1>6
<1>8. s2[N + 1] = v BY <1>1
<1>9. \A k \in 0..N : s2[k] = s[k] BY <1>1
<1> HIDE DEF s2
<1>10. s2[0] = 0 BY <1>1, <1>4, <1>9
<1>11. ASSUME NEW k \in 1..(N + 1) PROVE s2[k] = s2[k - 1] + PodSize + Len(l[k])
  <2>1. CASE k = N + 1
    <3>1. k - 1 = N /\ N \in 0..N BY <1>1, <2>1
    <3> QED BY <1>3, <1>8, <1>9, <2>1, <3>1 DEF v
  <2>2. CASE k # N + 1
    <3>1. k \in 1..N /\ k \in 0..N /\ k - 1 \in 0..N BY <1>1, <2>2
    <3> QED BY <1>3, <1>4, <1>9, <3>1
  <2> QED BY <2>1, <2>2
<1>12. Sums(s2, l) BY <1>3, <1>7, <1>10, <1>11 DEF Sums
<1> QED BY <1>3, <1>5, <1>8, <1>12 DEF v, l, N

(* An element adds its length and a pod (redisblock.cpp:262). *)
LEMMA RecvElementLemma ==
  ASSUME NEW p, Shape(p), p.type = "multi_bulk_reply", ~p.done, ~p.threw, p.readPos = 0,
         NEW buf, Fresh(buf), NEW size \in Nat, Sized(p, size)
  PROVE  LET e == recvElement(p, buf, size) IN
         /\ Shape(e.p) /\ e.p.type = "multi_bulk_reply" /\ e.p.readPos = 0
         /\ Fresh(e.buf)
         /\ e.size \in Nat
         /\ e.again \in BOOLEAN
         /\ e.again => ~e.p.done /\ ~e.p.threw
         /\ ~e.p.threw => Sized(e.p, e.size)
<1> DEFINE line == takeLine(p, buf)
           n == number(line.text)
           q == [line.p EXCEPT !.tempMaxLen = IF n = -1 THEN 0 ELSE n + 2]
           w == takeLen(q, line.buf)
           e == recvElement(p, buf, size)
           Good(x) == /\ Shape(x.p) /\ x.p.type = "multi_bulk_reply" /\ x.p.readPos = 0
                      /\ Fresh(x.buf)
                      /\ x.size \in Nat
                      /\ x.again \in BOOLEAN
                      /\ x.again => ~x.p.done /\ ~x.p.threw
                      /\ ~x.p.threw => Sized(x.p, x.size)
           Add(r, b, text) == [p |-> element(r, text).p, again |-> element(r, text).again,
                               buf |-> b, size |-> size + elementSize(text)]
           Stop(r, b)      == [p |-> r, again |-> FALSE, buf |-> b, size |-> size]
           thrown == [line.p EXCEPT !.tempMaxLen = 0, !.threw = TRUE]
<1> SUFFICES Good(e) OBVIOUS
<1>1. /\ ~line.ok => e = Stop(line.p, line.buf)
      /\ line.ok /\ ~hasNumber(line.text) => e = Stop(thrown, line.buf)
      /\ line.ok /\ hasNumber(line.text) /\ q.tempMaxLen = 0
           => e = Add(q, line.buf, REDIS_MISSING)
      /\ line.ok /\ hasNumber(line.text) /\ q.tempMaxLen # 0
           => e = IF w.ok THEN Add(w.p, w.buf, withoutCRLF(q, w.text)) ELSE Stop(w.p, w.buf)
  BY DEF recvElement
<1>2. p \in Parse BY DEF Shape
<1>3. /\ line.ok \in BOOLEAN
      /\ line.text \in Seq(ReplyChars)
      /\ Fresh(line.buf)
      /\ Keeps(line.p, p)
      /\ line.ok => line.p.temp = << >>
  BY <1>2, TakeLineLemma
<1>4. PICK s : Sums(s, p.list) /\ size = 2 * PodSize + s[Len(p.list)] BY DEF Sized
(* The two ends of an iteration. *)
<1>5. ASSUME NEW r, NEW b, r \in Parse, r.type = "multi_bulk_reply", r.readPos = 0, Fresh(b),
             r.list = p.list
      PROVE  Good(Stop(r, b))
  <2>1. Shape(r) BY <1>5 DEF Shape, OneString
  <2>2. Sized(r, size) BY <1>4, <1>5 DEF Sized
  <2> QED BY <1>5, <2>1, <2>2
<1>6. ASSUME NEW r, NEW b, NEW text \in Seq(Elem),
             r \in Parse, r.type = "multi_bulk_reply", r.readPos = 0, Fresh(b), ~r.threw,
             r.list = p.list
      PROVE  Good(Add(r, b, text))
  <2> DEFINE a == element(r, text)
             l == Append(p.list, text)
             z == size + elementSize(text)
  <2>1. /\ Shape(a.p) /\ a.p.type = "multi_bulk_reply" /\ ~a.p.threw
        /\ a.p.list = l /\ a.p.readPos = 0
        /\ a.again = ~a.p.done
    BY <1>6, ElementLemma
  <2>2. a.p.done \in BOOLEAN BY <2>1 DEF Shape, Parse
  <2>3. p.list \in Seq(Seq(Elem)) BY <1>2 DEF Parse
  <2>4. PICK s2 : /\ Sums(s2, l)
                  /\ s2[Len(l)] = s[Len(p.list)] + PodSize + Len(text)
                  /\ s[Len(p.list)] \in Nat
    BY <1>4, <1>6, <2>3, SumsAppend
  <2>5. Len(text) \in Nat BY <1>6, LenProperties
  <2> HIDE DEF a, l
  <2>6. z = 2 * PodSize + s2[Len(l)] /\ z \in Nat
    <3> DEFINE x == s[Len(p.list)]
               y == s2[Len(l)]
               t == Len(text)
    <3>1. size = 2 * 4 + x /\ y = x + 4 + t /\ x \in Nat /\ t \in Nat
      BY <1>4, <2>4, <2>5 DEF PodSize
    <3>2. z = size + (4 + t) BY DEF elementSize, PodSize
    <3> HIDE DEF x, y, t, z
    <3>3. z = 2 * 4 + y /\ z \in Nat BY <3>1, <3>2
    <3> QED BY <3>3 DEF y, PodSize
  <2> HIDE DEF z
  <2>7. Sized(a.p, z) BY <2>1, <2>4, <2>6 DEF Sized
  <2>8. Add(r, b, text) = [p |-> a.p, again |-> a.again, buf |-> b, size |-> z] BY DEF a, z
  <2> DEFINE g == Add(r, b, text)
  <2>9. g.p = a.p /\ g.again = a.again /\ g.buf = b /\ g.size = z BY <2>8
  <2> HIDE DEF g, Add
  <2>10. Good(g) BY <1>6, <2>1, <2>2, <2>6, <2>7, <2>9
  <2> QED BY <2>10 DEF g
<1> HIDE DEF line, e, Good
<1>7. CASE ~line.ok
  <2>1. /\ line.p \in Parse /\ line.p.type = "multi_bulk_reply" /\ line.p.readPos = 0
        /\ line.p.list = p.list
    BY <1>3 DEF Keeps
  <2>2. Good(Stop(line.p, line.buf)) BY <1>3, <1>5, <2>1
  <2> HIDE DEF Stop
  <2> QED BY <1>1, <1>7, <2>2
<1>8. CASE line.ok /\ ~hasNumber(line.text)
  <2>1. /\ thrown \in Parse /\ thrown.type = "multi_bulk_reply" /\ thrown.readPos = 0
        /\ thrown.list = p.list
    BY <1>3 DEF Keeps, Parse
  <2> HIDE DEF thrown
  <2>2. Good(Stop(thrown, line.buf)) BY <1>3, <1>5, <2>1
  <2> HIDE DEF Stop
  <2> QED BY <1>1, <1>8, <2>2
<1>9. CASE line.ok /\ hasNumber(line.text)
  <2> DEFINE m == IF n = -1 THEN 0 ELSE n + 2
  <2>1. m \in Nat /\ (m = 0 \/ 2 <= m)
    <3>1. n \in Int /\ (n # -1 => n \in Nat) BY <1>3, <1>9, NumberLemma
    <3> HIDE DEF n
    <3> QED BY <3>1
  <2> HIDE DEF m
  <2>2. /\ q \in Parse /\ q.type = "multi_bulk_reply" /\ q.readPos = 0 /\ ~q.threw
        /\ q.list = p.list /\ q.tempMaxLen = m /\ q.temp = << >>
    <3>1. q = [line.p EXCEPT !.tempMaxLen = m] BY DEF m
    <3> HIDE DEF q
    <3> QED BY <1>3, <1>9, <2>1, <3>1 DEF Keeps, Parse
  <2> HIDE DEF q
  <2>3. CASE m = 0
    <3>1. Good(Add(q, line.buf, REDIS_MISSING)) BY <1>3, <1>6, <2>2, MissingType
    <3> HIDE DEF Add
    <3> QED BY <1>1, <1>9, <2>2, <2>3, <3>1
  <2>4. CASE m # 0
    <3>1. Len(q.temp) <= q.tempMaxLen
      <4>1. Len(q.temp) = 0 BY <2>2
      <4> QED BY <2>1, <2>2, <4>1
    <3>2. /\ w.ok \in BOOLEAN
          /\ w.text \in Seq(ReplyChars)
          /\ Fresh(w.buf)
          /\ Keeps(w.p, q)
          /\ w.ok => Len(w.text) = q.tempMaxLen
      BY <1>3, <2>2, <3>1, TakeLenLemma
    <3> HIDE DEF w
    <3>3. /\ w.p \in Parse /\ w.p.type = "multi_bulk_reply" /\ w.p.readPos = 0
          /\ ~w.p.threw /\ w.p.list = p.list
      BY <2>2, <3>2 DEF Keeps
    <3>4. CASE w.ok
      <4>1. withoutCRLF(q, w.text) \in Seq(Elem) BY <2>1, <2>2, <2>4, <3>2, <3>4, WithoutType
      <4>2. Good(Add(w.p, w.buf, withoutCRLF(q, w.text))) BY <1>6, <3>2, <3>3, <4>1
      <4> HIDE DEF Add, Stop
      <4> QED BY <1>1, <1>9, <2>2, <2>4, <3>4, <4>2
    <3>5. CASE ~w.ok
      <4>1. Good(Stop(w.p, w.buf)) BY <1>5, <3>2, <3>3
      <4> HIDE DEF Add, Stop
      <4> QED BY <1>1, <1>9, <2>2, <2>4, <3>5, <4>1
    <3> QED BY <3>2, <3>4, <3>5
  <2> QED BY <2>3, <2>4
<1> QED BY <1>3, <1>7, <1>8, <1>9
-----------------------------------------------------------------------------
(* makeRedisBuffer *)

(* A pod is four bytes. *)
LEMMA PodLemma ==
  ASSUME NEW S, NEW v, <<"pod", v>> \in S
  PROVE  pod(v) \in Seq(S) /\ Len(pod(v)) = PodSize
<1> DEFINE c == <<"pod", v>>
           n == PodSize
           b == [i \in 1..n |-> c]
<1>1. pod(v) = b BY DEF pod
<1>2. c \in S /\ n \in Nat BY DEF PodSize
<1> HIDE DEF c, n
<1>3. b \in [1..n -> S] BY <1>2
<1> HIDE DEF b
<1>4. b \in Seq(S) /\ Len(b) = n BY <1>2, <1>3
<1> QED BY <1>1, <1>4 DEF n

(* tailData allocates nothing for bytes that fit (net_buffer.cpp:81). *)
LEMMA FitLemma ==
  ASSUME NEW S, NEW b \in Buffer(S), NEW bytes \in Seq(S), ~b.lock,
         length(b) + Len(bytes) <= b.maxLen
  PROVE  LET t == tailData(b, bytes) IN
         /\ t \in Buffer(S) /\ ~t.lock
         /\ t.maxLen = b.maxLen /\ length(t) = length(b) + Len(bytes)
<1>1. length(b) \in Nat /\ Len(bytes) \in Nat /\ b.maxLen \in Nat
  BY LenProperties DEF Buffer, length
<1> DEFINE n == length(b) + Len(bytes)
<1>2. ~(n > b.maxLen) BY <1>1
<1> HIDE DEF n
<1>3. resize(b, n) = b BY <1>2 DEF resize
<1>4. tailData(b, bytes) = tail(b, bytes) BY <1>3 DEF tailData, n
<1>5. /\ tail(b, bytes) \in Buffer(S)
      /\ tail(b, bytes).maxLen = b.maxLen /\ tail(b, bytes).lock = b.lock
      /\ length(tail(b, bytes)) = length(b) + Len(bytes)
  BY TailLemma
<1> QED BY <1>4, <1>5

(* What the strings of a list take up. *)
LEMMA StringsLemma ==
  ASSUME NEW S, Elem \subseteq S, \A n \in Nat : <<"pod", n>> \in S,
         NEW list \in Seq(Seq(Elem)), NEW s, Sums(s, list)
  PROVE  /\ strings(list)[Len(list)] \in Seq(S)
         /\ Len(strings(list)[Len(list)]) = PodSize + s[Len(list)]
<1> DEFINE N == Len(list)
           c == pod(N)
           e == [k \in 1..N |-> pod(Len(list[k])) \o list[k]]
           Is(g) == g = [k \in 0..N |-> IF k = 0 THEN c
                                        ELSE g[k - 1] \o (pod(Len(list[k])) \o list[k])]
<1>1. N \in Nat BY LenProperties
<1>2. c \in Seq(S) /\ Len(c) = PodSize BY <1>1, PodLemma
<1>3. ASSUME NEW k \in 1..N
      PROVE  /\ e[k] \in Seq(S) /\ Len(e[k]) = PodSize + Len(list[k])
             /\ Len(list[k]) \in Nat
  <2> DEFINE T == Seq(Elem)
             t == list[k]
  <2>1. t \in T
    <3>1. list \in Seq(T) OBVIOUS
    <3> HIDE DEF T
    <3> QED BY <3>1, ElementOfSeq
  <2>2. e[k] = pod(Len(t)) \o t OBVIOUS
  <2> HIDE DEF t, e
  <2>3. Len(t) \in Nat /\ t \in Seq(S) BY <2>1, LenProperties, SeqMonotonic
  <2>4. pod(Len(t)) \in Seq(S) /\ Len(pod(Len(t))) = PodSize BY <2>3, PodLemma
  <2>5. pod(Len(t)) \o t \in Seq(S) /\ Len(pod(Len(t)) \o t) = PodSize + Len(t)
    BY <2>3, <2>4, ConcatProperties
  <2> QED BY <2>2, <2>3, <2>5 DEF t
<1>4. Pieces(e, S, N) BY <1>3 DEF Pieces
<1>5. \A k \in 1..N : e[k] = pod(Len(list[k])) \o list[k] OBVIOUS
<1> HIDE DEF N, c, e
<1>6. \A g : Is(g) <=> Concat(g, c, e, N)
  <2>1. \A k \in 0..N : k = 0 \/ k \in 1..N BY <1>1
  <2> QED BY <1>5, <2>1 DEF Concat
<1>7. PICK g : Concat(g, c, e, N) BY <1>1, <1>2, <1>4, ConcatExists
<1> DEFINE w == CHOOSE x : Is(x)
<1>8. strings(list) = w BY DEF strings, N, c
<1>9. Concat(w, c, e, N) BY <1>6, <1>7
<1> HIDE DEF w
<1>10. /\ w[0] = c
       /\ \A k \in 1..N : w[k] = w[k - 1] \o e[k]
       /\ \A k \in 0..N : w[k] \in Seq(S)
  BY <1>1, <1>2, <1>4, <1>9, ConcatLemma, Zenon
<1>11. /\ s \in [0..N -> Nat] /\ s[0] = 0
       /\ \A k \in 1..N : s[k] = s[k - 1] + PodSize + Len(list[k])
  BY DEF Sums, N
<1> DEFINE A == {k \in 0..N : Len(w[k]) = PodSize + s[k]}
<1>12. 0 \in A
  <2>1. 0 \in 0..N /\ PodSize + 0 = PodSize BY <1>1 DEF PodSize
  <2>2. Len(w[0]) = PodSize BY <1>2, <1>10
  <2>3. Len(w[0]) = PodSize + s[0] BY <1>11, <2>1, <2>2
  <2> QED BY <2>1, <2>3
<1>13. ASSUME NEW k \in 1..N, k - 1 \in A PROVE k \in A
  <2> DEFINE x == s[k - 1]
             y == Len(list[k])
             u == w[k - 1]
             v == e[k]
  <2>1. k \in 0..N /\ k - 1 \in 0..N BY <1>1
  <2>2. x \in Nat /\ s[k] = x + PodSize + y BY <1>11, <2>1
  <2>3. u \in Seq(S) /\ v \in Seq(S) /\ w[k] = u \o v BY <1>3, <1>10, <2>1
  <2>4. Len(u) = PodSize + x BY <1>13
  <2>5. Len(v) = PodSize + y /\ y \in Nat BY <1>3
  <2> HIDE DEF x, y, u, v, w
  <2>6. Len(w[k]) = Len(u) + Len(v) BY <2>3, ConcatProperties
  <2>7. Len(w[k]) = PodSize + s[k] BY <2>2, <2>4, <2>5, <2>6 DEF PodSize
  <2> QED BY <2>1, <2>7
<1> HIDE DEF A
<1>14. \A k \in 0..N : k \in A BY <1>1, <1>12, <1>13, IntervalInduction
<1>15. N \in 0..N BY <1>1
<1>16. Len(w[N]) = PodSize + s[N] BY <1>14, <1>15 DEF A
<1> QED BY <1>8, <1>10, <1>15, <1>16 DEF N

(* makeRedisBuffer fills the allocation (redisblock.cpp:115). *)
LEMMA MakeBufferLemma ==
  ASSUME NEW p, Shape(p), p.done, ~p.threw, NEW size \in Nat, Sized(p, size)
  PROVE  length(makeRedisBuffer(p, size)) = makeRedisBuffer(p, size).maxLen
<1> DEFINE v == toInt(p.list[1])
           S == Elem \cup {<<"pod", n>> : n \in Nat \cup {p.type, v}}
           content == CASE p.type = "no_reply"         -> << >>
                        [] p.type = "int_reply"        -> pod(toInt(p.list[1]))
                        [] p.type = "multi_bulk_reply" -> strings(p.list)[Len(p.list)]
                        [] OTHER                       -> p.list[1]
           b == NewBuffer(IF size = 0 THEN 1 ELSE size)
           c == tailData(b, pod(p.type))
           d == tailData(c, content)
<1>1. makeRedisBuffer(p, size) = d BY DEF makeRedisBuffer
<1>2. Elem \subseteq S OBVIOUS
<1>3. \A n \in Nat \cup {p.type, v} : <<"pod", n>> \in S OBVIOUS
<1>4. p.list \in Seq(Seq(Elem)) /\ p.type \in Kinds BY DEF Shape, Parse
<1>5. PodSize = 4 BY DEF PodSize
<1> HIDE DEF S
<1>6. content \in Seq(S) /\ size = PodSize + Len(content)
  <2>1. CASE p.type = "no_reply"
    <3>1. content = << >> BY <2>1
    <3>2. size = PodSize BY <2>1 DEF Sized
    <3>3. << >> \in Seq(S) /\ Len(<< >>) = 0 BY EmptySeq
    <3> HIDE DEF content
    <3> QED BY <1>5, <3>1, <3>2, <3>3
  <2>2. CASE p.type = "int_reply"
    <3>1. content = pod(v) BY <2>2
    <3>2. size = 2 * PodSize BY <2>2 DEF Sized
    <3> HIDE DEF content, v
    <3>3. pod(v) \in Seq(S) /\ Len(pod(v)) = PodSize BY <1>3, PodLemma
    <3> QED BY <1>5, <3>1, <3>2, <3>3
  <2>3. CASE p.type = "multi_bulk_reply"
    <3>1. content = strings(p.list)[Len(p.list)] BY <2>3
    <3>2. PICK s : Sums(s, p.list) /\ size = 2 * PodSize + s[Len(p.list)] BY <2>3 DEF Sized
    <3> HIDE DEF content
    <3>3. content \in Seq(S) /\ Len(content) = PodSize + s[Len(p.list)]
      BY <1>2, <1>3, <1>4, <3>1, <3>2, StringsLemma
    <3>4. Len(content) \in Nat BY <3>3, LenProperties
    <3>5. s[Len(p.list)] \in Nat
      <4>1. Len(p.list) \in Nat BY <1>4, LenProperties
      <4> QED BY <3>2, <4>1 DEF Sums
    <3> DEFINE x == s[Len(p.list)]
               y == Len(content)
    <3>6. size = 2 * 4 + x /\ y = 4 + x /\ x \in Nat BY <1>5, <3>2, <3>3, <3>5
    <3> HIDE DEF x, y
    <3>7. size = 4 + y BY <3>6
    <3> QED BY <1>5, <3>3, <3>7 DEF y
  <2>4. CASE p.type \in {"status_code_reply", "error_reply", "bulk_reply"}
    <3>1. content = p.list[1] BY <2>4
    <3>2. size = PodSize + Len(p.list[1]) BY <2>4 DEF Sized
    <3>3. Len(p.list) = 1 BY <2>4 DEF Shape, OneString
    <3>4. p.list[1] \in Seq(Elem)
      <4> DEFINE T == Seq(Elem)
                 l == p.list
      <4>1. l \in Seq(T) /\ 1 \in 1..Len(l) BY <1>4, <3>3
      <4> HIDE DEF T, l
      <4>2. l[1] \in T BY <4>1, ElementOfSeq
      <4> QED BY <4>2 DEF T, l
    <3>5. p.list[1] \in Seq(S) BY <1>2, <3>4, SeqMonotonic
    <3> HIDE DEF content
    <3> QED BY <3>1, <3>2, <3>5
  <2> QED BY <1>4, <2>1, <2>2, <2>3, <2>4 DEF Kinds
<1> HIDE DEF content
<1>7. Len(content) \in Nat BY <1>6, LenProperties
<1>8. pod(p.type) \in Seq(S) /\ Len(pod(p.type)) = PodSize BY <1>3, PodLemma
<1>9. size # 0 BY <1>5, <1>6, <1>7
<1>10. b \in Buffer(S) /\ length(b) = 0 /\ b.maxLen = size /\ ~b.lock BY <1>9, NewBufferLemma
<1> HIDE DEF b
<1>11. length(b) + Len(pod(p.type)) <= b.maxLen BY <1>5, <1>6, <1>7, <1>8, <1>10
<1>12. /\ c \in Buffer(S) /\ ~c.lock
       /\ c.maxLen = b.maxLen /\ length(c) = length(b) + Len(pod(p.type))
  BY <1>8, <1>10, <1>11, FitLemma
<1> HIDE DEF c
<1>13. length(c) = 4 /\ length(c) + Len(content) <= c.maxLen
  BY <1>5, <1>6, <1>7, <1>8, <1>10, <1>12
<1>14. /\ d.maxLen = c.maxLen /\ length(d) = length(c) + Len(content)
  BY <1>6, <1>12, <1>13, FitLemma
<1> HIDE DEF d
<1> QED BY <1>1, <1>5, <1>6, <1>7, <1>10, <1>12, <1>13, <1>14
-----------------------------------------------------------------------------
(***************************************************************************)
(* The inductive invariant.                                                *)
(***************************************************************************)

(* What is read is a part of what the server wrote, and unread. *)
ReadInv ==
  /\ stream \in Seq(ReplyChars)
  /\ arrived \in 0..Len(stream)
  /\ Fresh(m_bufferRecv)
  /\ block \in {"RedisBlock", "RedisBlock2"}
  /\ pc \in {"read", "recv", "body", "end", "terminate"}

(* m_parse at the points between the steps. *)
ParseInv ==
  /\ Shape(m_parse)
  /\ m_parse.readPos <= length(m_bufferRecv)
  /\ pc \notin {"end", "terminate"} => ~m_parse.done
  /\ pc # "terminate" => ~m_parse.threw
  /\ pc \in {"read", "recv"} => m_parse.readPos = 0

(* RedisBlock consumes at once, and counts what it will write. *)
SizeInv ==
  /\ m_recvSize \in Nat
  /\ block = "RedisBlock" =>
       /\ m_parse.readPos = 0
       /\ pc # "terminate" => Sized(m_parse, m_recvSize)

DeliveredInv == (\E S : delivered \in Seq(S)) /\ BufferFilled

RedisInv == ReadInv /\ ParseInv /\ SizeInv /\ DeliveredInv

(* A block that has parsed nothing. *)
LEMMA NewParseLemma ==
  /\ Shape(NewParse) /\ NewParse.readPos = 0 /\ ~NewParse.done /\ ~NewParse.threw
  /\ \A size : Sized(NewParse, size)
<1> DEFINE e == << >>
           l == << >>
           p == [type |-> "no_reply", multiCount |-> 0, tempMaxLen |-> 0, temp |-> e,
                 list |-> l, done |-> FALSE, readPos |-> 0, threw |-> FALSE]
<1>1. NewParse = p BY DEF NewParse
<1>2. e \in Seq(ReplyChars) /\ l \in Seq(Seq(Elem)) BY EmptySeq
<1>3. l = << >> OBVIOUS
<1> HIDE DEF e, l
<1>4. /\ p \in Parse /\ p.type = "no_reply" /\ p.list = l /\ p.readPos = 0
      /\ p.done = FALSE /\ p.threw = FALSE
  BY <1>2 DEF Parse, Kinds
<1> HIDE DEF p
<1>5. Shape(p) BY <1>3, <1>4 DEF Shape, OneString
<1>6. \A size : Sized(p, size) BY <1>4 DEF Sized
<1> QED BY <1>1, <1>4, <1>5, <1>6

(* At the start nothing was read. *)
LEMMA InitRedis == Init => RedisInv
<1> SUFFICES ASSUME Init PROVE RedisInv OBVIOUS
<1>1. stream \in Seq(ReplyChars) BY StreamType DEF Init
<1>2. arrived \in 0..Len(stream)
  <2>1. Len(stream) \in Nat /\ arrived = 0 BY <1>1, LenProperties DEF Init
  <2> QED BY <2>1
<1>3. /\ Fresh(m_bufferRecv) /\ length(m_bufferRecv) = 0
  BY NewBufferLemma, RedisAssumption DEF Init, Fresh
<1>4. ReadInv BY <1>1, <1>2, <1>3 DEF ReadInv, Init
<1>5. ParseInv
  <2>1. m_parse = NewParse BY DEF Init
  <2>2. m_parse.readPos <= length(m_bufferRecv) BY <1>3, <2>1, NewParseLemma
  <2> QED BY <2>1, <2>2, NewParseLemma DEF ParseInv
<1>6. SizeInv BY NewParseLemma DEF SizeInv, Init
<1>7. DeliveredInv
  <2>1. delivered = << >> /\ Len(delivered) = 0 BY DEF Init
  <2>2. << >> \in Seq({}) BY EmptySeq
  <2>3. BufferFilled BY <2>1 DEF BufferFilled
  <2> QED BY <2>1, <2>2, <2>3 DEF DeliveredInv
<1> QED BY <1>4, <1>5, <1>6, <1>7 DEF RedisInv

(* A completed read. *)
LEMMA ReadSomeStep ==
  ASSUME RedisInv, ReadSome
  PROVE  RedisInv'
<1> USE DEF RedisInv
<1>1. PICK n \in 1..(m_bufferRecv.maxLen - length(m_bufferRecv)) :
        /\ arrived + n <= Len(stream)
        /\ m_bufferRecv' = writeData(m_bufferRecv, SubSeq(stream, arrived + 1, arrived + n))
        /\ arrived' = arrived + n
  BY DEF ReadSome
<1>2. /\ arrived \in Nat /\ Len(stream) \in Nat /\ length(m_bufferRecv) \in Nat
      /\ m_bufferRecv.maxLen \in Nat
  BY LenProperties DEF ReadInv, Fresh, Buffer, length
<1>3. n \in Nat BY <1>1, <1>2
<1> DEFINE s == SubSeq(stream, arrived + 1, arrived + n)
<1>4. s \in Seq(ReplyChars) BY <1>1, <1>2, <1>3, WindowLemma DEF ReadInv
<1> HIDE DEF s
<1>5. m_bufferRecv' = writeData(m_bufferRecv, s) BY <1>1 DEF s
<1> DEFINE w == writeData(m_bufferRecv, s)
<1>6. /\ w \in Buffer(ReplyChars) /\ InBounds(w) /\ w.readPos = m_bufferRecv.readPos
  BY <1>4, WriteDataLemma DEF ReadInv, Fresh
<1> HIDE DEF w
<1>7. Fresh(m_bufferRecv') BY <1>5, <1>6 DEF ReadInv, Fresh, w
<1>8. ReadInv'
  <2>1. arrived' \in 0..Len(stream) BY <1>1, <1>2, <1>3
  <2> QED BY <1>7, <2>1 DEF ReadInv, ReadSome
<1>9. ParseInv'
  <2>1. m_parse' = m_parse /\ pc = "read" /\ pc' = "recv" BY DEF ReadSome
  <2>2. length(m_bufferRecv)' \in Nat BY <1>7, FreshUnread
  <2>3. m_parse.readPos <= length(m_bufferRecv)' BY <2>1, <2>2 DEF ParseInv
  <2> QED BY <2>1, <2>3 DEF ParseInv
<1>10. SizeInv' BY DEF SizeInv, ReadSome
<1>11. DeliveredInv' BY DEF DeliveredInv, BufferFilled, ReadSome
<1> QED BY <1>8, <1>9, <1>10, <1>11

(* What the parser of RedisBlock2 works on. *)
LEMMA UnreadRecv ==
  ASSUME RedisInv
  PROVE  /\ unread(m_bufferRecv) \in Seq(ReplyChars)
         /\ Len(unread(m_bufferRecv)) = length(m_bufferRecv)
         /\ length(m_bufferRecv) \in Nat
         /\ m_parse.readPos <= Len(unread(m_bufferRecv))
<1>1. /\ unread(m_bufferRecv) \in Seq(ReplyChars)
      /\ Len(unread(m_bufferRecv)) = length(m_bufferRecv) /\ length(m_bufferRecv) \in Nat
  BY FreshUnread DEF RedisInv, ReadInv
<1> QED BY <1>1 DEF RedisInv, ParseInv

(* RedisBlock2: the first line. *)
LEMMA ParseTypeStep ==
  ASSUME RedisInv, ParseType
  PROVE  RedisInv'
<1> USE DEF RedisInv
<1> DEFINE buf == unread(m_bufferRecv)
           q == readLine(m_parse, buf)
           content == lineOf(m_parse, buf)
           p == parseType(q, content)
<1>1. /\ buf \in Seq(ReplyChars) /\ Len(buf) = length(m_bufferRecv)
      /\ m_parse.readPos <= Len(buf) /\ Len(buf) \in Nat
  BY UnreadRecv
<1>2. /\ block = "RedisBlock2" /\ pc = "recv" /\ m_parse.type = "no_reply"
      /\ UNCHANGED <<stream, arrived, block, m_bufferRecv, m_recvSize, delivered>>
      /\ \/ (~hasLine(m_parse, buf) /\ pc' = "end" /\ m_parse' = m_parse)
         \/ (hasLine(m_parse, buf) /\ m_parse' = p /\ pc' = AfterType(p))
  BY DEF ParseType, AtType, serverVars
<1>3. /\ Shape(m_parse) /\ ~m_parse.done /\ ~m_parse.threw
  BY <1>2 DEF ParseInv
<1>4. Shape(m_parse') /\ m_parse'.readPos <= Len(buf) /\ pc' \in {"end", "terminate", "body"}
      /\ (pc' = "body" => ~m_parse'.done) /\ (pc' # "terminate" => ~m_parse'.threw)
  <2>1. CASE ~hasLine(m_parse, buf) BY <1>1, <1>2, <1>3, <2>1
  <2>2. CASE hasLine(m_parse, buf)
    <3>1. m_parse \in Parse /\ m_parse.readPos \in Nat /\ m_parse.temp \in Seq(ReplyChars)
          /\ m_parse.list = << >>
      BY <1>2, <1>3 DEF Shape, Parse
    <3>2. lineLen(m_parse, buf) \in 1..Len(rest(m_parse, buf)) /\ content \in Seq(ReplyChars)
      BY <1>1, <2>2, <3>1, LineLemma
    <3>3. Len(rest(m_parse, buf)) = Len(buf) - m_parse.readPos BY <1>1, <3>1, RestLemma
    <3> DEFINE z == m_parse.readPos + lineLen(m_parse, buf)
    <3>4. z \in Nat /\ z <= Len(buf) BY <1>1, <3>1, <3>2, <3>3
    <3>5. q = [m_parse EXCEPT !.temp = << >>, !.readPos = z] BY DEF readLine
    <3>6. << >> \in Seq(ReplyChars) BY EmptySeq
    <3> HIDE DEF z, q, content, buf
    <3>7. /\ q \in Parse /\ q.type = "no_reply" /\ q.list = << >> /\ ~q.done /\ ~q.threw
          /\ q.temp = << >> /\ q.readPos = z
      BY <1>2, <1>3, <3>1, <3>4, <3>5, <3>6 DEF Parse
    <3>8. Shape(p) /\ p.readPos = z
      BY <3>2, <3>7, ParseTypeLemma
    <3> HIDE DEF p
    <3>9. m_parse' = p /\ pc' = AfterType(p) BY <1>2, <2>2
    <3> QED BY <3>4, <3>8, <3>9 DEF AfterType
  <2> QED BY <2>1, <2>2
<1>5. ReadInv' BY <1>2, <1>4 DEF ReadInv
<1>6. ParseInv' BY <1>1, <1>2, <1>4 DEF ParseInv
<1>7. SizeInv' BY <1>2 DEF SizeInv
<1>8. DeliveredInv' BY <1>2 DEF DeliveredInv, BufferFilled
<1> QED BY <1>5, <1>6, <1>7, <1>8

(* RedisBlock2: a bulk. *)
LEMMA ParseBulkStep ==
  ASSUME RedisInv, ParseBulk
  PROVE  RedisInv'
<1> USE DEF RedisInv
<1> DEFINE buf == unread(m_bufferRecv)
           w == parseBulk(m_parse, buf)
<1>1. /\ buf \in Seq(ReplyChars) /\ Len(buf) = length(m_bufferRecv)
      /\ m_parse.readPos <= Len(buf)
  BY UnreadRecv
<1>2. /\ block = "RedisBlock2" /\ pc \in {"recv", "body"} /\ m_parse.type = "bulk_reply"
      /\ UNCHANGED <<stream, arrived, block, m_bufferRecv, m_recvSize, delivered>>
      /\ m_parse' = w /\ pc' = "end"
  BY DEF ParseBulk, InBody, serverVars
<1>3. Shape(m_parse) /\ ~m_parse.done /\ ~m_parse.threw BY <1>2 DEF ParseInv
<1>4. Shape(w) /\ ~w.threw /\ w.readPos <= Len(buf) BY <1>1, <1>2, <1>3, ParseBulkLemma
<1> HIDE DEF w, buf
<1>5. ReadInv' BY <1>2 DEF ReadInv
<1>6. ParseInv' BY <1>1, <1>2, <1>4 DEF ParseInv
<1>7. SizeInv' BY <1>2 DEF SizeInv
<1>8. DeliveredInv' BY <1>2 DEF DeliveredInv, BufferFilled
<1> QED BY <1>5, <1>6, <1>7, <1>8

(* RedisBlock2: an element. *)
LEMMA ParseElementStep ==
  ASSUME RedisInv, ParseElement
  PROVE  RedisInv'
<1> USE DEF RedisInv
<1> DEFINE buf == unread(m_bufferRecv)
           e == parseElement(m_parse, buf)
<1>1. /\ buf \in Seq(ReplyChars) /\ Len(buf) = length(m_bufferRecv)
      /\ m_parse.readPos <= Len(buf)
  BY UnreadRecv
<1>2. /\ block = "RedisBlock2" /\ pc \in {"recv", "body"} /\ m_parse.type = "multi_bulk_reply"
      /\ UNCHANGED <<stream, arrived, block, m_bufferRecv, m_recvSize, delivered>>
      /\ m_parse' = e.p /\ pc' = AfterElement(e)
  BY DEF ParseElement, InBody, serverVars
<1>3. Shape(m_parse) /\ ~m_parse.done /\ ~m_parse.threw BY <1>2 DEF ParseInv
<1>4. /\ Shape(e.p) /\ e.p.readPos <= Len(buf)
      /\ e.again \in BOOLEAN /\ (e.again => ~e.p.done /\ ~e.p.threw)
  BY <1>1, <1>2, <1>3, ParseElementLemma
<1> HIDE DEF e, buf
<1>5. /\ pc' \in {"end", "terminate", "body"}
      /\ pc' = "body" => ~e.p.done /\ ~e.p.threw
      /\ pc' # "terminate" => ~e.p.threw
  BY <1>2, <1>4 DEF AfterElement
<1>6. ReadInv' BY <1>2, <1>5 DEF ReadInv
<1>7. ParseInv' BY <1>1, <1>2, <1>4, <1>5 DEF ParseInv
<1>8. SizeInv' BY <1>2 DEF SizeInv
<1>9. DeliveredInv' BY <1>2 DEF DeliveredInv, BufferFilled
<1> QED BY <1>6, <1>7, <1>8, <1>9


(* What is delivered is appended to what was. *)
LEMMA DeliverLemma ==
  ASSUME DeliveredInv, NEW d, delivered' = Append(delivered, d), block' = block,
         block = "RedisBlock" => length(d.data) = d.data.maxLen
  PROVE  DeliveredInv'
<1>1. PICK S : delivered \in Seq(S) BY DEF DeliveredInv
<1> DEFINE T == S \cup {d}
           N == Len(delivered)
<1>2. delivered \in Seq(T) /\ d \in T BY <1>1, SeqMonotonic
<1> HIDE DEF T
<1>3. N \in Nat BY <1>2, LenProperties
<1>4. /\ delivered' \in Seq(T) /\ Len(delivered') = N + 1 /\ delivered'[N + 1] = d
      /\ \A k \in 1..N : delivered'[k] = delivered[k]
  BY <1>2, AppendProperties
<1>5. ASSUME block = "RedisBlock", NEW k \in 1..(N + 1)
      PROVE  length(delivered'[k].data) = delivered'[k].data.maxLen
  <2>1. CASE k = N + 1 BY <1>4, <1>5, <2>1
  <2>2. CASE k # N + 1
    <3>1. k \in 1..N BY <1>3, <2>2
    <3> QED BY <1>4, <1>5, <3>1 DEF DeliveredInv, BufferFilled
  <2> QED BY <2>1, <2>2
<1>6. BufferFilled' BY <1>4, <1>5 DEF BufferFilled
<1> QED BY <1>4, <1>6 DEF DeliveredInv

(* RedisBlock2: what was parsed is consumed, and the block delivered if it is done. *)
LEMMA RecvDoneStep ==
  ASSUME RedisInv, RecvDone
  PROVE  RedisInv'
<1> USE DEF RedisInv
<1> DEFINE n == m_parse.readPos
           c == clearReadBuffer(readData(m_bufferRecv, n))
           r == [m_parse EXCEPT !.readPos = 0]
<1>1. /\ block = "RedisBlock2" /\ pc = "end"
      /\ UNCHANGED <<stream, arrived, block, m_recvSize>>
      /\ m_bufferRecv' = c
      /\ \/ /\ delivered' = Append(delivered, Delivery(NewBuffer(0)))
            /\ m_parse' = NewParse
            /\ pc' = "recv"
         \/ /\ ~m_parse.done
            /\ m_parse' = r
            /\ pc' = "read"
            /\ delivered' = delivered
  BY DEF RecvDone, serverVars
<1>2. Shape(m_parse) /\ m_parse \in Parse /\ ~m_parse.threw /\ n \in Nat
  BY <1>1 DEF ParseInv, Shape, Parse
<1>3. canRead(m_bufferRecv, n)
  <2>1. needReadLength(m_bufferRecv) = length(m_bufferRecv) BY FreshUnread DEF ReadInv
  <2> QED BY <2>1 DEF ParseInv, canRead
<1>4. c \in Buffer(ReplyChars) /\ InBounds(c) /\ c.readPos = 0
  BY <1>2, <1>3, ConsumeLemma DEF ReadInv, Fresh
<1> HIDE DEF c, n
<1>5. Fresh(m_bufferRecv') BY <1>1, <1>4 DEF Fresh
<1>6. length(m_bufferRecv)' \in Nat BY <1>5, FreshUnread
<1>7. Shape(r) /\ r.readPos = 0 /\ r.done = m_parse.done /\ r.threw = m_parse.threw
  <2>1. /\ r \in Parse /\ r.readPos = 0 /\ r.done = m_parse.done /\ r.threw = m_parse.threw
        /\ r.type = m_parse.type /\ r.list = m_parse.list /\ r.temp = m_parse.temp
        /\ r.tempMaxLen = m_parse.tempMaxLen
    BY <1>2 DEF Parse
  <2> HIDE DEF r
  <2> QED BY <1>2, <2>1 DEF Shape
<1> HIDE DEF r
<1>8. ReadInv' BY <1>1, <1>5 DEF ReadInv
<1>9. ParseInv'
  <2>1. Shape(m_parse') /\ m_parse'.readPos = 0 /\ ~m_parse'.done /\ ~m_parse'.threw
    BY <1>1, <1>2, <1>7, NewParseLemma
  <2>2. 0 <= length(m_bufferRecv)' BY <1>6
  <2> QED BY <2>1, <2>2 DEF ParseInv
<1>10. SizeInv' BY <1>1 DEF SizeInv
<1>11. DeliveredInv'
  <2>1. CASE delivered' = Append(delivered, Delivery(NewBuffer(0)))
    BY <1>1, <2>1, DeliverLemma
  <2>2. CASE delivered' = delivered BY <1>1, <2>2 DEF DeliveredInv, BufferFilled
  <2> QED BY <1>1, <2>1, <2>2
<1> QED BY <1>8, <1>9, <1>10, <1>11

(* RedisBlock: the first line. *)
LEMMA RecvTypeStep ==
  ASSUME RedisInv, RecvType
  PROVE  RedisInv'
<1> USE DEF RedisInv
<1> DEFINE w == takeLine(m_parse, m_bufferRecv)
           p == parseType(w.p, w.text)
<1>1. /\ block = "RedisBlock" /\ pc = "recv" /\ m_parse.type = "no_reply"
      /\ UNCHANGED <<stream, arrived, block, delivered>>
      /\ m_bufferRecv' = w.buf
      /\ \/ (~w.ok /\ m_parse' = w.p /\ pc' = "end" /\ m_recvSize' = m_recvSize)
         \/ (w.ok /\ m_parse' = p /\ m_recvSize' = lineSize(p) /\ pc' = AfterType(p))
  BY DEF RecvType, AtType, serverVars
<1>2. /\ Shape(m_parse) /\ m_parse \in Parse /\ ~m_parse.done /\ ~m_parse.threw
      /\ m_parse.readPos = 0 /\ m_parse.list = << >>
  BY <1>1 DEF ParseInv, Shape
<1>3. /\ w.ok \in BOOLEAN
      /\ w.text \in Seq(ReplyChars)
      /\ Fresh(w.buf)
      /\ Keeps(w.p, m_parse)
      /\ w.ok => w.p.temp = << >>
  BY <1>2, TakeLineLemma DEF ReadInv
<1>4. length(w.buf) \in Nat BY <1>3, FreshUnread
<1>5. /\ Shape(m_parse') /\ m_parse'.readPos = 0 /\ pc' \in {"end", "terminate", "body"}
      /\ (pc' = "body" => ~m_parse'.done) /\ (pc' # "terminate" => ~m_parse'.threw)
      /\ m_recvSize' \in Nat
      /\ (pc' # "terminate" => Sized(m_parse', m_recvSize'))
  <2>1. CASE ~w.ok
    <3> HIDE DEF w
    <3>1. /\ w.p \in Parse /\ w.p.type = "no_reply" /\ w.p.list = << >> /\ ~w.p.done
          /\ ~w.p.threw /\ w.p.readPos = 0
      BY <1>1, <1>2, <1>3 DEF Keeps
    <3>2. Shape(w.p) BY <3>1 DEF Shape, OneString
    <3>3. Sized(w.p, m_recvSize) BY <3>1 DEF Sized
    <3> QED BY <1>1, <2>1, <3>1, <3>2, <3>3 DEF SizeInv
  <2>2. CASE w.ok
    <3> HIDE DEF w
    <3>1. /\ w.p \in Parse /\ w.p.type = "no_reply" /\ w.p.list = << >> /\ ~w.p.done
          /\ ~w.p.threw /\ w.p.temp = << >> /\ w.p.readPos = 0
      BY <1>1, <1>2, <1>3, <2>2 DEF Keeps
    <3>2. /\ Shape(p)
          /\ p.readPos = w.p.readPos
          /\ lineSize(p) \in Nat
          /\ ~p.threw => Sized(p, lineSize(p))
      BY <1>3, <3>1, ParseTypeLemma
    <3> HIDE DEF p
    <3>3. m_parse' = p /\ m_recvSize' = lineSize(p) /\ pc' = AfterType(p) BY <1>1, <2>2
    <3> QED BY <3>1, <3>2, <3>3 DEF AfterType
  <2> QED BY <1>3, <2>1, <2>2
<1> HIDE DEF w, p
<1>6. ReadInv' BY <1>1, <1>3, <1>5 DEF ReadInv
<1>7. ParseInv' BY <1>1, <1>4, <1>5 DEF ParseInv
<1>8. SizeInv' BY <1>1, <1>5 DEF SizeInv
<1>9. DeliveredInv' BY <1>1 DEF DeliveredInv, BufferFilled
<1> QED BY <1>6, <1>7, <1>8, <1>9

(* RedisBlock: a bulk. *)
LEMMA RecvBulkStep ==
  ASSUME RedisInv, RecvBulk
  PROVE  RedisInv'
<1> USE DEF RedisInv
<1> DEFINE w == recvBulk(m_parse, m_bufferRecv, m_recvSize)
<1>1. /\ block = "RedisBlock" /\ pc \in {"recv", "body"} /\ m_parse.type = "bulk_reply"
      /\ UNCHANGED <<stream, arrived, block, delivered>>
      /\ m_parse' = w.p /\ m_bufferRecv' = w.buf /\ m_recvSize' = w.size /\ pc' = "end"
  BY DEF RecvBulk, InBody, serverVars
<1>2. /\ Shape(m_parse) /\ ~m_parse.done /\ ~m_parse.threw /\ m_parse.readPos = 0
      /\ m_recvSize \in Nat /\ Sized(m_parse, m_recvSize) /\ Fresh(m_bufferRecv)
  BY <1>1 DEF ReadInv, ParseInv, SizeInv
<1>3. /\ Shape(w.p) /\ ~w.p.threw /\ w.p.readPos = m_parse.readPos
      /\ Fresh(w.buf)
      /\ w.size \in Nat /\ Sized(w.p, w.size)
  BY <1>1, <1>2, RecvBulkLemma
<1>4. length(w.buf) \in Nat BY <1>3, FreshUnread
<1> HIDE DEF w
<1>5. ReadInv' BY <1>1, <1>3 DEF ReadInv
<1>6. ParseInv' BY <1>1, <1>2, <1>3, <1>4 DEF ParseInv
<1>7. SizeInv' BY <1>1, <1>2, <1>3 DEF SizeInv
<1>8. DeliveredInv' BY <1>1 DEF DeliveredInv, BufferFilled
<1> QED BY <1>5, <1>6, <1>7, <1>8

(* RedisBlock: an element. *)
LEMMA RecvElementStep ==
  ASSUME RedisInv, RecvElement
  PROVE  RedisInv'
<1> USE DEF RedisInv
<1> DEFINE e == recvElement(m_parse, m_bufferRecv, m_recvSize)
<1>1. /\ block = "RedisBlock" /\ pc \in {"recv", "body"} /\ m_parse.type = "multi_bulk_reply"
      /\ UNCHANGED <<stream, arrived, block, delivered>>
      /\ m_parse' = e.p /\ m_bufferRecv' = e.buf /\ m_recvSize' = e.size
      /\ pc' = AfterElement(e)
  BY DEF RecvElement, InBody, serverVars
<1>2. /\ Shape(m_parse) /\ ~m_parse.done /\ ~m_parse.threw /\ m_parse.readPos = 0
      /\ m_recvSize \in Nat /\ Sized(m_parse, m_recvSize) /\ Fresh(m_bufferRecv)
  BY <1>1 DEF ReadInv, ParseInv, SizeInv
<1>3. /\ Shape(e.p) /\ e.p.readPos = 0
      /\ Fresh(e.buf)
      /\ e.size \in Nat
      /\ e.again \in BOOLEAN
      /\ e.again => ~e.p.done /\ ~e.p.threw
      /\ ~e.p.threw => Sized(e.p, e.size)
  BY <1>1, <1>2, RecvElementLemma
<1>4. length(e.buf) \in Nat BY <1>3, FreshUnread
<1> HIDE DEF e
<1>5. /\ pc' \in {"end", "terminate", "body"}
      /\ pc' = "body" => ~e.p.done /\ ~e.p.threw
      /\ pc' # "terminate" => ~e.p.threw
  BY <1>1, <1>3 DEF AfterElement
<1>6. ReadInv' BY <1>1, <1>3, <1>5 DEF ReadInv
<1>7. ParseInv' BY <1>1, <1>3, <1>4, <1>5 DEF ParseInv
<1>8. SizeInv' BY <1>1, <1>3, <1>5 DEF SizeInv
<1>9. DeliveredInv' BY <1>1 DEF DeliveredInv, BufferFilled
<1> QED BY <1>6, <1>7, <1>8, <1>9

(* RedisBlock: the block is delivered if it is done. *)
LEMMA RecvEndStep ==
  ASSUME RedisInv, RecvEnd
  PROVE  RedisInv'
<1> USE DEF RedisInv
<1> DEFINE d == Delivery(makeRedisBuffer(m_parse, m_recvSize))
<1>1. /\ block = "RedisBlock" /\ pc = "end"
      /\ UNCHANGED <<stream, arrived, block, m_bufferRecv>>
      /\ \/ /\ pc' = "terminate"
            /\ UNCHANGED <<m_parse, m_recvSize, delivered>>
         \/ /\ m_parse.done
            /\ delivered' = Append(delivered, d)
            /\ m_parse' = NewParse /\ m_recvSize' = 0 /\ pc' = "recv"
         \/ /\ ~m_parse.done /\ pc' = "read"
            /\ UNCHANGED <<m_parse, m_recvSize, delivered>>
  BY DEF RecvEnd, serverVars
<1>2. /\ Shape(m_parse) /\ ~m_parse.threw /\ m_parse.readPos = 0
      /\ m_recvSize \in Nat /\ Sized(m_parse, m_recvSize)
  BY <1>1 DEF ParseInv, SizeInv
<1>3. ReadInv' BY <1>1 DEF ReadInv
<1>4. CASE /\ m_parse.done /\ delivered' = Append(delivered, d)
            /\ m_parse' = NewParse /\ m_recvSize' = 0 /\ pc' = "recv"
  <2>1. length(d.data) = d.data.maxLen BY <1>2, <1>4, MakeBufferLemma DEF Delivery
  <2> HIDE DEF d
  <2>2. DeliveredInv' BY <1>1, <1>4, <2>1, DeliverLemma
  <2>3. ParseInv' BY <1>1, <1>2, <1>4, NewParseLemma DEF ParseInv
  <2>4. SizeInv' BY <1>4, NewParseLemma DEF SizeInv
  <2> QED BY <1>3, <2>2, <2>3, <2>4
<1>5. CASE /\ pc' = "terminate" \/ (~m_parse.done /\ pc' = "read")
           /\ UNCHANGED <<m_parse, m_recvSize, delivered>>
  <2>1. DeliveredInv' BY <1>1, <1>5 DEF DeliveredInv, BufferFilled
  <2>2. ParseInv' BY <1>1, <1>2, <1>5 DEF ParseInv
  <2>3. SizeInv' BY <1>1, <1>2, <1>5 DEF SizeInv
  <2> QED BY <1>3, <2>1, <2>2, <2>3
<1> QED BY <1>1, <1>4, <1>5

(* The next read is started. *)
LEMMA ReadAgainStep ==
  ASSUME RedisInv, ReadAgain
  PROVE  RedisInv'
<1> USE DEF RedisInv
<1>1. /\ pc = "recv" /\ pc' = "read"
      /\ UNCHANGED <<stream, arrived, block, m_bufferRecv, m_parse, m_recvSize, delivered>>
  BY DEF ReadAgain, serverVars
<1>2. ReadInv' BY <1>1 DEF ReadInv
<1>3. ParseInv' BY <1>1 DEF ParseInv
<1>4. SizeInv' BY <1>1 DEF SizeInv
<1>5. DeliveredInv' BY <1>1 DEF DeliveredInv, BufferFilled
<1> QED BY <1>2, <1>3, <1>4, <1>5

(* Every step keeps it. *)
LEMMA RedisStep ==
  ASSUME RedisInv, [Next]_vars
  PROVE  RedisInv'
<1>1. CASE UNCHANGED vars
  BY <1>1 DEF vars, serverVars, RedisInv, ReadInv, ParseInv, SizeInv, DeliveredInv,
              BufferFilled
<1> QED BY <1>1, ReadSomeStep, ParseTypeStep, ParseBulkStep, ParseElementStep,
           RecvDoneStep, RecvTypeStep, RecvBulkStep, RecvElementStep, RecvEndStep,
           ReadAgainStep
    DEF Next

(* The invariant holds in every state. *)
LEMMA RedisInvariant == Spec => []RedisInv
<1>1. Init => RedisInv BY InitRedis
<1>2. RedisInv /\ [Next]_vars => RedisInv' BY RedisStep
<1> QED BY <1>1, <1>2, PTL DEF Spec

(***************************************************************************)
(* The members of both block classes keep their types, however the replies *)
(* are cut: m_tempMaxLen and m_recvSize are never negative, and parse()    *)
(* never moves readPos beyond what was read from the socket, which is what *)
(* makes the readData of recv consume exactly what was parsed.             *)
(***************************************************************************)
THEOREM RedisTypeCorrect == Spec => []TypeOK
<1>1. RedisInv => TypeOK
  <2> SUFFICES ASSUME RedisInv PROVE TypeOK OBVIOUS
  <2>1. ReplyChars \subseteq Chars BY DEF ReplyChars
  <2>2. m_bufferRecv \in Buffer(Chars)
    <3> DEFINE b == m_bufferRecv
    <3>1. b \in Buffer(ReplyChars) BY DEF RedisInv, ReadInv, Fresh
    <3>2. b.buf \in Seq(Chars) BY <2>1, <3>1, SeqMonotonic DEF Buffer
    <3> HIDE DEF b
    <3>3. b \in Buffer(Chars) BY <3>1, <3>2 DEF Buffer
    <3> QED BY <3>3 DEF b
  <2>3. m_parse \in Parse BY DEF RedisInv, ParseInv, Shape
  <2>4. /\ m_parse.multiCount \in Nat /\ m_parse.tempMaxLen \in Nat /\ m_parse.readPos \in Nat
        /\ m_parse.temp \in Seq(ReplyChars)
    BY <2>3 DEF Parse
  <2>5. m_parse.temp \in Seq(Chars) BY <2>1, <2>4, SeqMonotonic
  <2>6. length(m_bufferRecv) \in Nat BY FreshUnread DEF RedisInv, ReadInv
  <2>7. m_parse.readPos \in 0..length(m_bufferRecv) BY <2>4, <2>6 DEF RedisInv, ParseInv
  <2> QED BY <2>2, <2>4, <2>5, <2>7 DEF TypeOK, RedisInv, ReadInv, SizeInv
<1> QED BY <1>1, RedisInvariant, PTL

(***************************************************************************)
(* RedisBlock's m_recvSize is the sum that makeRedisBuffer writes, for any *)
(* replies and however recv was interrupted inside them: no allocation of  *)
(* a delivered block is too small or too large.                            *)
(***************************************************************************)
THEOREM RedisBufferFilled == Spec => []BufferFilled
<1>1. RedisInv => BufferFilled BY DEF RedisInv, DeliveredInv
<1> QED BY <1>1, RedisInvariant, PTL
=============================================================================
