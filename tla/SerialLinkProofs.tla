-------------------------- MODULE SerialLinkProofs --------------------------
(***************************************************************************)
(* Proofs about SerialLink read line by line (~Pieces), for an alert of any*)
(* entries of two or more rows, any number of boots and a reset at any     *)
(* token.                                                                  *)
(*                                                                         *)
(* The receiver sees tokens; what it makes of them depends on where in the *)
(* device's output each of them was. LinkInv says that such places exist   *)
(* (Traced): one for every token of the log and one for the last token     *)
(* read, each the place that follows the one before it (Linked), except    *)
(* that a boot may start behind any of them. Received says what the        *)
(* receiver holds, having read up to a place. The text is never put        *)
(* together: a line is looked up by its entry and its number (Text).       *)
(***************************************************************************)
EXTENDS SerialLink, SequenceTheorems, TLAPS

(* The tokens of the output.                                               *)

Row   == [boot : Nat, part : Nat, row : Nat]
Kinds == {"[", "]", "nl", "text", "DATA", "Begins", "Ended", "row"}
Token == [kind : Kinds, row : Row]

-----------------------------------------------------------------------------
(* The text.                                                               *)

LEMMA RowsFacts ==
  /\ Len(Rows) \in Nat /\ Len(Rows) >= 1
  /\ \A p \in 1 .. Len(Rows) :
       /\ Rows[p] \in Nat /\ Rows[p] >= 2
       /\ LastLine(p) = Rows[p] + 2
  /\ LastLine(0) = 0
  BY SerialAssumption DEF LastLine

\* A token that is not a row.
LEMMA TokFacts ==
  ASSUME NEW k \in Kinds
  PROVE  Tok(k) \in Token /\ Tok(k).kind = k
  <1>1. NoRow \in Row
    BY DEF NoRow, Row
  <1> QED
    BY <1>1 DEF Tok, Token

LEMMA Toks ==
  /\ Tok("[") \in Token /\ Tok("]") \in Token /\ Tok("nl") \in Token
  /\ Tok("text") \in Token /\ Tok("DATA") \in Token
  /\ Tok("Begins") \in Token /\ Tok("Ended") \in Token
  /\ Tok("[").kind = "[" /\ Tok("]").kind = "]" /\ Tok("nl").kind = "nl"
  /\ Tok("text").kind = "text" /\ Tok("DATA").kind = "DATA"
  /\ Tok("Begins").kind = "Begins" /\ Tok("Ended").kind = "Ended"
  <1>1. \A k \in Kinds : Tok(k) \in Token /\ Tok(k).kind = k
    BY TokFacts
  <1> QED
    BY <1>1 DEF Kinds

\* Sequences written down.
LEMMA Pair ==
  ASSUME NEW S, NEW a \in S, NEW b \in S
  PROVE  /\ <<a>> \in Seq(S) /\ Len(<<a>>) = 1 /\ <<a>>[1] = a
         /\ <<a, b>> \in Seq(S) /\ Len(<<a, b>>) = 2
         /\ <<a, b>>[1] = a /\ <<a, b>>[2] = b
  OBVIOUS

LEMMA Six ==
  ASSUME NEW S, NEW a \in S, NEW b \in S, NEW c \in S, NEW d \in S, NEW e \in S,
         NEW f \in S
  PROVE  LET s == <<a, b, c, d, e, f>>
         IN  /\ s \in Seq(S) /\ Len(s) = 6
             /\ s[1] = a /\ s[2] = b /\ s[3] = c /\ s[4] = d /\ s[5] = e /\ s[6] = f
  OBVIOUS

LEMMA Seven ==
  ASSUME NEW S, NEW a \in S, NEW b \in S, NEW c \in S, NEW d \in S, NEW e \in S,
         NEW f \in S, NEW g \in S
  PROVE  LET s == <<a, b, c, d, e, f, g>>
         IN  /\ s \in Seq(S) /\ Len(s) = 7
             /\ s[1] = a /\ s[2] = b /\ s[3] = c /\ s[4] = d /\ s[5] = e /\ s[6] = f
             /\ s[7] = g
  OBVIOUS

-----------------------------------------------------------------------------
(* Places in a boot's output: a token of a line of an entry, and how many  *)
(* entries are complete with it.                                           *)

Place == [boot : Nat, entry : 0 .. Len(Rows), line : Nat, col : Nat, no : Nat]

TextAt(q) == Text(q.boot, q.entry, q.line)

\* The last token of a line, and of an entry.
Ends(q)      == q.col = Len(TextAt(q))
Completes(q) == Ends(q) /\ q.entry # 0 /\ q.line = LastLine(q.entry)

Exists(q) ==
  /\ q.entry \in 0 .. Len(Rows) /\ q.line \in 0 .. LastLine(q.entry)
  /\ q.col \in 1 .. Len(TextAt(q))

\* Which line a place is in, and its tokens.
InFirst(q)  == q.entry = 0
InBlank(q)  == q.entry # 0 /\ q.line = 0
InBegin(q)  == q.entry # 0 /\ q.line = 1
InRow(q)    == q.entry # 0 /\ q.line \in 2 .. LastLine(q.entry) - 1
InEnd(q)    == q.entry # 0 /\ q.line = LastLine(q.entry)

IsMark(t, k) ==
  /\ Len(t) = 6 /\ t[1] = Tok("[") /\ t[2] = Tok("[") /\ t[3] = Tok(k)
  /\ t[4] = Tok("]") /\ t[5] = Tok("]") /\ t[6] = Tok("nl")

IsData(t, r) ==
  /\ Len(t) = 7 /\ t[1] = Tok("[") /\ t[2] = Tok("[") /\ t[3] = Tok("DATA")
  /\ t[4] = [kind |-> "row", row |-> r]
  /\ t[5] = Tok("]") /\ t[6] = Tok("]") /\ t[7] = Tok("nl")

LEMMA MarkFacts ==
  ASSUME NEW k \in Kinds
  PROVE  Mark(k) \in Seq(Token) /\ IsMark(Mark(k), k)
  <1>1. Tok(k) \in Token
    BY TokFacts
  <1> QED
    BY <1>1, Toks, Six DEF Mark, IsMark

LEMMA DataFacts ==
  ASSUME NEW b \in Nat, NEW p \in Nat, NEW r \in Nat
  PROVE  DataLine(b, p, r) \in Seq(Token) /\ IsData(DataLine(b, p, r), RowOf(b, p, r))
  <1>1. [kind |-> "row", row |-> RowOf(b, p, r)] \in Token
    BY DEF Token, Kinds, RowOf, Row
  <1> QED
    BY <1>1, Toks, Seven DEF DataLine, IsData

LEMMA LineText ==
  ASSUME NEW q \in Place, q.line \in 0 .. LastLine(q.entry)
  PROVE  LET t == TextAt(q)
         IN  /\ t \in Seq(Token)
             /\ InFirst(q) \/ InBlank(q) \/ InBegin(q) \/ InRow(q) \/ InEnd(q)
             /\ InFirst(q) => Len(t) = 2 /\ t[1] = Tok("text") /\ t[2] = Tok("nl")
             /\ InBlank(q) => Len(t) = 1 /\ t[1] = Tok("nl")
             /\ InBegin(q) => IsMark(t, "Begins")
             /\ InRow(q)   => IsData(t, RowOf(q.boot, q.entry, q.line - 1))
             /\ InEnd(q)   => IsMark(t, "Ended")
  <1>1. /\ q.entry \in 0 .. Len(Rows) /\ q.boot \in Nat /\ q.line \in Nat /\ q.entry \in Nat
        /\ q.entry # 0 => LastLine(q.entry) \in Nat /\ LastLine(q.entry) >= 4
        /\ q.entry = 0 => q.line = 0
    BY RowsFacts DEF Place
  <1>2. /\ "Begins" \in Kinds /\ "Ended" \in Kinds
    BY DEF Kinds
  <1>3. InFirst(q) \/ InBlank(q) \/ InBegin(q) \/ InRow(q) \/ InEnd(q)
    BY <1>1 DEF InFirst, InBlank, InBegin, InRow, InEnd
  <1>4. CASE InFirst(q)
    <2>1. TextAt(q) = <<Tok("text"), Tok("nl")>>
      BY <1>4 DEF TextAt, Text, InFirst
    <2> QED
      BY <1>3, <1>4, <2>1, Toks, Pair DEF InFirst, InBlank, InBegin, InRow, InEnd
  <1>5. CASE InBlank(q)
    <2>1. TextAt(q) = <<Tok("nl")>>
      BY <1>5 DEF TextAt, Text, InBlank
    <2> QED
      BY <1>1, <1>3, <1>5, <2>1, Toks, Pair DEF InFirst, InBlank, InBegin, InRow, InEnd
  <1>6. CASE InBegin(q)
    <2>1. TextAt(q) = Mark("Begins")
      BY <1>6 DEF TextAt, Text, InBegin
    <2> QED
      BY <1>1, <1>2, <1>3, <1>6, <2>1, MarkFacts DEF InFirst, InBlank, InBegin, InRow, InEnd
  <1>7. CASE InRow(q)
    <2>1. TextAt(q) = DataLine(q.boot, q.entry, q.line - 1) /\ q.line - 1 \in Nat
      BY <1>1, <1>7 DEF TextAt, Text, InRow
    <2>2. ~InFirst(q) /\ ~InBlank(q) /\ ~InBegin(q) /\ ~InEnd(q)
      BY <1>1, <1>7 DEF InFirst, InBlank, InBegin, InRow, InEnd
    <2> QED
      BY <1>1, <1>3, <1>7, <2>1, <2>2, DataFacts
  <1>8. CASE InEnd(q)
    <2>1. TextAt(q) = Mark("Ended")
      BY <1>1, <1>8 DEF TextAt, Text, InEnd
    <2>2. ~InFirst(q) /\ ~InBlank(q) /\ ~InBegin(q) /\ ~InRow(q)
      BY <1>1, <1>8 DEF InFirst, InBlank, InBegin, InRow, InEnd
    <2> QED
      BY <1>2, <1>3, <1>8, <2>1, <2>2, MarkFacts
  <1> QED
    BY <1>3, <1>4, <1>5, <1>6, <1>7, <1>8

\* A newline is the last token of its line, and nothing else is one.
LEMMA NewlineEnds ==
  ASSUME NEW q \in Place, Exists(q)
  PROVE  /\ TextAt(q)[q.col] \in Token
         /\ TextAt(q)[q.col].kind = "nl" <=> Ends(q)
  <1> DEFINE t == TextAt(q)
  <1>1. /\ t \in Seq(Token) /\ q.col \in 1 .. Len(t)
        /\ InFirst(q) \/ InBlank(q) \/ InBegin(q) \/ InRow(q) \/ InEnd(q)
        /\ InFirst(q) => Len(t) = 2 /\ t[1] = Tok("text") /\ t[2] = Tok("nl")
        /\ InBlank(q) => Len(t) = 1 /\ t[1] = Tok("nl")
        /\ InBegin(q) => IsMark(t, "Begins")
        /\ InRow(q)   => IsData(t, RowOf(q.boot, q.entry, q.line - 1))
        /\ InEnd(q)   => IsMark(t, "Ended")
    BY LineText DEF Exists
  <1>2. Ends(q) <=> q.col = Len(t)
    BY DEF Ends
  <1> HIDE DEF t
  <1>3. t[q.col] \in Token
    BY <1>1
  <1>4. ASSUME InFirst(q) \/ InBlank(q)
        PROVE  t[q.col].kind = "nl" <=> q.col = Len(t)
    <2>1. CASE InFirst(q)
      <3>2. Len(t) = 2 /\ t[1] = Tok("text") /\ t[2] = Tok("nl") /\ q.col \in 1 .. Len(t)
        BY <1>1, <2>1, Zenon
      <3>1. q.col = 1 \/ q.col = 2
        BY <3>2
      <3> QED
        BY <3>1, <3>2, Toks
    <2>2. CASE InBlank(q)
      <3>1. Len(t) = 1 /\ t[1] = Tok("nl") /\ q.col \in 1 .. Len(t)
        BY <1>1, <2>2, Zenon
      <3> QED
        BY <3>1, Toks
    <2> QED
      BY <1>4, <2>1, <2>2
  <1>5. ASSUME NEW k \in {"Begins", "Ended"}, IsMark(t, k)
        PROVE  t[q.col].kind = "nl" <=> q.col = Len(t)
    <2>1. /\ q.col = 1 \/ q.col = 2 \/ q.col = 3 \/ q.col = 4 \/ q.col = 5 \/ q.col = 6
          /\ Len(t) = 6
      BY <1>1, <1>5 DEF IsMark
    <2> QED
      BY <1>5, <2>1, Toks DEF IsMark
  <1>6. ASSUME NEW r, IsData(t, r)
        PROVE  t[q.col].kind = "nl" <=> q.col = Len(t)
    <2>1. /\ q.col = 1 \/ q.col = 2 \/ q.col = 3 \/ q.col = 4 \/ q.col = 5 \/ q.col = 6 \/ q.col = 7
          /\ Len(t) = 7
      BY <1>1, <1>6 DEF IsData
    <2> QED
      BY <1>6, <2>1, Toks DEF IsData
  <1>7. t[q.col].kind = "nl" <=> Ends(q)
    BY <1>1, <1>2, <1>4, <1>5, <1>6
  <1> QED
    BY <1>3, <1>7 DEF t

-----------------------------------------------------------------------------
(* Where the tokens of the log come from. The log is what the receiver has *)
(* yet to read; at[i] is the place of its token i, at[0] that of the last  *)
(* token read.                                                             *)

\* q is printed next after p, or the first token of a boot that cut p off.
Behind(p, q) ==
  \/ q.entry = 0 /\ q.col = 1
  \/ /\ q.boot = p.boot
     /\ IF ~Ends(p)
        THEN q.entry = p.entry /\ q.line = p.line /\ q.col = p.col + 1
        ELSE /\ q.col = 1
             /\ IF p.line < LastLine(p.entry)
                THEN q.entry = p.entry /\ q.line = p.line + 1
                ELSE q.entry = p.entry + 1 /\ q.line = 0

\* The log holds the tokens of these places.
Tokens(at, text) ==
  \A i \in 1 .. Len(text) :
    at[i].boot \in Boot /\ Exists(at[i]) /\ text[i] = TextAt(at[i])[at[i].col]

Linked(at, n) == \A i \in 1 .. n : Behind(at[i - 1], at[i])

\* What is in front of a token on its line is in front of it in the log: lines
\* are read whole.
Lines(at, n) ==
  \A i \in 1 .. n : \A k \in 0 .. at[i].col - 1 :
    /\ k < i
    /\ at[i - k].boot = at[i].boot /\ at[i - k].entry = at[i].entry
    /\ at[i - k].line = at[i].line /\ at[i - k].col = at[i].col - k

\* The entries that are complete in the log are those printed, in order.
Counts(at, n, prints) ==
  /\ \A i \in 0 .. n : \A j \in i .. n :
       (\A m \in i + 1 .. j : ~Completes(at[m])) => at[j].no = at[i].no
  /\ \A i \in 1 .. n : Completes(at[i]) =>
       /\ at[i].no = at[i - 1].no + 1 /\ at[i].no \in 1 .. Len(prints)
       /\ prints[at[i].no] = [boot |-> at[i].boot, part |-> at[i].entry]

\* What a line read was: what is left of lines cut off, and the first line of a
\* boot; or a line of one entry.
LEMMA WhatIsRead ==
  ASSUME NEW text \in Seq(Token), NEW at \in [0 .. Len(text) -> Place],
         Tokens(at, text), Linked(at, Len(text)), Lines(at, Len(text)),
         NEW end \in 1 .. Len(text), text[end].kind = "nl",
         \A j \in 1 .. end - 1 : text[j].kind # "nl"
  PROVE  LET q == at[end]
             line == SubSeq(text, 1, end - 1)
         IN  /\ q \in Place /\ Ends(q) /\ Exists(q)
             /\ \A j \in 1 .. end - 1 : ~Ends(at[j])
             /\ InFirst(q) => Len(line) >= 1 /\ line[Len(line)] = Tok("text")
             /\ ~InFirst(q) =>
                  /\ \/ at[0].boot = q.boot /\ Ends(at[0])
                        /\ IF at[0].line < LastLine(at[0].entry)
                           THEN q.entry = at[0].entry /\ q.line = at[0].line + 1
                           ELSE q.entry = at[0].entry + 1 /\ q.line = 0
                     \/ ~Ends(at[0])
                  /\ Len(line) = Len(TextAt(q)) - 1
                  /\ \A j \in 1 .. Len(line) : line[j] = TextAt(q)[j]
  <1> DEFINE q == at[end]
             line == SubSeq(text, 1, end - 1)
  <1>1. /\ \A i \in 1 .. Len(text) : at[i] \in Place /\ Exists(at[i])
        /\ \A i \in 1 .. Len(text) : text[i] = TextAt(at[i])[at[i].col]
        /\ Len(text) \in Nat
    BY DEF Tokens
  <1>2. \A i \in 1 .. Len(text) : text[i].kind = "nl" <=> Ends(at[i])
    <2> TAKE i \in 1 .. Len(text)
    <2>1. at[i] \in Place /\ Exists(at[i]) /\ text[i] = TextAt(at[i])[at[i].col]
      BY <1>1
    <2> QED
      BY <2>1, NewlineEnds
  <1>3. Ends(q) /\ q \in Place /\ Exists(q) /\ \A j \in 1 .. end - 1 : ~Ends(at[j])
    BY <1>1, <1>2
  <1>4. Len(line) = end - 1 /\ \A j \in 1 .. end - 1 : line[j] = text[j]
    BY <1>1
  <1> HIDE DEF line
  <1>5. /\ q.col \in 1 .. Len(TextAt(q)) /\ q.col = Len(TextAt(q)) /\ q.col \in Nat
        /\ TextAt(q) \in Seq(Token)
    <2>1. q.col \in 1 .. Len(TextAt(q)) /\ q.col = Len(TextAt(q)) /\ q.line \in 0 .. LastLine(q.entry)
      BY <1>3 DEF Exists, Ends
    <2>2. q.col \in Nat
      BY <1>3 DEF Place
    <2>3. TextAt(q) \in Seq(Token)
      BY <1>3, <2>1, LineText
    <2> QED
      BY <2>1, <2>2, <2>3
  <1>6. \A k \in 0 .. q.col - 1 :
          /\ k < end
          /\ at[end - k].boot = q.boot /\ at[end - k].entry = q.entry
          /\ at[end - k].line = q.line /\ at[end - k].col = q.col - k
    BY DEF Lines
  <1> HIDE DEF q
  <1>7. \A k \in 0 .. q.col - 1 : text[end - k] = TextAt(q)[q.col - k]
    <2> TAKE k \in 0 .. q.col - 1
    <2>1. end - k \in 1 .. Len(text)
      BY <1>1, <1>5, <1>6
    <2>2. TextAt(at[end - k]) = TextAt(q) /\ at[end - k].col = q.col - k
      BY <1>6 DEF TextAt
    <2>3. text[end - k] = TextAt(at[end - k])[at[end - k].col]
      BY <1>1, <2>1
    <2> QED
      BY <2>2, <2>3
  <1>8. ASSUME InFirst(q)
        PROVE  Len(line) >= 1 /\ line[Len(line)] = Tok("text")
    <2>1. Len(TextAt(q)) = 2 /\ TextAt(q)[1] = Tok("text")
      BY <1>3, <1>8, LineText DEF Exists
    <2>2. q.col = 2 /\ 1 < end
      BY <1>5, <1>6, <2>1
    <2>3. text[end - 1] = Tok("text")
      BY <1>5, <1>7, <2>1, <2>2
    <2> QED
      BY <1>1, <1>4, <2>2, <2>3
  <1>9. ASSUME ~InFirst(q)
        PROVE  /\ Len(line) = Len(TextAt(q)) - 1
               /\ \A j \in 1 .. Len(line) : line[j] = TextAt(q)[j]
               /\ Behind(at[0], at[1])
               /\ at[1].boot = q.boot /\ at[1].entry = q.entry
               /\ at[1].line = q.line /\ at[1].col = 1
    <2>1. q.col <= end
      <3>1. q.col - 1 \in 0 .. q.col - 1 /\ q.col \in Nat /\ end \in Nat
        BY <1>5
      <3>2. q.col - 1 < end
        BY <1>6, <3>1
      <3> QED
        BY <3>1, <3>2
    <2> DEFINE m == end - q.col
    <2>2. m \in Nat /\ end - (q.col - 1) = m + 1 /\ m + 1 \in 1 .. Len(text) /\ q.entry # 0
      BY <1>1, <1>5, <2>1, <1>9 DEF InFirst
    <2>3. /\ at[m + 1].boot = q.boot /\ at[m + 1].entry = q.entry
          /\ at[m + 1].line = q.line /\ at[m + 1].col = 1
      <3>1. q.col - 1 \in 0 .. q.col - 1 /\ q.col - (q.col - 1) = 1
        BY <1>5
      <3>2. /\ at[end - (q.col - 1)].boot = q.boot /\ at[end - (q.col - 1)].entry = q.entry
            /\ at[end - (q.col - 1)].line = q.line /\ at[end - (q.col - 1)].col = q.col - (q.col - 1)
        BY <1>6, <3>1
      <3> QED
        BY <3>1, <3>2, <2>2
    <2>4. Behind(at[m], at[m + 1])
      <3>1. m + 1 - 1 = m
        BY <2>2
      <3> QED
        BY <2>2, <3>1 DEF Linked
    <2>5. m = 0
      <3> SUFFICES ASSUME m # 0 PROVE FALSE
        OBVIOUS
      <3>1. m \in 1 .. end - 1
        BY <1>5, <2>2
      <3>2. m \in 1 .. Len(text)
        BY <1>1, <3>1
      <3>3. ~Ends(at[m]) /\ Exists(at[m]) /\ at[m] \in Place
        BY <1>1, <1>3, <3>1, <3>2
      <3>4. at[m + 1].col = at[m].col + 1
        BY <2>2, <2>3, <2>4, <3>3 DEF Behind
      <3>5. at[m].col \in Nat /\ at[m].col >= 1
        BY <3>3 DEF Exists, Place
      <3> QED
        BY <2>3, <3>4, <3>5
    <2>6. Len(line) = q.col - 1 /\ end = q.col
      BY <1>1, <1>4, <1>5, <2>5
    <2>7. ASSUME NEW j \in 1 .. Len(line) PROVE line[j] = TextAt(q)[j]
      <3>1. j \in 1 .. end - 1 /\ line[j] = text[j]
        BY <1>4, <2>7
      <3>2. q.col - j \in 0 .. q.col - 1 /\ end - (q.col - j) = j /\ q.col - (q.col - j) = j
        BY <1>5, <2>6, <3>1
      <3>3. text[end - (q.col - j)] = TextAt(q)[q.col - (q.col - j)]
        BY <1>7, <3>2
      <3> QED
        BY <3>1, <3>2, <3>3
    <2> QED
      BY <1>5, <2>2, <2>3, <2>4, <2>5, <2>6, <2>7
  <1>10. ASSUME ~InFirst(q), Ends(at[0])
         PROVE  /\ at[0].boot = q.boot
                /\ IF at[0].line < LastLine(at[0].entry)
                   THEN q.entry = at[0].entry /\ q.line = at[0].line + 1
                   ELSE q.entry = at[0].entry + 1 /\ q.line = 0
    <2>1. q.entry # 0
      BY <1>10 DEF InFirst
    <2> QED
      BY <1>9, <1>10, <2>1 DEF Behind
  <1> QED
    BY <1>3, <1>8, <1>9, <1>10 DEF q, line

-----------------------------------------------------------------------------
(* What the receiver makes of a line that it reads whole.                  *)

\* The text of a line without its newline.
IsLine(line, text) ==
  /\ Len(line) = Len(text) - 1
  /\ \A j \in 1 .. Len(line) : line[j] = text[j]

\* Functions from 1 up to n are sequences.
LEMMA Listed ==
  ASSUME NEW S, NEW n \in Nat, NEW f \in [1 .. n -> S]
  PROVE  f \in Seq(S) /\ Len(f) = n
  BY SeqDef

\* A part of a sequence.
LEMMA Cut ==
  ASSUME NEW S, NEW s \in Seq(S), NEW m \in Nat, NEW n \in Nat,
         1 <= m, m <= n + 1, n <= Len(s)
  PROVE  /\ SubSeq(s, m, n) \in Seq(S) /\ Len(SubSeq(s, m, n)) = n + 1 - m
         /\ \A i \in 1 .. n + 1 - m : SubSeq(s, m, n)[i] = s[m + i - 1]
  OBVIOUS

\* A line that was cut off is followed by the first line of a boot, so it does
\* not end in "]]"; an empty line does not either.
LEMMA NotClosed ==
  ASSUME NEW line \in Seq(Token),
         Len(line) = 0 \/ (Len(line) >= 1 /\ line[Len(line)] = Tok("text"))
  PROVE  LineParser(line).ret = FALSE
  <1>1. ~Closes(line)
    <2>1. Len(line) \in Nat
      OBVIOUS
    <2> QED
      BY <2>1, Toks DEF Closes, Kind
  <1> QED
    BY <1>1 DEF LineParser, ProcessFresh, ProcessRest, Parsed

\* A whole line in brackets is complete, whatever was left before it.
LEMMA Closed ==
  ASSUME NEW line \in Seq(Token), Opens(line), Closes(line)
  PROVE  LineParser(line).ret = TRUE /\ LineParser(line).buffer = line
  BY DEF LineParser, ProcessFresh, ProcessRest, Parsed

LEMMA MarkIsParsed ==
  ASSUME NEW line \in Seq(Token), NEW t, NEW k \in Kinds, IsMark(t, k), IsLine(line, t)
  PROVE  /\ Opens(line) /\ Closes(line)
         /\ k = "Begins" => DatablockParser(line) = "Start"
         /\ k = "Ended" => DatablockParser(line) = "End"
  <1>1. /\ Len(line) = 5 /\ line[1] = Tok("[") /\ line[2] = Tok("[") /\ line[3] = Tok(k)
        /\ line[4] = Tok("]") /\ line[5] = Tok("]")
    BY DEF IsMark, IsLine
  <1>2. Opens(line) /\ Closes(line)
    BY <1>1, Toks DEF Opens, Closes, Kind
  <1> DEFINE inner == SubSeq(line, 3, Len(line) - 2)
  <1>3. inner \in Seq(Token) /\ Len(inner) = 1 /\ inner[1] = Tok(k)
    <2>1. inner = SubSeq(line, 3, 3) /\ 3 <= Len(line)
      BY <1>1
    <2>2. SubSeq(line, 3, 3) \in Seq(Token) /\ Len(SubSeq(line, 3, 3)) = 1
          /\ SubSeq(line, 3, 3)[1] = line[3]
      BY <2>1, Cut
    <2> QED
      BY <1>1, <2>1, <2>2
  <1> HIDE DEF inner
  <1>4. inner # <<>> /\ Kind(inner, 1) = k
    <2>1. Len(<<>>) = 0
      OBVIOUS
    <2>2. inner # <<>>
      BY <1>3, <2>1
    <2> QED
      BY <1>3, <2>2, TokFacts DEF Kind
  <1> HIDE DEF inner
  <1>5. CASE k = "Begins"
    <2>1. inner = <<Tok("Begins")>>
      BY <1>3, <1>5, Toks
    <2> QED
      BY <1>2, <1>4, <1>5, <2>1 DEF DatablockParser, inner
  <1>6. CASE k = "Ended"
    <2>1. inner # <<Tok("Begins")>>
      BY <1>3, <1>6, Toks
    <2> QED
      BY <1>2, <1>4, <1>6, <2>1 DEF DatablockParser, inner
  <1> QED
    BY <1>2, <1>5, <1>6

LEMMA DataIsParsed ==
  ASSUME NEW line \in Seq(Token), NEW t, NEW r, IsData(t, r), IsLine(line, t)
  PROVE  /\ Opens(line) /\ Closes(line)
         /\ DatablockParser(line) = "Data" /\ line[4].row = r
  <1>1. /\ Len(line) = 6 /\ line[1] = Tok("[") /\ line[2] = Tok("[") /\ line[3] = Tok("DATA")
        /\ line[4] = [kind |-> "row", row |-> r]
        /\ line[5] = Tok("]") /\ line[6] = Tok("]")
    BY DEF IsData, IsLine
  <1>2. Opens(line) /\ Closes(line)
    BY <1>1, Toks DEF Opens, Closes, Kind
  <1> DEFINE inner == SubSeq(line, 3, Len(line) - 2)
  <1>3. /\ inner \in Seq(Token) /\ Len(inner) = 2 /\ inner[1] = Tok("DATA")
        /\ inner[2] = [kind |-> "row", row |-> r]
    <2>1. inner = SubSeq(line, 3, 4) /\ 4 <= Len(line)
      BY <1>1
    <2>2. SubSeq(line, 3, 4) \in Seq(Token) /\ Len(SubSeq(line, 3, 4)) = 2
          /\ SubSeq(line, 3, 4)[1] = line[3] /\ SubSeq(line, 3, 4)[2] = line[4]
      BY <2>1, Cut
    <2> QED
      BY <1>1, <2>1, <2>2
  <1> HIDE DEF inner
  <1>4. /\ inner # <<>> /\ inner # <<Tok("Begins")>>
        /\ Kind(inner, 1) = "DATA" /\ Kind(inner, 2) = "row"
        /\ \A i \in 2 .. Len(inner) : Kind(inner, i) = "row"
    <2>1. Len(<<>>) = 0 /\ Len(<<Tok("Begins")>>) = 1
      OBVIOUS
    <2>2. inner # <<>> /\ inner # <<Tok("Begins")>>
      BY <1>3, <2>1
    <2>3. Kind(inner, 1) = "DATA" /\ Kind(inner, 2) = "row"
      BY <1>3, Toks DEF Kind
    <2>4. \A i \in 2 .. Len(inner) : i = 2
      BY <1>3
    <2> QED
      BY <2>2, <2>3, <2>4
  <1> HIDE DEF inner
  <1>5. DatablockParser(line) = "Data"
    <2>1. Len(inner) > 1
      BY <1>3
    <2> QED
      BY <1>2, <1>4, <2>1 DEF DatablockParser, inner
  <1> QED
    BY <1>1, <1>2, <1>5

-----------------------------------------------------------------------------
(* What the receiver makes of an entry all of whose rows it has.           *)

LEMMA TheRowsFacts ==
  ASSUME NEW b \in Boot, NEW e \in Part
  PROVE  LET acc == TheRows(b, e)
         IN  /\ acc \in Seq(Row) /\ Len(acc) = Rows[e] /\ acc # <<>>
             /\ (is_header(acc) <=> e = 1) /\ ~Truncated(acc) /\ is_valid(acc)
             /\ data(acc) = acc /\ acc[1].boot = b /\ acc[1].part = e
  <1> DEFINE acc == TheRows(b, e)
  <1>1. Rows[e] \in Nat /\ Rows[e] >= 2 /\ b \in Nat /\ e \in Nat
    BY RowsFacts, SerialAssumption DEF Part, Boot
  <1>2. acc = [i \in 1 .. Rows[e] |-> RowOf(b, e, i)]
    BY DEF TheRows
  <1>3. \A i \in 1 .. Rows[e] : RowOf(b, e, i) \in Row
    BY <1>1 DEF RowOf, Row
  <1>4. acc \in Seq(Row) /\ Len(acc) = Rows[e]
        /\ \A i \in 1 .. Rows[e] : acc[i] = RowOf(b, e, i)
    <2>1. acc \in [1 .. Rows[e] -> Row]
      BY <1>2, <1>3
    <2>2. acc \in Seq(Row) /\ Len(acc) = Rows[e]
      BY <1>1, <2>1, Listed
    <2> QED
      BY <1>2, <2>2
  <1> HIDE DEF acc
  <1>5. acc[1] = RowOf(b, e, 1) /\ acc[Rows[e]] = RowOf(b, e, Rows[e])
    BY <1>1, <1>4
  <1>6. /\ acc[1].boot = b /\ acc[1].part = e /\ acc[1].row = 1
        /\ acc[Rows[e]].part = e /\ acc[Rows[e]].row = Rows[e]
    BY <1>5 DEF RowOf
  <1>7. acc # <<>> /\ ~Truncated(acc)
    BY <1>1, <1>4 DEF Truncated
  <1>8. is_header(acc) <=> e = 1
    BY <1>6 DEF is_header
  <1>9. is_valid(acc)
    BY <1>1, <1>4, <1>6 DEF is_valid
  <1>10. data(acc) = acc
    <2>1. data(acc) = SubSeq(acc, 1, Len(acc))
      BY <1>4, <1>6 DEF data
    <2> QED
      BY <1>4, <2>1
  <1> QED
    BY <1>4, <1>6, <1>7, <1>8, <1>9, <1>10 DEF acc

\* It becomes a file, under the session of its alert.
LEMMA EntryIsWritten ==
  ASSUME NEW b \in Boot, NEW e \in Part, WriteEntry(TheRows(b, e)), session_id \in Nat,
         e > 1 => session_id > 0
  PROVE  LET t == <<session_id', e>>
         IN  /\ session_id' \in Nat /\ session_id' >= session_id /\ session_id' > 0
             /\ e = 1 /\ ~SameSecond => session_id' = session_id + 1
             /\ e # 1 => session_id' = session_id
             /\ alive' = TRUE
             /\ DOMAIN files' = DOMAIN files \cup {t}
             /\ \A n \in DOMAIN files' :
                  files'[n] = IF n = t THEN TheRows(b, e) ELSE files[n]
             /\ written' = Append(written, [boot |-> b, part |-> e])
  <1> DEFINE acc == TheRows(b, e)
  <1>1. /\ is_header(acc) <=> e = 1
        /\ ~Truncated(acc) /\ is_valid(acc)
        /\ data(acc) = acc /\ acc[1].boot = b /\ acc[1].part = e
    BY TheRowsFacts
  <1>2. WriteEntry(acc)
    OBVIOUS
  <1> HIDE DEF acc
  <1>3. session_id' \in IF e = 1 THEN Seconds ELSE {session_id}
    BY <1>1, <1>2 DEF WriteEntry
  <1>4. /\ session_id' \in Nat /\ session_id' >= session_id /\ session_id' > 0
        /\ e = 1 /\ ~SameSecond => session_id' = session_id + 1
        /\ e # 1 => session_id' = session_id
    <2>1. e \in Nat /\ e >= 1
      BY RowsFacts DEF Part
    <2> QED
      BY <1>3, <2>1 DEF Seconds
  <1>5. alive' = TRUE
    BY <1>1, <1>2 DEF WriteEntry
  <1>6. topic(session_id', acc) = <<session_id', e>>
    BY <1>1 DEF topic
  <1>7. /\ files' = [t \in DOMAIN files \cup {topic(session_id', acc)} |->
                      IF t = topic(session_id', acc) THEN data(acc) ELSE files[t]]
        /\ written' = Append(written, [boot |-> acc[1].boot, part |-> acc[1].part])
    BY <1>1, <1>2, <1>5 DEF WriteEntry
  <1> QED
    BY <1>1, <1>4, <1>5, <1>6, <1>7 DEF acc

-----------------------------------------------------------------------------
(* The inductive invariant.                                                *)

Types ==
  /\ boot \in Boot
  /\ entry \in 0 .. Len(Rows) + 1
  /\ lineNo \in 0 .. IF entry \in Part THEN LastLine(entry) ELSE 0
  /\ entry <= Len(Rows) => done \in 0 .. Len(Text(boot, entry, lineNo)) - 1
  /\ log \in Seq(Token)
  /\ printed \in Seq(Entry) /\ written \in Seq(Entry)
  /\ parsing \in BOOLEAN /\ block \in BOOLEAN /\ alive \in BOOLEAN
  /\ session_id \in Nat
  /\ DOMAIN files \subseteq (1 .. session_id) \X Part

\* The alert of the boot has been given a session.
Headed(p) == p.entry > 1 \/ (p.entry = 1 /\ Completes(p))

\* What the receiver has, having read up to p: inside an entry the rows so far,
\* and the session of the alert, whose files are all of this boot.
Received(p) ==
  /\ alive
  /\ p.entry # 0 /\ p.line \in 1 .. LastLine(p.entry) - 1 =>
       block /\ accumulated = [r \in 1 .. p.line - 1 |-> RowOf(p.boot, p.entry, r)]
  /\ Headed(p) =>
       /\ session_id > 0
       /\ ~SameSecond =>
            \A t \in DOMAIN files : t[1] = session_id => files[t] = TheRows(p.boot, t[2])

\* The place of the token printed next.
Here == [boot |-> boot, entry |-> entry, line |-> lineNo, col |-> done + 1, no |-> 0]

\* The places `at' explain the log and what the receiver has.
Traced(at) ==
  /\ Tokens(at, log) /\ Linked(at, Len(log)) /\ Lines(at, Len(log))
  /\ Counts(at, Len(log), printed)
  /\ Exists(at[0]) /\ Ends(at[0])
  /\ at[0].no = Len(written) /\ at[Len(log)].no = Len(printed)
  /\ entry <= Len(Rows) => Behind(at[Len(log)], Here)
  /\ Received(at[0])

LinkInv ==
  /\ Types
  /\ ~SameSecond => SessionHoldsOneAlert
  /\ \E at \in [0 .. Len(log) -> Place] : Traced(at)

LEMMA InitLinkInv == Init => LinkInv
  <1> SUFFICES ASSUME Init PROVE LinkInv
    OBVIOUS
  <1> DEFINE first == [boot |-> 0, entry |-> 0, line |-> 0, col |-> 2, no |-> 0]
             at == [i \in 0 .. 0 |-> first]
  <1>1. first \in Place /\ at \in [0 .. 0 -> Place] /\ at[0] = first
    BY RowsFacts DEF Place
  <1>2. Len(log) = 0 /\ Len(printed) = 0 /\ Len(written) = 0 /\ DOMAIN files = {}
    BY DEF Init
  <1>3. TextAt(first) = <<Tok("text"), Tok("nl")>> /\ Len(TextAt(first)) = 2
    BY DEF TextAt, Text
  <1>4. Exists(first) /\ Ends(first)
    <2>1. first.entry = 0 /\ first.line = 0 /\ first.col = 2
      OBVIOUS
    <2> HIDE DEF first
    <2>2. 0 \in 0 .. Len(Rows) /\ 0 \in 0 .. LastLine(0) /\ 2 \in 1 .. 2
      BY RowsFacts
    <2> QED
      BY <1>3, <2>1, <2>2 DEF Exists, Ends
  <1>5. Types
    <2>1. Text(boot, entry, lineNo) = <<Tok("text"), Tok("nl")>>
      BY DEF Init, Text
    <2>2. Len(Text(boot, entry, lineNo)) = 2
      BY <2>1
    <2>3. 1 \in Boot
      BY SerialAssumption DEF Boot
    <2>4. boot \in Boot /\ entry = 0 /\ lineNo = 0 /\ done = 0
      BY <2>3 DEF Init
    <2>5. 0 \in 0 .. Len(Rows) + 1 /\ 0 \notin Part
      BY RowsFacts DEF Part
    <2>6. 0 \in 0 .. Len(Text(boot, entry, lineNo)) - 1
      BY <2>2
    <2>7. /\ log \in Seq(Token) /\ printed \in Seq(Entry) /\ written \in Seq(Entry)
          /\ parsing \in BOOLEAN /\ block \in BOOLEAN /\ alive \in BOOLEAN
          /\ session_id \in Nat
      <3>1. log \in Seq(Token) /\ printed \in Seq(Entry) /\ written \in Seq(Entry)
        BY EmptySeq DEF Init
      <3> QED
        BY <3>1 DEF Init
    <2> QED
      BY <1>2, <2>4, <2>5, <2>6, <2>7 DEF Types
  <1>6. Tokens(at, log) /\ Linked(at, Len(log)) /\ Lines(at, Len(log))
    BY <1>2 DEF Tokens, Linked, Lines
  <1>7. Counts(at, Len(log), printed)
    BY <1>2 DEF Counts
  <1>8. Received(first)
    BY <1>2 DEF Received, Headed, Init
  <1>9. Behind(first, Here)
    BY DEF Behind, Here, Init
  <1> HIDE DEF first
  <1>10. Traced(at)
    BY <1>1, <1>2, <1>4, <1>6, <1>7, <1>8, <1>9 DEF Traced, first
  <1>11. SessionHoldsOneAlert
    BY <1>2 DEF SessionHoldsOneAlert
  <1> HIDE DEF at
  <1> QED
    BY <1>1, <1>2, <1>5, <1>10, <1>11 DEF LinkInv

-----------------------------------------------------------------------------
(* The device's steps.                                                     *)

LEMMA LineExists ==
  ASSUME NEW b \in Nat, NEW p \in 0 .. Len(Rows), NEW l \in 0 .. LastLine(p)
  PROVE  /\ Text(b, p, l) \in Seq(Token) /\ Len(Text(b, p, l)) \in Nat
         /\ Len(Text(b, p, l)) >= 1
  <1> DEFINE q == [boot |-> b, entry |-> p, line |-> l, col |-> 1, no |-> 0]
  <1>1. q \in Place /\ q.line \in 0 .. LastLine(q.entry) /\ TextAt(q) = Text(b, p, l)
    <2>1. l \in Nat
      BY RowsFacts
    <2> QED
      BY <2>1 DEF Place, TextAt
  <1> HIDE DEF q
  <1> DEFINE t == TextAt(q)
  <1>2. /\ t \in Seq(Token)
        /\ InFirst(q) \/ InBlank(q) \/ InBegin(q) \/ InRow(q) \/ InEnd(q)
        /\ InFirst(q) => Len(t) = 2
        /\ InBlank(q) => Len(t) = 1
        /\ InBegin(q) => Len(t) = 6
        /\ InRow(q)   => Len(t) = 7
        /\ InEnd(q)   => Len(t) = 6
    BY <1>1, LineText DEF IsMark, IsData
  <1>3. Text(b, p, l) = t
    BY <1>1
  <1> HIDE DEF t
  <1>4. t \in Seq(Token) /\ Len(t) \in Nat /\ Len(t) >= 1
    <2>1. Len(t) = 1 \/ Len(t) = 2 \/ Len(t) = 6 \/ Len(t) = 7
      BY <1>2, Zenon
    <2>2. t \in Seq(Token)
      BY <1>2, Zenon
    <2> DEFINE n == Len(t)
    <2> HIDE DEF n
    <2>3. n = 1 \/ n = 2 \/ n = 6 \/ n = 7
      BY <2>1 DEF n
    <2>4. n \in Nat /\ n >= 1
      BY <2>3
    <2> QED
      BY <2>2, <2>4, Zenon DEF n
  <1> QED
    BY <1>3, <1>4, Zenon

\* The place of the token to be printed.
LEMMA HereExists ==
  ASSUME Types, entry <= Len(Rows), NEW n \in Nat
  PROVE  LET q == [boot |-> boot, entry |-> entry, line |-> lineNo, col |-> done + 1, no |-> n]
         IN  /\ q \in Place /\ Exists(q) /\ TextAt(q) = Text(boot, entry, lineNo)
             /\ boot \in Nat /\ entry \in 0 .. Len(Rows) /\ lineNo \in 0 .. LastLine(entry)
             /\ done \in Nat /\ done + 1 <= Len(Text(boot, entry, lineNo))
             /\ Text(boot, entry, lineNo) \in Seq(Token)
             /\ Len(Text(boot, entry, lineNo)) \in Nat
  <1> DEFINE q == [boot |-> boot, entry |-> entry, line |-> lineNo, col |-> done + 1, no |-> n]
  <1>1. boot \in Nat /\ entry \in 0 .. Len(Rows)
    BY RowsFacts, SerialAssumption DEF Types, Boot
  <1>2. lineNo \in 0 .. LastLine(entry) /\ lineNo \in Nat
    BY <1>1, RowsFacts DEF Types, Part
  <1>3. Text(boot, entry, lineNo) \in Seq(Token) /\ Len(Text(boot, entry, lineNo)) \in Nat
    BY <1>1, <1>2, LineExists
  <1>4. done \in Nat /\ done + 1 \in 1 .. Len(Text(boot, entry, lineNo))
    BY <1>3 DEF Types
  <1>5. q \in Place
    BY <1>1, <1>2, <1>4 DEF Place
  <1>6. TextAt(q) = Text(boot, entry, lineNo)
    BY DEF TextAt
  <1>7. Exists(q)
    BY <1>1, <1>2, <1>4, <1>6 DEF Exists
  <1> QED
    BY <1>1, <1>2, <1>3, <1>4, <1>5, <1>6, <1>7

\* The next place stays one of the output.
LEMMA TransmitTypes ==
  ASSUME Types, Transmit
  PROVE  Types'
  <1>1. /\ boot \in Nat /\ entry \in 0 .. Len(Rows) /\ lineNo \in 0 .. LastLine(entry)
        /\ done \in Nat /\ done + 1 <= Len(Text(boot, entry, lineNo))
        /\ Text(boot, entry, lineNo) \in Seq(Token)
        /\ Len(Text(boot, entry, lineNo)) \in Nat
    BY HereExists DEF Transmit
  <1>2. log' \in Seq(Token)
    <2>1. Text(boot, entry, lineNo)[done + 1] \in Token
      BY <1>1
    <2> QED
      BY <2>1 DEF Types, Transmit
  <1>3. UNCHANGED <<boot, written, parsing, block, alive, session_id, files>>
    BY DEF Transmit, receiver
  <1>4. /\ entry' \in 0 .. Len(Rows) + 1
        /\ lineNo' \in 0 .. IF entry' \in Part THEN LastLine(entry') ELSE 0
        /\ entry' <= Len(Rows) => done' \in 0 .. Len(Text(boot, entry', lineNo')) - 1
        /\ printed' \in Seq(Entry)
    <2>1. CASE done + 1 < Len(Text(boot, entry, lineNo))
      <3>1. done' = done + 1 /\ UNCHANGED <<entry, lineNo, printed>>
        BY <2>1 DEF Transmit
      <3> QED
        BY <1>1, <2>1, <3>1, RowsFacts DEF Types
    <2>2. CASE ~(done + 1 < Len(Text(boot, entry, lineNo)))
      <3>1. NextLine /\ done' = 0
        BY <2>2 DEF Transmit, NextLine
      <3>2. CASE lineNo < LastLine(entry)
        <4>1. lineNo' = lineNo + 1 /\ entry' = entry /\ printed' = printed
          BY <3>1, <3>2 DEF NextLine
        <4>2. lineNo' \in 0 .. LastLine(entry') /\ entry \in Part
          BY <1>1, <3>2, <4>1, RowsFacts DEF Part
        <4>3. Len(Text(boot, entry', lineNo')) \in Nat /\ Len(Text(boot, entry', lineNo')) >= 1
          BY <1>1, <4>1, <4>2, LineExists
        <4> QED
          BY <1>1, <3>1, <4>1, <4>2, <4>3 DEF Types
      <3>3. CASE ~(lineNo < LastLine(entry))
        <4>1. /\ lineNo' = 0 /\ entry' = entry + 1
              /\ printed' = IF entry = 0 THEN printed ELSE Append(printed, [boot |-> boot, part |-> entry])
          BY <3>1, <3>3 DEF NextLine
        <4>2. printed' \in Seq(Entry)
          <5>1. CASE entry = 0
            BY <4>1, <5>1 DEF Types
          <5>2. CASE entry # 0
            <6>1. [boot |-> boot, part |-> entry] \in Entry
              BY <1>1, <5>2, RowsFacts DEF Entry, Types, Part
            <6> QED
              BY <4>1, <5>2, <6>1 DEF Types
          <5> QED
            BY <5>1, <5>2
        <4>3. entry' \in 0 .. Len(Rows) + 1
          BY <1>1, <4>1, RowsFacts
        <4>4. lineNo' \in 0 .. IF entry' \in Part THEN LastLine(entry') ELSE 0
          BY <4>1, RowsFacts DEF Part
        <4>5. ASSUME entry' <= Len(Rows)
              PROVE  done' \in 0 .. Len(Text(boot, entry', lineNo')) - 1
          <5>1. entry' \in 0 .. Len(Rows) /\ lineNo' \in 0 .. LastLine(entry')
            BY <1>1, <4>1, <4>5, RowsFacts
          <5>2. Len(Text(boot, entry', lineNo')) \in Nat /\ Len(Text(boot, entry', lineNo')) >= 1
            BY <1>1, <5>1, LineExists
          <5> QED
            BY <3>1, <5>2
        <4> QED
          BY <4>2, <4>3, <4>4, <4>5
      <3> QED
        BY <3>2, <3>3
    <2> QED
      BY <2>1, <2>2
  <1> QED
    BY <1>2, <1>3, <1>4 DEF Types

\* A reset leaves the log: the first line of the boot may follow anything.
LEMMA ResetKeeps ==
  ASSUME LinkInv, DeviceReset
  PROVE  LinkInv'
  <1>1. Types /\ UNCHANGED <<log, printed, receiver>>
    BY DEF LinkInv, DeviceReset
  <1>2. Types'
    <2>1. boot' \in Boot /\ boot' \in Nat
      BY <1>1, SerialAssumption DEF DeviceReset, Types, Boot
    <2>2. entry' = 0 /\ lineNo' = 0 /\ done' = 0
      BY DEF DeviceReset
    <2>3. 0 \in 0 .. Len(Rows) /\ 0 \in 0 .. LastLine(0) /\ 0 \notin Part /\ 0 \in 0 .. Len(Rows) + 1
      BY RowsFacts DEF Part
    <2>4. 0 \in 0 .. Len(Text(boot', entry', lineNo')) - 1
      BY <2>1, <2>2, <2>3, LineExists
    <2> QED
      BY <1>1, <2>1, <2>2, <2>3, <2>4 DEF Types, receiver
  <1>3. PICK at \in [0 .. Len(log) -> Place] : Traced(at)
    BY DEF LinkInv
  <1>4. Behind(at[Len(log)], Here)'
    BY DEF Behind, Here, DeviceReset
  <1>5. Traced(at)'
    BY <1>1, <1>3, <1>4 DEF Traced, Received, receiver
  <1>6. (~SameSecond => SessionHoldsOneAlert)'
    BY <1>1 DEF LinkInv, SessionHoldsOneAlert, receiver
  <1> QED
    BY <1>1, <1>2, <1>3, <1>5, <1>6 DEF LinkInv

\* One more token at the end of the log: the places of the log are those of
\* `at', and q behind them.
Extends(w, at, n, q) ==
  /\ w \in [0 .. n + 1 -> Place] /\ w[n + 1] = q
  /\ \A i \in 0 .. n : w[i] = at[i]

\* The conjuncts of Traced about the log, one by one.
LEMMA LinesExtend ==
  ASSUME NEW n \in Nat, NEW at \in [0 .. n -> Place], NEW q \in Place, NEW w,
         Extends(w, at, n, q), Lines(at, n), Behind(at[n], q), Ends(at[0])
  PROVE  Lines(w, n + 1)
  <1> SUFFICES ASSUME NEW i \in 1 .. n + 1, NEW k \in 0 .. w[i].col - 1
               PROVE  /\ k < i
                      /\ w[i - k].boot = w[i].boot /\ w[i - k].entry = w[i].entry
                      /\ w[i - k].line = w[i].line /\ w[i - k].col = w[i].col - k
    BY DEF Lines
  <1>1. \A j \in 1 .. n : \A m \in 0 .. at[j].col - 1 :
          /\ m < j
          /\ at[j - m].boot = at[j].boot /\ at[j - m].entry = at[j].entry
          /\ at[j - m].line = at[j].line /\ at[j - m].col = at[j].col - m
    BY DEF Lines
  <1>2. w[n + 1] = q /\ \A j \in 0 .. n : w[j] = at[j]
    BY DEF Extends
  <1>3. at[n] \in Place /\ at[n].col \in Nat /\ q.col \in Nat
    <2>1. at[n] \in Place
      OBVIOUS
    <2> QED
      BY <2>1 DEF Place
  <1>4. CASE i \in 1 .. n
    <2>1. w[i] = at[i]
      BY <1>2, <1>4
    <2>2. k < i /\ at[i - k].boot = at[i].boot /\ at[i - k].entry = at[i].entry
          /\ at[i - k].line = at[i].line /\ at[i - k].col = at[i].col - k
      BY <1>1, <1>4, <2>1
    <2>3. i - k \in 0 .. n
      BY <1>4, <2>2
    <2>4. w[i - k] = at[i - k]
      BY <1>2, <2>3
    <2> QED
      BY <2>1, <2>2, <2>4
  <1>5. CASE i = n + 1 /\ k = 0
    <2>1. w[i] = q /\ i - k = i /\ q.col - k = q.col
      BY <1>2, <1>3, <1>5
    <2> QED
      BY <1>5, <2>1
  <1>6. CASE i = n + 1 /\ k # 0
    <2>1. w[i] = q /\ k \in 1 .. q.col - 1 /\ q.col > 1
      BY <1>2, <1>3, <1>6
    <2>2. ~Ends(at[n]) /\ q.boot = at[n].boot /\ q.entry = at[n].entry /\ q.line = at[n].line
          /\ q.col = at[n].col + 1
      BY <1>3, <2>1 DEF Behind
    <2>3. n \in 1 .. n
      BY <2>2
    <2>4. k - 1 \in 0 .. at[n].col - 1
      BY <1>3, <2>1, <2>2
    <2>5. /\ k - 1 < n
          /\ at[n - (k - 1)].boot = at[n].boot /\ at[n - (k - 1)].entry = at[n].entry
          /\ at[n - (k - 1)].line = at[n].line /\ at[n - (k - 1)].col = at[n].col - (k - 1)
      BY <1>1, <2>3, <2>4
    <2>6. /\ k < i /\ n - (k - 1) = i - k /\ i - k \in 0 .. n
          /\ at[n].col - (k - 1) = q.col - k
      BY <1>3, <1>6, <2>1, <2>2, <2>5
    <2>7. w[i - k] = at[n - (k - 1)]
      BY <1>2, <2>6
    <2> QED
      BY <2>1, <2>2, <2>5, <2>6, <2>7
  <1>7. i \in 1 .. n \/ i = n + 1
    OBVIOUS
  <1> QED
    BY <1>4, <1>5, <1>6, <1>7, Zenon

LEMMA CountsExtend ==
  ASSUME NEW n \in Nat, NEW at \in [0 .. n -> Place], NEW q \in Place, NEW w,
         NEW prints \in Seq(Entry), NEW more \in Seq(Entry),
         Extends(w, at, n, q), Counts(at, n, prints), at[n].no = Len(prints), q.no = Len(more),
         Completes(q) => more = Append(prints, [boot |-> q.boot, part |-> q.entry]),
         ~Completes(q) => more = prints
  PROVE  Counts(w, n + 1, more)
  <1>1. w[n + 1] = q /\ \A j \in 0 .. n : w[j] = at[j]
    BY DEF Extends
  <1>2. \A i \in 0 .. n : \A j \in i .. n :
          (\A m \in i + 1 .. j : ~Completes(at[m])) => at[j].no = at[i].no
    BY DEF Counts
  <1>3. \A i \in 1 .. n : Completes(at[i]) =>
          /\ at[i].no = at[i - 1].no + 1 /\ at[i].no \in 1 .. Len(prints)
          /\ prints[at[i].no] = [boot |-> at[i].boot, part |-> at[i].entry]
    BY DEF Counts
  <1>4. ASSUME NEW i \in 0 .. n + 1, NEW j \in i .. n + 1,
               \A m \in i + 1 .. j : ~Completes(w[m])
        PROVE  w[j].no = w[i].no
    <2>1. CASE i = j
      BY <2>1
    <2>2. CASE j \in 0 .. n
      <3>1. \A m \in i + 1 .. j : m \in 0 .. n
        BY <2>2
      <3>2. \A m \in i + 1 .. j : ~Completes(at[m])
        BY <1>1, <1>4, <3>1
      <3>3. i \in 0 .. n /\ j \in i .. n
        BY <2>2
      <3>4. at[j].no = at[i].no
        BY <1>2, <3>2, <3>3
      <3> QED
        BY <1>1, <2>2, <3>3, <3>4
    <2>3. CASE i # j /\ j \notin 0 .. n
      <3>1. j = n + 1 /\ i \in 0 .. n /\ n \in i .. n /\ n \in 0 .. n /\ j \in i + 1 .. j
        BY <2>3
      <3>2. \A m \in i + 1 .. n : m \in 0 .. n /\ m \in i + 1 .. j
        BY <3>1
      <3>3. \A m \in i + 1 .. n : ~Completes(at[m])
        BY <1>1, <1>4, <3>2
      <3>4. at[n].no = at[i].no
        BY <1>2, <3>1, <3>3
      <3>5. ~Completes(w[j]) /\ w[j] = q
        BY <1>1, <1>4, <3>1
      <3>6. q.no = at[n].no
        BY <3>5
      <3> QED
        BY <1>1, <3>1, <3>4, <3>5, <3>6
    <2> QED
      BY <2>1, <2>2, <2>3, Zenon
  <1>5. ASSUME NEW i \in 1 .. n + 1, Completes(w[i])
        PROVE  /\ w[i].no = w[i - 1].no + 1 /\ w[i].no \in 1 .. Len(more)
               /\ more[w[i].no] = [boot |-> w[i].boot, part |-> w[i].entry]
    <2>1. CASE i \in 1 .. n
      <3>1. i \in 0 .. n /\ i - 1 \in 0 .. n
        BY <2>1
      <3>2. w[i] = at[i] /\ w[i - 1] = at[i - 1]
        BY <1>1, <3>1
      <3>3. /\ at[i].no = at[i - 1].no + 1 /\ at[i].no \in 1 .. Len(prints)
            /\ prints[at[i].no] = [boot |-> at[i].boot, part |-> at[i].entry]
        BY <1>3, <1>5, <2>1, <3>2
      <3>4. Len(more) >= Len(prints) /\ \A m \in 1 .. Len(prints) : more[m] = prints[m]
        <4>1. CASE Completes(q)
          <5>1. more = Append(prints, [boot |-> q.boot, part |-> q.entry])
            BY <4>1
          <5> QED
            BY <5>1
        <4>2. CASE ~Completes(q)
          BY <4>2
        <4> QED
          BY <4>1, <4>2
      <3>5. w[i].no \in 1 .. Len(more)
        BY <3>2, <3>3, <3>4
      <3> QED
        BY <3>2, <3>3, <3>4, <3>5
    <2>2. CASE i = n + 1
      <3>1. n \in 0 .. n /\ i - 1 = n
        BY <2>2
      <3>2. w[i] = q /\ w[i - 1] = at[n]
        BY <1>1, <2>2, <3>1
      <3>3. more = Append(prints, [boot |-> q.boot, part |-> q.entry])
        BY <1>5, <3>2
      <3>4. /\ Len(more) = Len(prints) + 1 /\ Len(prints) \in Nat
            /\ more[Len(prints) + 1] = [boot |-> q.boot, part |-> q.entry]
        BY <3>3
      <3> QED
        BY <3>2, <3>4
    <2>3. i \in 1 .. n \/ i = n + 1
      OBVIOUS
    <2> QED
      BY <2>1, <2>2, <2>3, Zenon
  <1> QED
    BY <1>4, <1>5 DEF Counts

LEMMA TokensExtend ==
  ASSUME NEW text \in Seq(Token), NEW n \in Nat, n = Len(text),
         NEW at \in [0 .. n -> Place], NEW q \in Place, NEW w, NEW long,
         Extends(w, at, n, q), Tokens(at, text), Exists(q), q.boot \in Boot,
         long = Append(text, TextAt(q)[q.col])
  PROVE  Tokens(w, long)
  <1>1. w[n + 1] = q /\ \A j \in 0 .. n : w[j] = at[j]
    BY DEF Extends
  <1>2. \A i \in 1 .. n : at[i].boot \in Boot /\ Exists(at[i]) /\ text[i] = TextAt(at[i])[at[i].col]
    BY DEF Tokens
  <1>3. /\ Len(long) = n + 1 /\ long[n + 1] = TextAt(q)[q.col]
        /\ \A i \in 1 .. n : long[i] = text[i]
    OBVIOUS
  <1> SUFFICES ASSUME NEW i \in 1 .. n + 1
               PROVE  w[i].boot \in Boot /\ Exists(w[i]) /\ long[i] = TextAt(w[i])[w[i].col]
    BY <1>3 DEF Tokens
  <1>4. CASE i \in 1 .. n
    <2>1. w[i] = at[i]
      BY <1>1, <1>4
    <2> QED
      BY <1>2, <1>3, <1>4, <2>1
  <1>5. CASE i = n + 1
    BY <1>1, <1>3, <1>5
  <1> QED
    BY <1>4, <1>5

LEMMA LinkedExtend ==
  ASSUME NEW n \in Nat, NEW at \in [0 .. n -> Place], NEW q \in Place, NEW w,
         Extends(w, at, n, q), Linked(at, n), Behind(at[n], q)
  PROVE  Linked(w, n + 1)
  <1>1. w[n + 1] = q /\ \A j \in 0 .. n : w[j] = at[j]
    BY DEF Extends
  <1> SUFFICES ASSUME NEW i \in 1 .. n + 1 PROVE Behind(w[i - 1], w[i])
    BY DEF Linked
  <1>2. CASE i \in 1 .. n
    <2>1. i \in 0 .. n /\ i - 1 \in 0 .. n
      BY <1>2
    <2>2. w[i] = at[i] /\ w[i - 1] = at[i - 1]
      BY <1>1, <2>1
    <2>3. Behind(at[i - 1], at[i])
      BY <1>2 DEF Linked
    <2> QED
      BY <2>2, <2>3, Zenon
  <1>3. CASE i = n + 1
    <2>1. n \in 0 .. n /\ i - 1 = n
      BY <1>3
    <2>2. w[i] = q /\ w[i - 1] = at[n]
      BY <1>1, <1>3, <2>1
    <2> QED
      BY <2>2, Zenon
  <1>4. i \in 1 .. n \/ i = n + 1
    OBVIOUS
  <1> QED
    BY <1>2, <1>3, <1>4, Zenon

LEMMA Extended ==
  ASSUME NEW n \in Nat, NEW at \in [0 .. n -> Place], NEW q \in Place
  PROVE  \E w : Extends(w, at, n, q)
  <1> DEFINE w == [i \in 0 .. n + 1 |-> IF i <= n THEN at[i] ELSE q]
  <1>1. Extends(w, at, n, q)
    BY DEF Extends
  <1> QED
    BY <1>1

\* One more token, at the place Here.
LEMMA TransmitKeeps ==
  ASSUME LinkInv, Transmit
  PROVE  LinkInv'
  <1>1. /\ Types /\ entry <= Len(Rows) /\ UNCHANGED <<boot, receiver>>
        /\ log' = Append(log, Text(boot, entry, lineNo)[done + 1])
    BY DEF LinkInv, Transmit
  <1>2. Types'
    BY <1>1, TransmitTypes
  <1>3. PICK at \in [0 .. Len(log) -> Place] : Traced(at)
    BY DEF LinkInv
  <1>4. PICK q : q = [boot |-> boot, entry |-> entry, line |-> lineNo, col |-> done + 1,
                      no |-> Len(printed')]
    OBVIOUS
  <1>5. /\ q \in Place /\ Exists(q) /\ TextAt(q) = Text(boot, entry, lineNo) /\ q.boot \in Boot
        /\ q.boot = boot /\ q.entry = entry /\ q.line = lineNo /\ q.col = done + 1
        /\ q.no = Len(printed') /\ done \in Nat /\ Len(TextAt(q)) \in Nat
        /\ q.col <= Len(TextAt(q)) /\ lineNo \in 0 .. LastLine(entry)
        /\ entry \in 0 .. Len(Rows) /\ LastLine(entry) \in Nat
    <2>1. printed' \in Seq(Entry) /\ Len(printed') \in Nat
      BY <1>2 DEF Types
    <2>2. /\ q \in Place /\ Exists(q) /\ TextAt(q) = Text(boot, entry, lineNo)
          /\ done \in Nat /\ done + 1 <= Len(Text(boot, entry, lineNo))
          /\ Len(Text(boot, entry, lineNo)) \in Nat
          /\ lineNo \in 0 .. LastLine(entry) /\ entry \in 0 .. Len(Rows)
      BY <1>1, <1>4, <2>1, HereExists
    <2>3. LastLine(entry) \in Nat
      BY <2>2, RowsFacts
    <2> QED
      BY <1>1, <1>4, <2>2, <2>3 DEF Types
  <1>6. /\ printed' = IF Completes(q) THEN Append(printed, [boot |-> q.boot, part |-> q.entry])
                      ELSE printed
        /\ entry' <= Len(Rows) => Behind(q, [boot |-> boot', entry |-> entry', line |-> lineNo',
                                             col |-> done' + 1, no |-> 0])
    <2>1. CASE ~Ends(q)
      <3>1. done' = done + 1 /\ UNCHANGED <<entry, lineNo, printed>>
        BY <1>5, <2>1 DEF Transmit, Ends
      <3> QED
        BY <1>1, <1>5, <2>1, <3>1 DEF Behind, Completes
    <2>2. CASE Ends(q)
      <3>1. NextLine /\ done' = 0
        BY <1>5, <2>2 DEF Transmit, NextLine, Ends
      <3>2. CASE lineNo < LastLine(entry)
        <4>1. lineNo' = lineNo + 1 /\ entry' = entry /\ printed' = printed
          BY <3>1, <3>2 DEF NextLine
        <4>2. ~Completes(q)
          BY <1>5, <3>2 DEF Completes
        <4> QED
          BY <1>1, <1>5, <2>2, <3>1, <3>2, <4>1, <4>2 DEF Behind
      <3>3. CASE ~(lineNo < LastLine(entry))
        <4>1. /\ lineNo' = 0 /\ entry' = entry + 1
              /\ printed' = IF entry = 0 THEN printed ELSE Append(printed, [boot |-> boot, part |-> entry])
          BY <3>1, <3>3 DEF NextLine
        <4>2. Completes(q) <=> entry # 0
          <5>1. lineNo = LastLine(entry)
            BY <1>5, <3>3
          <5> QED
            BY <1>5, <2>2, <5>1 DEF Completes
        <4> QED
          BY <1>1, <1>5, <2>2, <3>1, <3>3, <4>1, <4>2 DEF Behind
      <3> QED
        BY <3>2, <3>3
    <2> QED
      BY <2>1, <2>2
  <1>7. /\ log \in Seq(Token) /\ Len(log) \in Nat /\ printed \in Seq(Entry)
        /\ printed' \in Seq(Entry) /\ log' = Append(log, TextAt(q)[q.col])
        /\ Tokens(at, log) /\ Linked(at, Len(log)) /\ Lines(at, Len(log))
        /\ Counts(at, Len(log), printed) /\ Ends(at[0]) /\ at[Len(log)].no = Len(printed)
        /\ Behind(at[Len(log)], q)
    <2>1. Behind(at[Len(log)], Here)
      BY <1>1, <1>3 DEF Traced
    <2>2. Behind(at[Len(log)], q)
      BY <1>4, <2>1 DEF Behind, Here
    <2> QED
      BY <1>1, <1>2, <1>3, <1>5, <2>2 DEF Types, Traced
  <1>8. PICK w : Extends(w, at, Len(log), q)
    BY <1>5, <1>7, Extended
  <1>9. /\ w \in [0 .. Len(log) + 1 -> Place]
        /\ Tokens(w, log') /\ Linked(w, Len(log) + 1) /\ Lines(w, Len(log) + 1)
        /\ Counts(w, Len(log) + 1, printed') /\ w[0] = at[0] /\ w[Len(log) + 1] = q
    <2>1. Tokens(w, log')
      BY <1>5, <1>7, <1>8, TokensExtend
    <2>2. Linked(w, Len(log) + 1)
      BY <1>5, <1>7, <1>8, LinkedExtend
    <2>3. Lines(w, Len(log) + 1)
      BY <1>5, <1>7, <1>8, LinesExtend
    <2>4. Counts(w, Len(log) + 1, printed')
      <3>1. /\ Completes(q) => printed' = Append(printed, [boot |-> q.boot, part |-> q.entry])
            /\ ~Completes(q) => printed' = printed
        BY <1>6
      <3> QED
        BY <1>5, <1>7, <1>8, <3>1, CountsExtend
    <2>5. w \in [0 .. Len(log) + 1 -> Place] /\ w[0] = at[0] /\ w[Len(log) + 1] = q
      BY <1>7, <1>8 DEF Extends
    <2> QED
      BY <2>1, <2>2, <2>3, <2>4, <2>5
  <1>10. Len(log') = Len(log) + 1
    BY <1>1 DEF Types
  <1>11. Traced(w)'
    <2>1. Received(w[0])'
      BY <1>1, <1>3, <1>9 DEF Traced, Received, receiver
    <2>2. (entry <= Len(Rows) => Behind(w[Len(log)], Here))'
      BY <1>6, <1>9, <1>10 DEF Here
    <2>3. Exists(w[0]) /\ Ends(w[0]) /\ w[0].no = Len(written')
      BY <1>1, <1>3, <1>9 DEF Traced, receiver
    <2> QED
      BY <1>5, <1>9, <1>10, <2>1, <2>2, <2>3 DEF Traced
  <1>12. (~SameSecond => SessionHoldsOneAlert)'
    BY <1>1 DEF LinkInv, SessionHoldsOneAlert, receiver
  <1> QED
    BY <1>2, <1>9, <1>10, <1>11, <1>12 DEF LinkInv

-----------------------------------------------------------------------------
(* The receiver's steps.                                                   *)

\* The log without a line: the places behind the last token of the line.
LEMMA Shortened ==
  ASSUME NEW text \in Seq(Token), NEW n \in Nat, n = Len(text),
         NEW at \in [0 .. n -> Place], NEW prints,
         Tokens(at, text), Linked(at, n), Lines(at, n), Counts(at, n, prints),
         NEW end \in 1 .. n, Ends(at[end]),
         NEW rest, rest = SubSeq(text, end + 1, n),
         NEW w, w = [i \in 0 .. n - end |-> at[i + end]]
  PROVE  /\ rest \in Seq(Token) /\ Len(rest) = n - end /\ n - end \in Nat
         /\ w \in [0 .. n - end -> Place] /\ w[0] = at[end] /\ w[n - end] = at[n]
         /\ Tokens(w, rest) /\ Linked(w, n - end) /\ Lines(w, n - end)
         /\ Counts(w, n - end, prints)
  <1> DEFINE m == n - end
  <1>1. /\ m \in Nat /\ m + end = n /\ end \in Nat /\ end >= 1
        /\ w = [i \in 0 .. m |-> at[i + end]]
    OBVIOUS
  <1> HIDE DEF m
  <1>2. \A i \in 0 .. m : i + end \in 0 .. n
    BY <1>1
  <1>3. w \in [0 .. m -> Place] /\ \A i \in 0 .. m : w[i] = at[i + end]
    BY <1>1, <1>2
  <1>4. w[0] = at[end] /\ w[m] = at[n]
    BY <1>1, <1>3
  <1>5. rest \in Seq(Token) /\ Len(rest) = m /\ \A i \in 1 .. m : rest[i] = text[i + end]
    <2>1. /\ SubSeq(text, end + 1, n) \in Seq(Token) /\ Len(SubSeq(text, end + 1, n)) = n + 1 - (end + 1)
          /\ \A i \in 1 .. n + 1 - (end + 1) : SubSeq(text, end + 1, n)[i] = text[end + 1 + i - 1]
      <3>1. end + 1 \in Nat /\ 1 <= end + 1 /\ end + 1 <= n + 1 /\ n <= Len(text)
        BY <1>1
      <3> QED
        BY <3>1, Cut
    <2>2. n + 1 - (end + 1) = m
      BY <1>1
    <2>3. \A i \in 1 .. m : end + 1 + i - 1 = i + end
      BY <1>1
    <2> QED
      BY <2>1, <2>2, <2>3
  <1>6. Tokens(w, rest)
    <2> SUFFICES ASSUME NEW i \in 1 .. m
                 PROVE  w[i].boot \in Boot /\ Exists(w[i]) /\ rest[i] = TextAt(w[i])[w[i].col]
      BY <1>5 DEF Tokens
    <2>1. i + end \in 1 .. Len(text) /\ i \in 0 .. m
      BY <1>1
    <2>2. /\ at[i + end].boot \in Boot /\ Exists(at[i + end])
          /\ text[i + end] = TextAt(at[i + end])[at[i + end].col]
      BY <2>1 DEF Tokens
    <2> QED
      BY <1>3, <1>5, <2>1, <2>2
  <1>7. Linked(w, m)
    <2> SUFFICES ASSUME NEW i \in 1 .. m PROVE Behind(w[i - 1], w[i])
      BY DEF Linked
    <2>1. i + end \in 1 .. n /\ i \in 0 .. m /\ i - 1 \in 0 .. m /\ i - 1 + end = i + end - 1
      BY <1>1
    <2>2. Behind(at[i + end - 1], at[i + end])
      BY <2>1 DEF Linked
    <2>3. w[i] = at[i + end] /\ w[i - 1] = at[i + end - 1]
      BY <1>3, <2>1
    <2> QED
      BY <2>2, <2>3, Zenon
  <1>8. Lines(w, m)
    <2> SUFFICES ASSUME NEW i \in 1 .. m, NEW k \in 0 .. w[i].col - 1
                 PROVE  /\ k < i
                        /\ w[i - k].boot = w[i].boot /\ w[i - k].entry = w[i].entry
                        /\ w[i - k].line = w[i].line /\ w[i - k].col = w[i].col - k
      BY DEF Lines
    <2>1. i + end \in 1 .. n /\ i \in 0 .. m
      BY <1>1
    <2>2. PICK x \in 1 .. n : x = i + end
      BY <2>1
    <2>3. PICK p \in Place : p = at[x] /\ Exists(p) /\ w[i] = p
      BY <1>3, <2>1, <2>2 DEF Tokens
    <2>4. p.col \in Nat
      BY <2>3 DEF Place
    <2>5. \A j \in 0 .. at[x].col - 1 :
            /\ j < x
            /\ at[x - j].boot = at[x].boot /\ at[x - j].entry = at[x].entry
            /\ at[x - j].line = at[x].line /\ at[x - j].col = at[x].col - j
      BY DEF Lines
    <2>6. k < i
      <3> SUFFICES ASSUME ~(k < i) PROVE FALSE
        OBVIOUS
      <3>1. i \in 0 .. p.col - 1 /\ x - i = end /\ i >= 1
        BY <1>1, <2>2, <2>3, <2>4
      <3>2. /\ at[end].boot = p.boot /\ at[end].entry = p.entry
            /\ at[end].line = p.line /\ at[end].col = p.col - i
        BY <2>3, <2>5, <3>1
      <3>3. at[end].col = Len(TextAt(p))
        BY <3>2 DEF Ends, TextAt
      <3>4. p.col <= Len(TextAt(p)) /\ Len(TextAt(p)) \in Int
        <4>1. p.line \in 0 .. LastLine(p.entry)
          BY <2>3 DEF Exists
        <4>2. TextAt(p) \in Seq(Token)
          BY <4>1, LineText
        <4> QED
          BY <2>3, <4>2 DEF Exists
      <3> QED
        BY <2>4, <3>1, <3>2, <3>3, <3>4
    <2>7. i - k \in 0 .. m /\ x - k = i - k + end
      BY <1>1, <2>2, <2>3, <2>4, <2>6
    <2>8. w[i - k] = at[x - k]
      BY <1>3, <2>7
    <2>9. k \in 0 .. at[x].col - 1
      BY <2>3
    <2> QED
      BY <2>3, <2>5, <2>6, <2>8, <2>9
  <1>9. Counts(w, m, prints)
    <2>1. ASSUME NEW i \in 0 .. m, NEW j \in i .. m, \A l \in i + 1 .. j : ~Completes(w[l])
          PROVE  w[j].no = w[i].no
      <3>1. i + end \in 0 .. n /\ j + end \in i + end .. n /\ j \in 0 .. m
        BY <1>1
      <3>2. ASSUME NEW l \in i + end + 1 .. j + end PROVE ~Completes(at[l])
        <4>1. l - end \in i + 1 .. j /\ l - end \in 0 .. m /\ l - end + end = l
          BY <1>1
        <4>2. w[l - end] = at[l]
          BY <1>3, <4>1
        <4> QED
          BY <2>1, <4>1, <4>2
      <3>3. at[j + end].no = at[i + end].no
        BY <3>1, <3>2 DEF Counts
      <3> QED
        BY <1>3, <3>1, <3>3
    <2>2. ASSUME NEW i \in 1 .. m, Completes(w[i])
          PROVE  /\ w[i].no = w[i - 1].no + 1 /\ w[i].no \in 1 .. Len(prints)
                 /\ prints[w[i].no] = [boot |-> w[i].boot, part |-> w[i].entry]
      <3>1. i + end \in 1 .. n /\ i \in 0 .. m /\ i - 1 \in 0 .. m /\ i - 1 + end = i + end - 1
        BY <1>1
      <3>2. w[i] = at[i + end] /\ w[i - 1] = at[i + end - 1]
        BY <1>3, <3>1
      <3>3. /\ at[i + end].no = at[i + end - 1].no + 1 /\ at[i + end].no \in 1 .. Len(prints)
            /\ prints[at[i + end].no] = [boot |-> at[i + end].boot, part |-> at[i + end].entry]
        BY <2>2, <3>1, <3>2 DEF Counts
      <3> QED
        BY <3>2, <3>3
    <2> QED
      BY <2>1, <2>2 DEF Counts
  <1> QED
    BY <1>1, <1>3, <1>4, <1>5, <1>6, <1>7, <1>8, <1>9 DEF m

\* A line completes at most one entry, the next of those printed.
LEMMA LineCounts ==
  ASSUME NEW n \in Nat, NEW at, NEW prints, Counts(at, n, prints),
         NEW end \in 1 .. n, \A j \in 1 .. end - 1 : ~Ends(at[j])
  PROVE  /\ ~Completes(at[end]) => at[end].no = at[0].no
         /\ Completes(at[end]) =>
              /\ at[end].no = at[0].no + 1 /\ at[end].no \in 1 .. Len(prints)
              /\ prints[at[end].no] = [boot |-> at[end].boot, part |-> at[end].entry]
  <1>1. \A i \in 0 .. n : \A j \in i .. n :
          (\A m \in i + 1 .. j : ~Completes(at[m])) => at[j].no = at[i].no
    BY DEF Counts
  <1>2. \A j \in 1 .. end - 1 : ~Completes(at[j])
    BY DEF Completes
  <1>3. ASSUME ~Completes(at[end]) PROVE at[end].no = at[0].no
    <2>1. \A m \in 0 + 1 .. end : m \in 1 .. end - 1 \/ m = end
      OBVIOUS
    <2>2. \A m \in 0 + 1 .. end : ~Completes(at[m])
      BY <1>2, <1>3, <2>1
    <2>3. 0 \in 0 .. n /\ end \in 0 .. n
      OBVIOUS
    <2> QED
      BY <1>1, <2>2, <2>3
  <1>4. ASSUME Completes(at[end])
        PROVE  /\ at[end].no = at[0].no + 1 /\ at[end].no \in 1 .. Len(prints)
               /\ prints[at[end].no] = [boot |-> at[end].boot, part |-> at[end].entry]
    <2>1. 0 \in 0 .. n /\ end - 1 \in 0 .. n /\ 0 + 1 = 1
      OBVIOUS
    <2>2. at[end - 1].no = at[0].no
      BY <1>1, <1>2, <2>1
    <2> QED
      BY <1>4, <2>2 DEF Counts
  <1> QED
    BY <1>3, <1>4

\* What reading the line of q does.
Handled(q) ==
  /\ InFirst(q) \/ InBlank(q) =>
       UNCHANGED <<block, accumulated, session_id, files, written, alive>>
  /\ InBegin(q) =>
       /\ block' = TRUE /\ accumulated' = <<>>
       /\ UNCHANGED <<session_id, files, written, alive>>
  /\ InRow(q) /\ block =>
       /\ accumulated' = Append(accumulated, RowOf(q.boot, q.entry, q.line - 1))
       /\ UNCHANGED <<block, session_id, files, written, alive>>
  /\ InEnd(q) /\ block /\ accumulated # <<>> =>
       /\ block' = FALSE
       /\ WriteEntry(accumulated)
       /\ UNCHANGED accumulated

\* Whatever was left of lines before it.
LEMMA LineIsHandled ==
  ASSUME NEW q \in Place, Exists(q), NEW line \in Seq(Token),
         InFirst(q) => Len(line) >= 1 /\ line[Len(line)] = Tok("text"),
         ~InFirst(q) => IsLine(line, TextAt(q)),
         IF LineParser(line).ret
         THEN HandleLine(LineParser(line).buffer, DatablockParser(LineParser(line).buffer))
         ELSE UNCHANGED <<block, accumulated, session_id, files, written, alive>>
  PROVE  Handled(q)
  <1>1. /\ InFirst(q) \/ InBlank(q) \/ InBegin(q) \/ InRow(q) \/ InEnd(q)
        /\ InBlank(q) => Len(TextAt(q)) = 1
        /\ InBegin(q) => IsMark(TextAt(q), "Begins")
        /\ InRow(q)   => IsData(TextAt(q), RowOf(q.boot, q.entry, q.line - 1))
        /\ InEnd(q)   => IsMark(TextAt(q), "Ended")
    BY LineText DEF Exists
  <1>2. q.line \in 0 .. LastLine(q.entry) /\ q.entry \in 0 .. Len(Rows)
    BY DEF Exists
  <1>3. q.entry # 0 => LastLine(q.entry) \in Nat /\ LastLine(q.entry) >= 4
    BY <1>2, RowsFacts
  <1>4. ASSUME InFirst(q) \/ InBlank(q) PROVE Handled(q)
    <2>1. ~InBegin(q) /\ ~InRow(q) /\ ~InEnd(q)
      BY <1>3, <1>4 DEF InFirst, InBlank, InBegin, InRow, InEnd
    <2>2. Len(line) = 0 \/ (Len(line) >= 1 /\ line[Len(line)] = Tok("text"))
      <3>1. CASE InFirst(q)
        BY <3>1
      <3>2. CASE ~InFirst(q)
        BY <1>1, <1>4, <3>2 DEF IsLine
      <3> QED
        BY <3>1, <3>2
    <2>3. LineParser(line).ret = FALSE
      BY <2>2, NotClosed
    <2>4. UNCHANGED <<block, accumulated, session_id, files, written, alive>>
      BY <2>3
    <2> QED
      BY <2>1, <2>4 DEF Handled
  <1>5. ASSUME InBegin(q) PROVE Handled(q)
    <2>1. ~InFirst(q) /\ ~InBlank(q) /\ ~InRow(q) /\ ~InEnd(q)
      BY <1>3, <1>5 DEF InFirst, InBlank, InBegin, InRow, InEnd
    <2>2. Opens(line) /\ Closes(line) /\ DatablockParser(line) = "Start"
      BY <1>1, <1>5, <2>1, MarkIsParsed DEF Kinds
    <2>3. HandleLine(line, "Start")
      BY <2>2, Closed
    <2> QED
      BY <2>1, <2>3 DEF Handled, HandleLine, NewBlock
  <1>6. ASSUME InRow(q) PROVE Handled(q)
    <2>1. ~InFirst(q) /\ ~InBlank(q) /\ ~InBegin(q) /\ ~InEnd(q)
      BY <1>3, <1>6 DEF InFirst, InBlank, InBegin, InRow, InEnd
    <2>2. /\ Opens(line) /\ Closes(line) /\ DatablockParser(line) = "Data"
          /\ line[4].row = RowOf(q.boot, q.entry, q.line - 1)
      BY <1>1, <1>6, <2>1, DataIsParsed
    <2>3. HandleLine(line, "Data")
      BY <2>2, Closed
    <2> QED
      BY <2>1, <2>2, <2>3 DEF Handled, HandleLine
  <1>7. ASSUME InEnd(q) PROVE Handled(q)
    <2>1. ~InFirst(q) /\ ~InBlank(q) /\ ~InBegin(q) /\ ~InRow(q)
      BY <1>3, <1>7 DEF InFirst, InBlank, InBegin, InRow, InEnd
    <2>2. Opens(line) /\ Closes(line) /\ DatablockParser(line) = "End"
      BY <1>1, <1>7, <2>1, MarkIsParsed DEF Kinds
    <2>3. HandleLine(line, "End")
      BY <2>2, Closed
    <2> QED
      BY <2>1, <2>3 DEF Handled, HandleLine
  <1> QED
    BY <1>1, <1>4, <1>5, <1>6, <1>7

\* q's line is behind p's, in one piece.
NextAfter(p, q) ==
  /\ q.boot = p.boot
  /\ IF p.line < LastLine(p.entry) THEN q.entry = p.entry /\ q.line = p.line + 1
     ELSE q.entry = p.entry + 1 /\ q.line = 0

\* Inside an entry, and at its end, the receiver has all of it so far.
LEMMA Accumulated ==
  ASSUME NEW p \in Place, Exists(p), NEW q \in Place, Exists(q),
         q.entry # 0, q.line > 1, NextAfter(p, q), Received(p)
  PROVE  /\ p.entry = q.entry /\ p.boot = q.boot /\ block
         /\ accumulated = [r \in 1 .. q.line - 2 |-> RowOf(q.boot, q.entry, r)]
  <1>1. p.line \in 0 .. LastLine(p.entry) /\ q.line \in 0 .. LastLine(q.entry) /\ p.line \in Nat
    BY DEF Exists, Place
  <1>2. p.entry = q.entry /\ p.boot = q.boot /\ q.line = p.line + 1 /\ p.line < LastLine(p.entry)
    BY DEF NextAfter
  <1>3. p.entry \in 0 .. Len(Rows) /\ LastLine(p.entry) \in Nat
    <2>1. p.entry \in 0 .. Len(Rows)
      BY DEF Exists
    <2>2. p.entry \in 1 .. Len(Rows)
      BY <1>2, <2>1, RowsFacts
    <2>3. LastLine(p.entry) \in Nat
      BY <2>2, RowsFacts
    <2> QED
      BY <2>1, <2>3
  <1>4. p.line \in 1 .. LastLine(p.entry) - 1 /\ p.line - 1 = q.line - 2
    BY <1>1, <1>2, <1>3
  <1>5. block /\ accumulated = [r \in 1 .. p.line - 1 |-> RowOf(p.boot, p.entry, r)]
    BY <1>2, <1>4 DEF Received
  <1> QED
    BY <1>2, <1>4, <1>5

\* A row more.
LEMMA RowsAppend ==
  ASSUME NEW b, NEW e, NEW l \in Nat, l >= 2
  PROVE  Append([r \in 1 .. l - 2 |-> RowOf(b, e, r)], RowOf(b, e, l - 1))
           = [r \in 1 .. l - 1 |-> RowOf(b, e, r)]
  <1> DEFINE S == {RowOf(b, e, r) : r \in Nat}
             f == [r \in 1 .. l - 2 |-> RowOf(b, e, r)]
             g == [r \in 1 .. l - 1 |-> RowOf(b, e, r)]
  <1>1. l - 2 \in Nat /\ l - 1 \in Nat /\ l - 1 = (l - 2) + 1
    OBVIOUS
  <1>2. f \in [1 .. l - 2 -> S] /\ g \in [1 .. l - 1 -> S] /\ RowOf(b, e, l - 1) \in S
    BY <1>1
  <1>3. f \in Seq(S) /\ Len(f) = l - 2 /\ g \in Seq(S) /\ Len(g) = l - 1
    BY <1>1, <1>2, Listed
  <1>4. /\ \A r \in 1 .. l - 2 : f[r] = RowOf(b, e, r)
        /\ \A r \in 1 .. l - 1 : g[r] = RowOf(b, e, r)
    OBVIOUS
  <1> HIDE DEF f, g, S
  <1> DEFINE h == Append(f, RowOf(b, e, l - 1))
  <1>5. /\ h \in Seq(S) /\ Len(h) = l - 1 /\ h[l - 1] = RowOf(b, e, l - 1)
        /\ \A r \in 1 .. l - 2 : h[r] = f[r]
    BY <1>1, <1>2, <1>3
  <1> HIDE DEF h
  <1>6. \A r \in 1 .. l - 1 : h[r] = g[r]
    <2> TAKE r \in 1 .. l - 1
    <2>1. CASE r \in 1 .. l - 2
      BY <1>4, <1>5, <2>1
    <2>2. CASE r = l - 1
      BY <1>1, <1>4, <1>5, <2>2
    <2> QED
      BY <1>1, <2>1, <2>2
  <1>7. h = g
    BY <1>1, <1>3, <1>5, <1>6
  <1> QED
    BY <1>7 DEF f, g, h

\* A line that does not complete an entry.
LEMMA LineReceived ==
  ASSUME Types, NEW p \in Place, Exists(p), Ends(p), Received(p),
         NEW q \in Place, Exists(q), Ends(q), ~Completes(q),
         ~InFirst(q) => NextAfter(p, q), Handled(q)
  PROVE  /\ UNCHANGED <<session_id, files, written, alive>>
         /\ block' \in BOOLEAN
         /\ Received(q)'
  <1>1. /\ InFirst(q) \/ InBlank(q) \/ InBegin(q) \/ InRow(q)
    <2>1. InFirst(q) \/ InBlank(q) \/ InBegin(q) \/ InRow(q) \/ InEnd(q)
      BY LineText DEF Exists
    <2>2. ~InEnd(q)
      BY DEF Completes, InEnd
    <2> QED
      BY <2>1, <2>2
  <1>2. q.line \in 0 .. LastLine(q.entry) /\ q.entry \in 0 .. Len(Rows)
    BY DEF Exists
  <1>3. q.entry # 0 => LastLine(q.entry) \in Nat /\ LastLine(q.entry) >= 4
    BY <1>2, RowsFacts
  <1>4. ASSUME InRow(q)
        PROVE  block /\ accumulated = [r \in 1 .. q.line - 2 |-> RowOf(q.boot, q.entry, r)]
    <2>1. q.entry # 0 /\ q.line > 1 /\ ~InFirst(q)
      BY <1>3, <1>4 DEF InRow, InFirst
    <2> QED
      BY <2>1, Accumulated
  <1>5. UNCHANGED <<session_id, files, written, alive>> /\ block' \in BOOLEAN
    BY <1>1, <1>4 DEF Handled, Types
  <1>6. ASSUME q.entry # 0, q.line \in 1 .. LastLine(q.entry) - 1
        PROVE  /\ block' = TRUE
               /\ accumulated' = [r \in 1 .. q.line - 1 |-> RowOf(q.boot, q.entry, r)]
    <2>1. CASE InBegin(q)
      <3>1. block' = TRUE /\ accumulated' = <<>> /\ q.line - 1 = 0
        BY <2>1 DEF Handled, InBegin
      <3>2. [r \in 1 .. 0 |-> RowOf(q.boot, q.entry, r)] = <<>>
        OBVIOUS
      <3> QED
        BY <3>1, <3>2
    <2>2. CASE InRow(q)
      <3>1. /\ block' = block /\ block = TRUE
            /\ accumulated' = Append(accumulated, RowOf(q.boot, q.entry, q.line - 1))
            /\ accumulated = [r \in 1 .. q.line - 2 |-> RowOf(q.boot, q.entry, r)]
        BY <1>4, <2>2 DEF Handled, Types
      <3>2. q.line \in Nat /\ q.line >= 2
        BY <1>3, <2>2 DEF InRow
      <3> QED
        BY <3>1, <3>2, RowsAppend
    <2>3. InBegin(q) \/ InRow(q)
      BY <1>3, <1>6 DEF InBegin, InRow
    <2> QED
      BY <2>1, <2>2, <2>3
  <1>7. ASSUME Headed(q)
        PROVE  /\ Headed(p) /\ q.boot = p.boot
    <2>1. q.entry > 1
      BY <1>7 DEF Headed
    <2>2. NextAfter(p, q) /\ q.boot = p.boot
      BY <2>1 DEF InFirst, NextAfter
    <2>3. p.entry \in 0 .. Len(Rows) /\ p.line \in 0 .. LastLine(p.entry)
      BY DEF Exists
    <2>4. CASE p.line < LastLine(p.entry)
      BY <2>1, <2>2, <2>4 DEF NextAfter, Headed
    <2>5. CASE ~(p.line < LastLine(p.entry))
      <3>1. q.entry = p.entry + 1
        BY <2>2, <2>5 DEF NextAfter
      <3>2. p.entry >= 1
        BY <2>1, <2>3, <3>1, RowsFacts
      <3>3. p.entry \in 1 .. Len(Rows) /\ p.entry # 0
        BY <2>3, <3>2, RowsFacts
      <3>4. LastLine(p.entry) \in Nat
        BY <3>3, RowsFacts
      <3>5. p.line = LastLine(p.entry)
        BY <2>3, <2>5, <3>4
      <3>6. Completes(p)
        BY <3>3, <3>5 DEF Completes
      <3>7. p.entry > 1 \/ p.entry = 1
        BY <3>3
      <3> QED
        BY <2>2, <3>6, <3>7 DEF Headed
    <2> QED
      BY <2>4, <2>5
  <1>8. Received(q)'
    BY <1>5, <1>6, <1>7 DEF Received
  <1> QED
    BY <1>5, <1>8

\* The line that completes one.
LEMMA EntryReceived ==
  ASSUME Types, ~SameSecond => SessionHoldsOneAlert,
         NEW p \in Place, Exists(p), Ends(p), Received(p),
         NEW q \in Place, Exists(q), q.boot \in Boot, Completes(q), NextAfter(p, q), Handled(q)
  PROVE  /\ session_id' \in Nat /\ alive' = TRUE /\ block' \in BOOLEAN
         /\ DOMAIN files' \subseteq (1 .. session_id') \X Part
         /\ written' = Append(written, [boot |-> q.boot, part |-> q.entry])
         /\ Received(q)'
         /\ (~SameSecond => SessionHoldsOneAlert)'
  <1> DEFINE b == q.boot
             e == q.entry
  <1>1. /\ e \in Part /\ e \in Nat /\ q.line = Rows[e] + 2 /\ Rows[e] \in Nat /\ Rows[e] >= 2
        /\ q.line = LastLine(e) /\ e # 0 /\ InEnd(q)
    <2>1. e \in 0 .. Len(Rows) /\ e # 0 /\ q.line = LastLine(e)
      BY DEF Completes, Exists
    <2>2. e \in 1 .. Len(Rows)
      BY <2>1, RowsFacts
    <2> QED
      BY <2>1, <2>2, RowsFacts DEF Part, InEnd
  <1>2. /\ p.entry = e /\ p.boot = b /\ block
        /\ accumulated = [r \in 1 .. q.line - 2 |-> RowOf(b, e, r)]
    BY <1>1, Accumulated
  <1>3. accumulated = TheRows(b, e) /\ accumulated # <<>>
    <2>1. q.line - 2 = Rows[e]
      BY <1>1
    <2>2. accumulated = TheRows(b, e)
      BY <1>2, <2>1 DEF TheRows
    <2> QED
      BY <1>1, <2>2, TheRowsFacts
  <1>4. block' = FALSE /\ WriteEntry(TheRows(b, e))
    BY <1>1, <1>2, <1>3 DEF Handled
  <1>5. e > 1 => Headed(p)
    BY <1>2 DEF Headed
  <1>6. session_id \in Nat /\ (e > 1 => session_id > 0)
    BY <1>5 DEF Types, Received
  <1> HIDE DEF b, e
  <1> DEFINE t == <<session_id', e>>
  <1>7. /\ session_id' \in Nat /\ session_id' >= session_id /\ session_id' > 0
        /\ e = 1 /\ ~SameSecond => session_id' = session_id + 1
        /\ e # 1 => session_id' = session_id
        /\ alive' = TRUE
        /\ DOMAIN files' = DOMAIN files \cup {t}
        /\ \A n \in DOMAIN files' : files'[n] = IF n = t THEN TheRows(b, e) ELSE files[n]
        /\ written' = Append(written, [boot |-> b, part |-> e])
    BY <1>1, <1>4, <1>6, EntryIsWritten DEF b
  <1>8. DOMAIN files' \subseteq (1 .. session_id') \X Part
    <2>1. DOMAIN files \subseteq (1 .. session_id) \X Part
      BY DEF Types
    <2>2. 1 .. session_id \subseteq 1 .. session_id' /\ session_id' \in 1 .. session_id'
      BY <1>6, <1>7
    <2> QED
      BY <1>1, <1>7, <2>1, <2>2
  <1>9. ASSUME ~SameSecond, NEW n \in DOMAIN files', n[1] = session_id'
        PROVE  files'[n] = TheRows(b, n[2])
    <2>1. CASE n = t
      BY <1>7, <2>1
    <2>2. CASE n # t
      <3>1. n \in DOMAIN files /\ files'[n] = files[n]
        BY <1>7, <2>2
      <3>2. n[1] \in 1 .. session_id
        BY <3>1 DEF Types
      <3>3. e # 1
        BY <1>6, <1>7, <1>9, <3>2
      <3>4. session_id' = session_id /\ Headed(p) /\ p.boot = b
        BY <1>1, <1>2, <1>5, <1>7, <3>3 DEF Part, b, e
      <3>5. files[n] = TheRows(p.boot, n[2])
        BY <1>9, <3>1, <3>4 DEF Received
      <3> QED
        BY <3>1, <3>4, <3>5
    <2> QED
      BY <2>1, <2>2
  <1>10. Received(q)'
    <2>1. ~(q.line \in 1 .. LastLine(q.entry) - 1)
      BY <1>1 DEF e
    <2> QED
      BY <1>7, <1>9, <2>1 DEF Received, b
  <1>11. ASSUME ~SameSecond PROVE SessionHoldsOneAlert'
    <2> SUFFICES ASSUME NEW s \in { n[1] : n \in DOMAIN files' }
                 PROVE  \E c \in Boot : \A n \in DOMAIN files' :
                          n[1] = s => files'[n] = TheRows(c, n[2])
      BY DEF SessionHoldsOneAlert
    <2>1. CASE s = session_id'
      <3>1. b \in Boot
        BY DEF b
      <3> QED
        BY <1>9, <1>11, <2>1, <3>1
    <2>2. CASE s # session_id'
      <3>1. \A n \in DOMAIN files' : n[1] = s => n \in DOMAIN files /\ files'[n] = files[n]
        BY <1>7, <2>2
      <3>2. s \in { n[1] : n \in DOMAIN files }
        BY <3>1
      <3>3. PICK c \in Boot : \A n \in DOMAIN files : n[1] = s => files[n] = TheRows(c, n[2])
        BY <1>11, <3>2 DEF SessionHoldsOneAlert
      <3> QED
        BY <3>1, <3>3
    <2> QED
      BY <2>1, <2>2
  <1> QED
    BY <1>4, <1>7, <1>8, <1>10, <1>11 DEF b, e

\* The line to be read ends at the first newline of the log.
LEMMA WholeLines ==
  ASSUME ~Pieces, NEW end \in ReadTo, log \in Seq(Token)
  PROVE  /\ end \in 1 .. Len(log) /\ log[end].kind = "nl"
         /\ \A j \in 1 .. end - 1 : log[j].kind # "nl"
  <1>1. end \in NewLines /\ \A j \in NewLines : end <= j
    BY DEF ReadTo
  <1>2. end \in 1 .. Len(log) /\ log[end].kind = "nl"
    BY <1>1 DEF NewLines, Kind
  <1>3. ASSUME NEW j \in 1 .. end - 1 PROVE log[j].kind # "nl"
    <2>1. j \in 1 .. Len(log) /\ ~(end <= j)
      BY <1>2
    <2>2. j \notin NewLines
      BY <1>1, <2>1
    <2> QED
      BY <2>1, <2>2 DEF NewLines, Kind
  <1> QED
    BY <1>2, <1>3

\* Reading a line moves at[0] to its end, and if that completes an entry, it is
\* the next of those printed.
LEMMA ReadKeeps ==
  ASSUME ~Pieces, LinkInv, ReadLine
  PROVE  /\ LinkInv'
         /\ UNCHANGED printed
         /\ \/ UNCHANGED written
            \/ /\ Len(written) < Len(printed)
               /\ written' = Append(written, printed[Len(written) + 1])
  <1>1. /\ Types /\ UNCHANGED <<boot, entry, lineNo, done, printed>>
        /\ log \in Seq(Token) /\ Len(log) \in Nat
    BY DEF LinkInv, Types, ReadLine, place
  <1>2. PICK at \in [0 .. Len(log) -> Place] : Traced(at)
    BY DEF LinkInv
  <1>3. PICK end \in ReadTo :
          LET line   == SubSeq(log, 1, IF Kind(log, end) = "nl" THEN end - 1 ELSE end)
              parsed == LineParser(line)
          IN  /\ log' = SubSeq(log, end + 1, Len(log))
              /\ line_buffer' = parsed.buffer
              /\ parsing' = parsed.parsing
              /\ IF parsed.ret
                 THEN HandleLine(parsed.buffer, DatablockParser(parsed.buffer))
                 ELSE UNCHANGED <<block, accumulated, session_id, files, written, alive>>
    BY DEF ReadLine
  <1>4. /\ end \in 1 .. Len(log) /\ log[end].kind = "nl"
        /\ \A j \in 1 .. end - 1 : log[j].kind # "nl"
    BY <1>1, WholeLines
  <1>5. PICK line : line = SubSeq(log, 1, end - 1)
    OBVIOUS
  <1>6. /\ log' = SubSeq(log, end + 1, Len(log))
        /\ parsing' = LineParser(line).parsing
        /\ IF LineParser(line).ret
           THEN HandleLine(LineParser(line).buffer, DatablockParser(LineParser(line).buffer))
           ELSE UNCHANGED <<block, accumulated, session_id, files, written, alive>>
    <2>1. (IF Kind(log, end) = "nl" THEN end - 1 ELSE end) = end - 1
      BY <1>4 DEF Kind
    <2>2. line = SubSeq(log, 1, IF Kind(log, end) = "nl" THEN end - 1 ELSE end)
      BY <1>5, <2>1
    <2> QED
      BY <1>3, <2>2
  <1>7. line \in Seq(Token) /\ Len(line) \in Nat
    <2>1. 1 \in Nat /\ end - 1 \in Nat /\ 1 <= end - 1 + 1 /\ end - 1 <= Len(log) /\ 1 <= 1
      BY <1>1, <1>4
    <2>2. SubSeq(log, 1, end - 1) \in Seq(Token)
      BY <1>1, <2>1, Cut
    <2> QED
      BY <1>5, <2>2
  <1>8. /\ Tokens(at, log) /\ Linked(at, Len(log)) /\ Lines(at, Len(log))
        /\ Counts(at, Len(log), printed) /\ Exists(at[0]) /\ Ends(at[0])
        /\ at[0].no = Len(written) /\ at[Len(log)].no = Len(printed)
        /\ entry <= Len(Rows) => Behind(at[Len(log)], Here)
        /\ Received(at[0]) /\ at[0] \in Place
    BY <1>2, <1>1 DEF Traced
  <1>9. PICK p \in Place : p = at[0]
    BY <1>8
  <1>10. PICK q \in Place : q = at[end]
    BY <1>4
  <1>11. /\ Ends(q) /\ Exists(q) /\ q.boot \in Boot /\ \A j \in 1 .. end - 1 : ~Ends(at[j])
         /\ InFirst(q) => Len(line) >= 1 /\ line[Len(line)] = Tok("text")
         /\ ~InFirst(q) => IsLine(line, TextAt(q)) /\ NextAfter(p, q)
    <2>1. /\ Ends(q) /\ Exists(q)
          /\ \A j \in 1 .. end - 1 : ~Ends(at[j])
          /\ InFirst(q) => Len(line) >= 1 /\ line[Len(line)] = Tok("text")
          /\ ~InFirst(q) =>
               /\ \/ p.boot = q.boot /\ Ends(p)
                     /\ IF p.line < LastLine(p.entry)
                        THEN q.entry = p.entry /\ q.line = p.line + 1
                        ELSE q.entry = p.entry + 1 /\ q.line = 0
                  \/ ~Ends(p)
               /\ Len(line) = Len(TextAt(q)) - 1
               /\ \A j \in 1 .. Len(line) : line[j] = TextAt(q)[j]
      <3>1. LET r == at[end]
                l == SubSeq(log, 1, end - 1)
            IN  /\ r \in Place /\ Ends(r) /\ Exists(r)
                /\ \A j \in 1 .. end - 1 : ~Ends(at[j])
                /\ InFirst(r) => Len(l) >= 1 /\ l[Len(l)] = Tok("text")
                /\ ~InFirst(r) =>
                     /\ \/ at[0].boot = r.boot /\ Ends(at[0])
                           /\ IF at[0].line < LastLine(at[0].entry)
                              THEN r.entry = at[0].entry /\ r.line = at[0].line + 1
                              ELSE r.entry = at[0].entry + 1 /\ r.line = 0
                        \/ ~Ends(at[0])
                     /\ Len(l) = Len(TextAt(r)) - 1
                     /\ \A j \in 1 .. Len(l) : l[j] = TextAt(r)[j]
        BY <1>1, <1>4, <1>8, WhatIsRead, Zenon
      <3> QED
        BY <1>5, <1>9, <1>10, <3>1, Zenon
    <2>2. q.boot \in Boot
      BY <1>4, <1>8, <1>10 DEF Tokens
    <2>3. ~InFirst(q) => NextAfter(p, q)
      BY <1>8, <1>9, <2>1 DEF NextAfter
    <2> QED
      BY <2>1, <2>2, <2>3 DEF IsLine
  <1>12. Handled(q)
    BY <1>6, <1>7, <1>11, LineIsHandled
  <1>13. /\ ~Completes(q) => q.no = Len(written)
         /\ Completes(q) =>
              /\ q.no = Len(written) + 1 /\ q.no \in 1 .. Len(printed)
              /\ printed[q.no] = [boot |-> q.boot, part |-> q.entry]
    BY <1>1, <1>4, <1>8, <1>10, <1>11, LineCounts
  <1>14. /\ Exists(p) /\ Ends(p) /\ Received(p)
         /\ ~SameSecond => SessionHoldsOneAlert
         /\ written \in Seq(Entry) /\ Len(written) \in Nat /\ Len(printed) \in Nat
    BY <1>1, <1>8, <1>9 DEF LinkInv, Types
  <1>15. /\ session_id' \in Nat /\ alive' \in BOOLEAN /\ block' \in BOOLEAN
         /\ DOMAIN files' \subseteq (1 .. session_id') \X Part
         /\ written' \in Seq(Entry) /\ q.no = Len(written')
         /\ \/ UNCHANGED written
            \/ /\ Len(written) < Len(printed)
               /\ written' = Append(written, printed[Len(written) + 1])
         /\ Received(q)'
         /\ (~SameSecond => SessionHoldsOneAlert)'
    <2>1. CASE ~Completes(q)
      <3>1. /\ UNCHANGED <<session_id, files, written, alive>> /\ block' \in BOOLEAN
            /\ Received(q)'
        <4>1. Types
          BY <1>1
        <4> QED
          BY <1>11, <1>12, <1>14, <2>1, <4>1, LineReceived, Zenon
      <3>2. (~SameSecond => SessionHoldsOneAlert)'
        BY <1>14, <3>1 DEF SessionHoldsOneAlert, LinkInv
      <3> QED
        BY <1>1, <1>13, <1>14, <2>1, <3>1, <3>2 DEF Types
    <2>2. CASE Completes(q)
      <3>1. ~InFirst(q)
        BY <2>2 DEF Completes, InFirst
      <3>2. /\ session_id' \in Nat /\ alive' = TRUE /\ block' \in BOOLEAN
            /\ DOMAIN files' \subseteq (1 .. session_id') \X Part
            /\ written' = Append(written, [boot |-> q.boot, part |-> q.entry])
            /\ Received(q)'
            /\ (~SameSecond => SessionHoldsOneAlert)'
        <4>1. Types /\ NextAfter(p, q)
          BY <1>1, <1>11, <3>1
        <4> QED
          BY <1>11, <1>12, <1>14, <2>2, <4>1, EntryReceived, Zenon
      <3>3. [boot |-> q.boot, part |-> q.entry] \in Entry
        <4>1. q.entry \in 0 .. Len(Rows) /\ q.entry # 0
          BY <1>11, <2>2 DEF Completes, Exists
        <4> QED
          BY <1>11, <4>1, RowsFacts DEF Entry, Part
      <3>4. written' \in Seq(Entry) /\ Len(written') = Len(written) + 1
        BY <1>14, <3>2, <3>3
      <3>5. /\ Len(written) < Len(printed)
            /\ written' = Append(written, printed[Len(written) + 1])
        BY <1>13, <1>14, <2>2, <3>2
      <3> QED
        BY <1>13, <2>2, <3>2, <3>4, <3>5
    <2> QED
      BY <2>1, <2>2
  <1>16. PICK w : w = [i \in 0 .. Len(log) - end |-> at[i + end]]
    OBVIOUS
  <1>17. /\ log' \in Seq(Token) /\ Len(log') = Len(log) - end
         /\ w \in [0 .. Len(log') -> Place] /\ w[0] = q /\ w[Len(log')] = at[Len(log)]
         /\ Tokens(w, log') /\ Linked(w, Len(log')) /\ Lines(w, Len(log'))
         /\ Counts(w, Len(log'), printed)
    <2>1. Ends(at[end])
      BY <1>10, <1>11
    <2>2. log' = SubSeq(log, end + 1, Len(log))
      BY <1>6
    <2>3. /\ log \in Seq(Token) /\ Len(log) \in Nat /\ at \in [0 .. Len(log) -> Place]
          /\ Tokens(at, log) /\ Linked(at, Len(log)) /\ Lines(at, Len(log))
          /\ Counts(at, Len(log), printed) /\ end \in 1 .. Len(log)
      BY <1>1, <1>2, <1>4, <1>8
    <2>4. /\ log' \in Seq(Token) /\ Len(log') = Len(log) - end
          /\ w \in [0 .. Len(log) - end -> Place] /\ w[0] = at[end]
          /\ w[Len(log) - end] = at[Len(log)]
          /\ Tokens(w, log') /\ Linked(w, Len(log) - end) /\ Lines(w, Len(log) - end)
          /\ Counts(w, Len(log) - end, printed)
      BY <1>16, <2>1, <2>2, <2>3, Shortened
    <2> QED
      BY <1>10, <2>4
  <1>18. parsing' \in BOOLEAN
    BY <1>6 DEF LineParser, ProcessFresh, ProcessRest, Parsed
  <1>19. Types'
    BY <1>1, <1>15, <1>17, <1>18 DEF Types
  <1>20. Traced(w)'
    <2>1. (entry <= Len(Rows) => Behind(w[Len(log)], Here))'
      BY <1>1, <1>8, <1>17 DEF Behind, Here
    <2>2. Received(w[0])'
      BY <1>15, <1>17
    <2> QED
      BY <1>1, <1>8, <1>11, <1>15, <1>17, <2>1, <2>2 DEF Traced
  <1>21. LinkInv'
    BY <1>15, <1>17, <1>19, <1>20 DEF LinkInv
  <1> QED
    BY <1>1, <1>15, <1>21

-----------------------------------------------------------------------------
(* The theorems.                                                           *)

\* The invariant is inductive: one lemma per action.
LEMMA NextKeeps ==
  ASSUME ~Pieces, LinkInv, [Next]_vars
  PROVE  LinkInv'
  <1>1. CASE Transmit
    BY <1>1, TransmitKeeps
  <1>2. CASE DeviceReset
    BY <1>2, ResetKeeps
  <1>3. CASE ReadLine
    BY <1>3, ReadKeeps
  <1>4. CASE UNCHANGED vars
    <2>1. UNCHANGED <<boot, entry, lineNo, done, log, printed, receiver>>
      BY <1>4 DEF vars, device, place
    <2>2. PICK at \in [0 .. Len(log) -> Place] : Traced(at)
      BY DEF LinkInv
    <2>3. Traced(at)'
      BY <2>1, <2>2 DEF Traced, Received, Here, receiver
    <2>4. Types' /\ (~SameSecond => SessionHoldsOneAlert)'
      BY <2>1 DEF LinkInv, Types, SessionHoldsOneAlert, receiver
    <2> QED
      BY <2>1, <2>2, <2>3, <2>4 DEF LinkInv
  <1> QED
    BY <1>1, <1>2, <1>3, <1>4 DEF Next, Over

LEMMA LinkInvariant ==
  ASSUME ~Pieces
  PROVE  Spec => []LinkInv
  <1>1. Init => LinkInv
    BY InitLinkInv
  <1>2. LinkInv /\ [Next]_vars => LinkInv'
    BY NextKeeps
  <1> QED
    BY <1>1, <1>2, PTL DEF Spec

\* Read line by line, the variables keep their types: in particular no payload
\* is written before an alert gave it a session.
THEOREM SerialTypeCorrect ==
  ASSUME ~Pieces
  PROVE  Spec => []SerialTypeOK
  <1>1. LinkInv => SerialTypeOK
    <2> SUFFICES ASSUME Types PROVE SerialTypeOK
      BY DEF LinkInv
    <2>1. DOMAIN files \subseteq (Nat \ {0}) \X Part
      <3>1. 1 .. session_id \subseteq Nat \ {0}
        BY DEF Types
      <3> QED
        BY <3>1 DEF Types
    <2> QED
      BY <2>1 DEF Types, SerialTypeOK
  <1> QED
    BY <1>1, LinkInvariant, PTL

\* Read line by line, and with the alerts more than a second apart, the files
\* of a session are entries of one boot's alert, whole, however many boots there
\* are and wherever in an alert the device is reset.
THEOREM OneAlertASession ==
  ASSUME ~Pieces, ~SameSecond
  PROVE  Spec => []SessionHoldsOneAlert
  <1>1. LinkInv => SessionHoldsOneAlert
    BY DEF LinkInv
  <1> QED
    BY <1>1, LinkInvariant, PTL

\* Read line by line, the link is the channel of EntryChannel, also with two
\* alerts within a second: every step is a Send (the last token of an entry), an
\* Arrive (the line that ends the oldest entry still on its way) or neither.
THEOREM LinkIsChannel ==
  ASSUME ~Pieces
  PROVE  Spec => Channel!Spec
  <1>1. Init => Channel!Init
    BY DEF Init, Channel!Init
  <1>2. ASSUME LinkInv, [Next]_vars
        PROVE  [Channel!Next]_(Channel!channelVars)
    <2>1. CASE Transmit
      <3>1. UNCHANGED written /\ entry <= Len(Rows) /\ Types
        BY <1>2, <2>1 DEF Transmit, receiver, LinkInv
      <3>2. \/ UNCHANGED printed
            \/ entry # 0 /\ printed' = Append(printed, [boot |-> boot, part |-> entry])
        BY <2>1 DEF Transmit, NextLine
      <3>3. CASE UNCHANGED printed
        BY <3>1, <3>3 DEF Channel!channelVars
      <3>4. CASE entry # 0 /\ printed' = Append(printed, [boot |-> boot, part |-> entry])
        <4>1. [boot |-> boot, part |-> entry] \in Entry
          BY <3>1, <3>4, RowsFacts DEF Types, Entry, Part
        <4> QED
          BY <3>1, <3>4, <4>1 DEF Channel!Next, Channel!Send
      <3> QED
        BY <3>2, <3>3, <3>4
    <2>2. CASE DeviceReset
      BY <2>2 DEF DeviceReset, receiver, Channel!channelVars
    <2>3. CASE ReadLine
      BY <1>2, <2>3, ReadKeeps DEF Channel!Next, Channel!Arrive, Channel!channelVars
    <2>4. CASE UNCHANGED vars
      BY <2>4 DEF vars, device, receiver, Channel!channelVars
    <2> QED
      BY <1>2, <2>1, <2>2, <2>3, <2>4 DEF Next, Over
  <1> QED
    BY <1>1, <1>2, LinkInvariant, PTL DEF Spec, Channel!Spec

=============================================================================
