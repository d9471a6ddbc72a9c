--------------------------------- MODULE Row ---------------------------------
(***************************************************************************)
(* The live row of a subprocess: a terminal of one line.  What the child   *)
(* writes comes in chunks that end anywhere, in an escape sequence or in a *)
(* rune too; the bytes of a sequence that is not complete are kept for the *)
(* next chunk.  A newline commits the row.                                 *)
(***************************************************************************)
EXTENDS Integers, Sequences, FiniteSets, FiniteSetsExt, SequencesExt, TLC

CONSTANTS
  Texts,      \* what a child may write: sequences of bytes
  MaxPending, \* 8192 in the code: how much is kept
  MaxCols,    \* 1024
  Tab         \* 8

\* A byte is named by what it stands for; "c4" and "9b" are a rune, "rune".
Digit == "1" :> 1 @@ "2" :> 2
ParamByte == DOMAIN Digit \cup {"?", ";"}
FinalByte == {"A", "C", "D", "G", "K", "m", "x", "[", "]", "\\"}
Silent == {"BEL"}  \* a control byte that does nothing

VARIABLES
  text,      \* what the child writes
  read,      \* how much of it has come
  row,       \* the filter: [pending, line, col, cr], and whether its Write hangs
  committed, \* the lines that were printed
  dropped    \* whether a backlog was

rowVars == <<text, read, row, committed, dropped>>

-----------------------------------------------------------------------------
(* Reading one sequence or rune, from the i-th byte.                       *)

More == [op |-> "more", arg |-> <<>>, next |-> 0]
Op(op, next) == [op |-> op, arg |-> <<>>, next |-> next]

ConsumeCSI(s, i) ==
  LET ends == {j \in i..Len(s) : s[j] \notin ParamByte} IN
  IF ends = {} THEN More
  ELSE LET j == Min(ends)
       IN IF s[j] \in FinalByte THEN [op |-> "CSI " \o s[j], arg |-> SubSeq(s, i, j - 1), next |-> j + 1]
          ELSE Op("none", j + 1)

ConsumeString(s, i) ==
  LET ends == {j \in i..Len(s) : s[j] = "BEL" \/ (s[j] = "ESC" /\ j < Len(s) /\ s[j + 1] = "\\")} IN
  IF ends = {} THEN More
  ELSE Op("none", Min(ends) + IF s[Min(ends)] = "BEL" THEN 1 ELSE 2)

ConsumeESC(s, i) ==
  IF i = Len(s) THEN More
  ELSE CASE s[i + 1] = "[" -> ConsumeCSI(s, i + 2)
         [] s[i + 1] = "]" -> ConsumeString(s, i + 2)
         [] OTHER -> Op("none", i + 2)

Consume(s, i) ==
  CASE s[i] = "ESC" -> ConsumeESC(s, i)
    [] s[i] = "9b" -> ConsumeCSI(s, i + 1)
    [] s[i] = "c4" -> IF i = Len(s) THEN More
                      ELSE IF s[i + 1] = "9b" THEN Op("rune", i + 2) ELSE Op("none", i + 1)
    [] OTHER -> Op(s[i], i + 1)

\* What is complete, and the bytes from the first that is not.
Scan(s) ==
  LET from[i \in 1..(Len(s) + 1)] ==
        IF i > Len(s) THEN [ops |-> <<>>, rest |-> <<>>]
        ELSE LET o == Consume(s, i)
             IN IF o.op = "more" THEN [ops |-> <<>>, rest |-> SubSeq(s, i, Len(s))]
                ELSE [from[o.next] EXCEPT !.ops = <<o>> \o @]
  IN from[1]

-----------------------------------------------------------------------------
(* The row.                                                                *)

Number(arg, default) ==
  LET p == SelectSeq(arg, LAMBDA c : c # "?")
      upTo == {j \in 1..Len(p) : p[j] = ";"}
      digits == IF upTo = {} THEN p ELSE SubSeq(p, 1, Min(upTo) - 1)
  IN IF digits = <<>> THEN default ELSE FoldLeft(LAMBDA n, c : 10 * n + Digit[c], 0, digits)
Clamp(n) == IF n < 0 THEN 0 ELSE IF n > MaxCols THEN MaxCols ELSE n
Blank(n) == [k \in 1..n |-> " "]

\* After a CR the next glyph begins a new frame.
Put(r, c) ==
  LET f == IF r.cr THEN [r EXCEPT !.line = <<>>, !.col = 0, !.cr = FALSE] ELSE r
  IN IF f.col >= MaxCols THEN f
     ELSE [f EXCEPT !.col = f.col + 1,
             !.line = IF f.col < Len(f.line) THEN [f.line EXCEPT ![f.col + 1] = c]
                      ELSE f.line \o Blank(f.col - Len(f.line)) \o <<c>>]

EraseInLine(r, n) ==
  CASE n = 0 -> [r EXCEPT !.line = IF r.col < Len(@) THEN SubSeq(@, 1, r.col) ELSE @]
    [] n = 1 -> [r EXCEPT !.line = [k \in DOMAIN @ |-> IF k <= r.col THEN " " ELSE @[k]]]
    [] n = 2 -> [r EXCEPT !.line = <<>>]
    [] OTHER -> r

\* A tab puts blanks until the row is at the next stop; at the last column a put
\* changes nothing any more, and a stop beyond it is never reached.
TabStop(r) ==
  LET next == (r.col \div Tab + 1) * Tab
  IN IF next > MaxCols THEN [r EXCEPT !.hung = TRUE]
     ELSE FoldLeft(Put, r, Blank(next - (IF r.cr THEN 0 ELSE r.col)))

\* [row, out]: a line that is not empty is committed.  What moves to another
\* row is ignored.
Apply(s, o) ==
  LET r == s.row
      N(d) == Number(o.arg, d)
      Is(n) == [s EXCEPT !.row = n]
  IN CASE r.hung -> s
       [] o.op = "LF" -> [row |-> [r EXCEPT !.line = <<>>, !.col = 0, !.cr = FALSE],
                          out |-> IF r.line = <<>> THEN s.out ELSE Append(s.out, r.line)]
       [] o.op = "CR" -> Is([r EXCEPT !.col = 0, !.cr = TRUE])
       [] o.op = "BS" -> Is([r EXCEPT !.col = IF @ > 0 THEN @ - 1 ELSE 0])
       [] o.op = "TAB" -> Is(TabStop(r))
       [] o.op = "CSI K" -> Is(EraseInLine(r, N(0)))
       [] o.op = "CSI G" -> Is([r EXCEPT !.col = Clamp(N(1) - 1)])
       [] o.op = "CSI C" -> Is([r EXCEPT !.col = Clamp(@ + N(1))])
       [] o.op = "CSI D" -> Is([r EXCEPT !.col = Clamp(@ - N(1))])
       [] o.op \in {"none", "CSI A", "CSI m", "CSI x", "CSI [", "CSI ]", "CSI \\"} \cup Silent -> s
       [] OTHER -> Is(Put(r, o.op))

Backlog(s) == IF Len(s) > MaxPending THEN SubSeq(s, Len(s) - MaxPending + 1, Len(s)) ELSE s

\* Mutation: The bytes of a sequence that is not complete are dropped.
WriteForgets(r, p) ==
  LET scan == Scan(Backlog(r.pending \o p))
      s == FoldLeft(Apply, [row |-> r, out |-> <<>>], scan.ops)
  IN [s EXCEPT !.row.pending = <<>>]

\* A Write that hangs returns no line.
Write(r, p) ==
  LET scan == Scan(Backlog(r.pending \o p))
      s == FoldLeft(Apply, [row |-> r, out |-> <<>>], scan.ops)
  IN IF s.row.hung THEN [s EXCEPT !.out = <<>>] ELSE [s EXCEPT !.row.pending = scan.rest]

Fresh == [pending |-> <<>>, line |-> <<>>, col |-> 0, cr |-> FALSE, hung |-> FALSE]

RowInit ==
  /\ text \in Texts /\ read = 0
  /\ row = Fresh /\ committed = <<>> /\ dropped = FALSE

\* However much a read returns; none follows a Write that hangs.
Read(n) ==
  LET p == SubSeq(text, read + 1, read + n)  s == Write(row, p) IN
  /\ ~row.hung /\ read + n <= Len(text) /\ read' = read + n
  /\ row' = s.row /\ committed' = committed \o s.out
  /\ dropped' = (dropped \/ Len(row.pending \o p) > MaxPending)
  /\ UNCHANGED text

RowNext == \E n \in 1..Len(text) : Read(n)

RowSpec == RowInit /\ [][RowNext]_rowVars

-----------------------------------------------------------------------------
(* Properties.                                                             *)

\* As long as no backlog is dropped: what is committed, what the row shows, and
\* whether a Write hangs does not depend on where the chunks end.  (Of the lines
\* before a tab that hangs, only those of earlier chunks are printed.)
ChunksDoNotMatter ==
  LET whole == Write(Fresh, SubSeq(text, 1, read))
  IN ~dropped => /\ row.hung = whole.row.hung
                 /\ row.hung \/ (committed = whole.out /\ row = whole.row)
=============================================================================
