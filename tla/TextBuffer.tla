----------------------------- MODULE TextBuffer -----------------------------
(***************************************************************************)
(* What editing a text means, without lines or a screen: the text is one   *)
(* sequence of characters, line ends among them, and the cursor stands     *)
(* behind the first pos of them.                                           *)
(***************************************************************************)
EXTENDS Integers, Sequences, SequencesExt, FiniteSetsExt

LineEnd == 10

Put(t, c) == [t EXCEPT !.text = InsertAt(@, t.pos + 1, c), !.pos = @ + 1]

EraseBehind(t) == IF t.pos = 0 THEN t
                  ELSE [t EXCEPT !.text = RemoveAt(@, t.pos), !.pos = @ - 1]

EraseAhead(t) == IF t.pos = Len(t.text) THEN t
                 ELSE [t EXCEPT !.text = RemoveAt(@, t.pos + 1)]

To(t, p) == IF p \in 0 .. Len(t.text) THEN [t EXCEPT !.pos = p] ELSE t

(* Where the lines of a text start and end.                                *)
Starts(t) == {0} \cup {i \in 1 .. Len(t.text) : t.text[i] = LineEnd}
StartOf(t, p) == Max({s \in Starts(t) : s <= p})
EndOf(t, p) == Min({i \in p .. Len(t.text) : i = Len(t.text) \/ t.text[i + 1] = LineEnd})

Column(t) == t.pos - StartOf(t, t.pos)

(* The cursor at a column of the line that starts at s, or at its end.     *)
Within(t, s, column) == [t EXCEPT !.pos = Min({s + column, EndOf(t, s)})]

(* The k-th least of a set of numbers.                                     *)
Kth(S, k) == CHOOSE s \in S : Cardinality({r \in S : r < s}) = k - 1

(* n lines up or down, or as far as there are lines.                       *)
Lines(t, n) ==
  LET start == StartOf(t, t.pos)
      above == {s \in Starts(t) : s < start}
      below == {s \in Starts(t) : s > start}
  IN CASE n < 0 /\ above # {} ->
            Within(t, Kth(above, Max({1, Cardinality(above) + n + 1})), Column(t))
       [] n > 0 /\ below # {} ->
            Within(t, Kth(below, Min({n, Cardinality(below)})), Column(t))
       [] OTHER -> t

(* The cursor in a given line and column, counted from zero.               *)
Cell(t, line, column) ==
  Within(t, Kth(Starts(t), Min({line + 1, Cardinality(Starts(t))})), column)
=============================================================================
