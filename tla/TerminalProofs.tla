--------------------------- MODULE TerminalProofs ---------------------------
(***************************************************************************)
(* Proofs about the terminal's reader and the editor (Terminal, Editor,    *)
(* TextBuffer), in four parts.                                             *)
(*                                                                         *)
(* One.  Whatever bytes a terminal sends, however they are split up and    *)
(* whatever they decode to, the editor's cursor stays in its text and in   *)
(* the viewport (ScreenInvAlways).  No operation of the editor looks at    *)
(* the characters of the text, so they are of a set that is never named:   *)
(* what is shown of an operation is shown for every set, and what a        *)
(* decoded character adds to it is joined.  The invariant is IInv.         *)
(*                                                                         *)
(* Two.  What the editor does line by line is what a text buffer, which    *)
(* knows no lines, does to one sequence of characters (EditorIsTextBuffer).*)
(* A place in the text is lines A, h | t, lines B (Place); every operation *)
(* is followed from place to place, and what is in front of the cursor and *)
(* behind it is written out (Shows).                                       *)
(*                                                                         *)
(* Three.  An event that tells a key makes the UI do to the message what   *)
(* the key is meant to do (HandledAsMeant).                                *)
(*                                                                         *)
(* Four.  Unless a sequence has been cut, the events and the bytes on the  *)
(* way are those of the keys that are owed, the parser stands within the   *)
(* first of those it has not told, and the keys that are owed lead from    *)
(* what is shown to what is meant (History): with none owed, the two are   *)
(* the same (DecodesAsTypedAlways).                                        *)
(***************************************************************************)
EXTENDS Terminal, SequenceTheorems, FiniteSetTheorems, WellFoundedInduction, TLAPS

-----------------------------------------------------------------------------
(***************************************************************************)
(* Part one.  The cursor stays in the text and in view.                    *)
(***************************************************************************)

(* Sequences: a character put in, and an element taken out.                *)

LEMMA InsertAtSeq ==
  ASSUME NEW S, NEW s \in Seq(S), NEW i \in 1 .. Len(s) + 1, NEW c \in S
  PROVE  InsertAt(s, i, c) \in Seq(S) /\ Len(InsertAt(s, i, c)) = Len(s) + 1
<1> DEFINE a == SubSeq(s, 1, i - 1)
           b == SubSeq(s, i, Len(s))
<1>1. a \in Seq(S) /\ Len(a) = i - 1
  BY SubSeqProperties
<1>2. b \in Seq(S) /\ Len(b) = Len(s) - i + 1
  BY SubSeqProperties
<1>3. InsertAt(s, i, c) = a \o <<c>> \o b
  BY DEF InsertAt
<1> HIDE DEF a, b
<1>4. <<c>> \in Seq(S) /\ Len(<<c>>) = 1
  OBVIOUS
<1>5. a \o <<c>> \in Seq(S) /\ Len(a \o <<c>>) = i
  <2>1. a \o <<c>> \in Seq(S) /\ Len(a \o <<c>>) = Len(a) + Len(<<c>>)
    BY <1>1, <1>4, ConcatProperties, Zenon
  <2> QED BY <1>1, <1>4, <2>1
<1>6. /\ (a \o <<c>>) \o b \in Seq(S)
      /\ Len((a \o <<c>>) \o b) = Len(a \o <<c>>) + Len(b)
  BY <1>2, <1>5, ConcatProperties, Zenon
<1>7. InsertAt(s, i, c) = (a \o <<c>>) \o b
  BY <1>3
<1>8. i + (Len(s) - i + 1) = Len(s) + 1
  OBVIOUS
<1> QED BY <1>2, <1>5, <1>6, <1>7, <1>8, Zenon

LEMMA RemoveAtSeq ==
  ASSUME NEW S, NEW s \in Seq(S), NEW i \in 1 .. Len(s)
  PROVE  /\ RemoveAt(s, i) \in Seq(S) /\ Len(RemoveAt(s, i)) = Len(s) - 1
         /\ \A k \in 1 .. i - 1 : RemoveAt(s, i)[k] = s[k]
<1> DEFINE a == SubSeq(s, 1, i - 1)
           b == SubSeq(s, i + 1, Len(s))
<1>1. a \in Seq(S) /\ Len(a) = i - 1 /\ \A k \in 1 .. i - 1 : a[k] = s[k]
  BY SubSeqProperties
<1>2. b \in Seq(S) /\ Len(b) = Len(s) - i
  BY SubSeqProperties
<1>3. RemoveAt(s, i) = a \o b
  BY DEF RemoveAt
<1> HIDE DEF a, b
<1>4. /\ a \o b \in Seq(S) /\ Len(a \o b) = Len(a) + Len(b)
      /\ \A k \in 1 .. Len(a) : (a \o b)[k] = a[k]
  <2>1. /\ a \o b \in Seq(S) /\ Len(a \o b) = Len(a) + Len(b)
        /\ \A k \in 1 .. Len(a) + Len(b) :
             (a \o b)[k] = IF k <= Len(a) THEN a[k] ELSE b[k - Len(a)]
    BY <1>1, <1>2, ConcatProperties, Zenon
  <2>2. Len(a) \in Nat /\ Len(b) \in Nat
    BY <1>1, <1>2
  <2> QED BY <2>1, <2>2
<1> QED BY <1>1, <1>2, <1>3, <1>4

-----------------------------------------------------------------------------
(* The editor, over any set S of characters.                               *)

Editors(S) == [lines : Seq(Seq(S)), cy : Nat, cx : Nat, top : Int, left : Int]

(* It has a line, and its cursor is in the text.                           *)
InText(e, S) ==
  /\ e \in Editors(S)
  /\ e.cy \in 1 .. Len(e.lines) /\ e.cx \in 0 .. Len(e.lines[e.cy])

(* What the operations need to know of a text.                             *)
LEMMA Fields ==
  ASSUME NEW S, NEW e, InText(e, S)
  PROVE  /\ e.lines \in Seq(Seq(S)) /\ Len(e.lines) \in Nat \ {0}
         /\ e.cy \in Nat /\ e.cy \in 1 .. Len(e.lines)
         /\ e.cx \in Nat /\ e.cx \in 0 .. Len(e.lines[e.cy])
         /\ \A k \in 1 .. Len(e.lines) : e.lines[k] \in Seq(S) /\ Len(e.lines[k]) \in Nat
         /\ e.top \in Int /\ e.left \in Int
BY DEF InText, Editors

(* The cursor is set.                                                      *)
LEMMA AtInText ==
  ASSUME NEW S, NEW e \in Editors(S),
         NEW cy \in 1 .. Len(e.lines), NEW cx \in 0 .. Len(e.lines[cy])
  PROVE  InText(At(e, cy, cx), S)
<1>1. cy \in Nat /\ cx \in Nat
  BY DEF Editors
<1>2. At(e, cy, cx) = [e EXCEPT !.cy = cy, !.cx = cx]
  BY DEF At
<1> DEFINE r == At(e, cy, cx)
<1>3. r \in Editors(S) /\ r.lines = e.lines /\ r.cy = cy /\ r.cx = cx
  BY <1>1, <1>2 DEF Editors
<1> HIDE DEF r
<1> QED BY <1>3 DEF InText, r

(* The lines are changed.                                                  *)
LEMMA LinesChanged ==
  ASSUME NEW S, NEW e, InText(e, S), NEW lines \in Seq(Seq(S))
  PROVE  /\ [e EXCEPT !.lines = lines] \in Editors(S)
         /\ [e EXCEPT !.lines = lines].lines = lines
BY DEF InText, Editors

(* A line of the text is exchanged for another one.                        *)
Exchanged(lines, k, l) == [lines EXCEPT ![k] = l]

StaysText(T, lines, k, l) ==
  /\ Exchanged(lines, k, l) \in Seq(T)
  /\ Len(Exchanged(lines, k, l)) = Len(lines) /\ Exchanged(lines, k, l)[k] = l

LEMMA LineChanged ==
  ASSUME NEW T, NEW lines \in Seq(T), NEW k \in 1 .. Len(lines), NEW l \in T
  PROVE  StaysText(T, lines, k, l)
BY DEF Exchanged, StaysText

(* The cursor's line is exchanged, and the cursor goes to x in it.         *)
WithLine(e, l, x) == [e EXCEPT !.lines = Exchanged(@, e.cy, l), !.cx = x]

LEMMA WithLineInText ==
  ASSUME NEW S, NEW e, InText(e, S), NEW l \in Seq(S), NEW x \in 0 .. Len(l)
  PROVE  InText(WithLine(e, l, x), S)
<1>1. /\ e.lines \in Seq(Seq(S)) /\ e.cy \in 1 .. Len(e.lines)
  BY Fields
<1> DEFINE lines == Exchanged(e.lines, e.cy, l)
<1>2. lines \in Seq(Seq(S)) /\ Len(lines) = Len(e.lines) /\ lines[e.cy] = l
  <2>1. StaysText(Seq(S), e.lines, e.cy, l)
    BY <1>1, LineChanged, Zenon
  <2> QED BY <2>1, Zenon DEF StaysText
<1>3. WithLine(e, l, x) = [e EXCEPT !.lines = lines, !.cx = x]
  BY Zenon DEF WithLine
<1> HIDE DEF lines
<1>4. e \in Editors(S) /\ x \in Nat
  BY DEF InText
<1> DEFINE r == WithLine(e, l, x)
<1>5. r \in Editors(S) /\ r.lines = lines /\ r.cy = e.cy /\ r.cx = x
  BY <1>2, <1>3, <1>4 DEF Editors
<1> HIDE DEF r
<1>6. r.cy \in 1 .. Len(r.lines)
  BY <1>1, <1>2, <1>5
<1>7. r.cx \in 0 .. Len(r.lines[r.cy])
  BY <1>2, <1>5
<1>8. InText(r, S)
  BY <1>5, <1>6, <1>7, Zenon DEF InText
<1> QED BY <1>8 DEF r

LEMMA InsertInText ==
  ASSUME NEW S, NEW e, InText(e, S), NEW c \in S
  PROVE  InText(Insert(e, c), S)
<1>0. /\ e.cx \in 0 .. Len(e.lines[e.cy])
      /\ e.lines[e.cy] \in Seq(S) /\ Len(e.lines[e.cy]) \in Nat
  BY Fields
<1> DEFINE l == InsertAt(e.lines[e.cy], e.cx + 1, c)
           x == e.cx + 1
<1>1. Insert(e, c) = WithLine(e, l, x)
  BY Zenon DEF Insert, WithLine, Exchanged
<1>2. l \in Seq(S) /\ Len(l) = Len(e.lines[e.cy]) + 1
  <2>1. e.cx + 1 \in 1 .. Len(e.lines[e.cy]) + 1
    BY <1>0
  <2> QED BY <1>0, <2>1, InsertAtSeq, Zenon
<1>3. x \in 0 .. Len(l)
  BY <1>0, <1>2
<1> HIDE DEF l, x
<1> QED BY <1>1, <1>2, <1>3, WithLineInText, Zenon

LEMMA SplitInText ==
  ASSUME NEW S, NEW e, InText(e, S)
  PROVE  InText(Split(e), S)
<1>0. /\ e.lines \in Seq(Seq(S))
      /\ e.cy \in 1 .. Len(e.lines)
      /\ e.cx \in 0 .. Len(e.lines[e.cy])
      /\ e.lines[e.cy] \in Seq(S) /\ Len(e.lines[e.cy]) \in Nat /\ Len(e.lines) \in Nat
  BY Fields
<1> DEFINE head == SubSeq(Line(e), 1, e.cx)
           tail == SubSeq(Line(e), e.cx + 1, Len(Line(e)))
           top == Exchanged(e.lines, e.cy, head)
           lines == InsertAt(top, e.cy + 1, tail)
           r == [e EXCEPT !.lines = lines]
<1>1. Split(e) = At(r, e.cy + 1, 0)
  BY Zenon DEF Split, Exchanged
<1>2. head \in Seq(S) /\ tail \in Seq(S)
  <2>1. Line(e) \in Seq(S) /\ e.cx \in 0 .. Len(Line(e))
    BY Fields DEF Line
  <2> QED BY <2>1, SubSeqProperties
<1> HIDE DEF head, tail
<1>3. top \in Seq(Seq(S)) /\ Len(top) = Len(e.lines)
  <2>1. StaysText(Seq(S), e.lines, e.cy, head)
    BY <1>0, <1>2, LineChanged, Zenon
  <2> QED BY <2>1, Zenon DEF StaysText
<1> HIDE DEF top
<1>4. lines \in Seq(Seq(S)) /\ Len(lines) = Len(e.lines) + 1
  <2>1. e.cy + 1 \in 1 .. Len(top) + 1
    BY <1>0, <1>3
  <2>2. lines \in Seq(Seq(S)) /\ Len(lines) = Len(top) + 1
    BY <1>2, <1>3, <2>1, InsertAtSeq, Zenon
  <2> QED BY <1>3, <2>2
<1> HIDE DEF lines
<1>5. r \in Editors(S) /\ r.lines = lines
  BY <1>4, LinesChanged
<1> HIDE DEF r
<1>6. e.cy + 1 \in 1 .. Len(r.lines) /\ 0 \in 0 .. Len(r.lines[e.cy + 1])
  <2>a. e.cy + 1 \in 1 .. Len(lines)
    BY <1>0, <1>4
  <2>b. lines[e.cy + 1] \in Seq(S)
    BY <1>4, <2>a
  <2>1. e.cy + 1 \in 1 .. Len(lines) /\ Len(lines[e.cy + 1]) \in Nat
    BY <2>a, <2>b
  <2> QED BY <1>5, <2>1
<1> QED BY <1>1, <1>5, <1>6, AtInText, Zenon

(* Two lines that are joined make one of both lengths.                     *)
LEMMA JoinedLines ==
  ASSUME NEW S, NEW lines \in Seq(Seq(S)), NEW k \in 1 .. Len(lines) - 1
  PROVE  /\ Joined(lines, k) \in Seq(Seq(S)) /\ Len(Joined(lines, k)) = Len(lines) - 1
         /\ Len(Joined(lines, k)[k]) = Len(lines[k]) + Len(lines[k + 1])
<1> DEFINE l == lines[k] \o lines[k + 1]
           both == Exchanged(lines, k, l)
<1>1. k \in 1 .. Len(lines) /\ lines[k] \in Seq(S) /\ lines[k + 1] \in Seq(S)
  OBVIOUS
<1>2. l \in Seq(S) /\ Len(l) = Len(lines[k]) + Len(lines[k + 1])
  BY <1>1
<1> HIDE DEF l
<1>3. both \in Seq(Seq(S)) /\ Len(both) = Len(lines) /\ both[k] = l
  <2>1. StaysText(Seq(S), lines, k, l)
    BY <1>1, <1>2, LineChanged, Zenon
  <2> QED BY <2>1, Zenon DEF StaysText
<1>4. Joined(lines, k) = RemoveAt(both, k + 1)
  BY Zenon DEF Joined, l, Exchanged
<1> HIDE DEF both
<1>5. k + 1 \in 1 .. Len(both) /\ k \in 1 .. (k + 1) - 1
  BY <1>3
<1>6. /\ RemoveAt(both, k + 1) \in Seq(Seq(S))
      /\ Len(RemoveAt(both, k + 1)) = Len(both) - 1
      /\ \A j \in 1 .. (k + 1) - 1 : RemoveAt(both, k + 1)[j] = both[j]
  BY <1>3, <1>5, RemoveAtSeq
<1> QED BY <1>2, <1>3, <1>4, <1>5, <1>6

(* A character of the cursor's line is taken out; the cursor goes to x.    *)
LEMMA ErasedInText ==
  ASSUME NEW S, NEW e, InText(e, S), NEW i \in 1 .. Len(e.lines[e.cy]),
         NEW x \in 0 .. Len(e.lines[e.cy]) - 1
  PROVE  InText(WithLine(e, RemoveAt(e.lines[e.cy], i), x), S)
<1>0. e.lines[e.cy] \in Seq(S)
  BY Fields
<1> DEFINE l == RemoveAt(e.lines[e.cy], i)
<1>1. l \in Seq(S) /\ Len(l) = Len(e.lines[e.cy]) - 1
  BY <1>0, RemoveAtSeq, Zenon
<1> HIDE DEF l
<1>2. x \in 0 .. Len(l)
  BY <1>1
<1>3. InText(WithLine(e, l, x), S)
  BY <1>1, <1>2, WithLineInText, Zenon
<1> QED BY <1>3 DEF l

-----------------------------------------------------------------------------
(* The operations, one by one.                                             *)

(* Two lines are joined; the cursor goes to where they meet.               *)
LEMMA JoinedInText ==
  ASSUME NEW S, NEW e, InText(e, S), NEW k \in 1 .. Len(e.lines) - 1
  PROVE  InText(At([e EXCEPT !.lines = Joined(@, k)], k, Len(e.lines[k])), S)
<1>0. e.lines \in Seq(Seq(S)) /\ Len(e.lines) \in Nat
  BY Fields
<1> DEFINE lines == Joined(e.lines, k)
           r == [e EXCEPT !.lines = lines]
           x == Len(e.lines[k])
<1>1. /\ lines \in Seq(Seq(S)) /\ Len(lines) = Len(e.lines) - 1
      /\ Len(lines[k]) = Len(e.lines[k]) + Len(e.lines[k + 1])
  BY <1>0, JoinedLines, Zenon
<1>2. Len(e.lines[k]) \in Nat /\ Len(e.lines[k + 1]) \in Nat
  BY <1>0
<1> HIDE DEF lines
<1>3. r \in Editors(S) /\ r.lines = lines
  BY <1>1, LinesChanged
<1>4. At([e EXCEPT !.lines = Joined(@, k)], k, Len(e.lines[k])) = At(r, k, x)
  BY Zenon DEF lines
<1> HIDE DEF r
<1>5. k \in 1 .. Len(lines)
  BY <1>0, <1>1
<1>a. x \in 0 .. Len(lines[k])
  <2>1. \A a, b \in Nat : a \in 0 .. a + b
    OBVIOUS
  <2> QED BY <1>1, <1>2, <2>1
<1> HIDE DEF x
<1>6. InText(At(r, k, x), S)
  <2>1. k \in 1 .. Len(r.lines) /\ x \in 0 .. Len(r.lines[k])
    BY <1>3, <1>5, <1>a
  <2> QED BY <1>3, <2>1, AtInText, Zenon
<1> QED BY <1>4, <1>6

LEMMA BackspaceInText ==
  ASSUME NEW S, NEW e, InText(e, S)
  PROVE  InText(Backspace(e), S)
<1>0. /\ e.cy \in 1 .. Len(e.lines) /\ e.cx \in 0 .. Len(e.lines[e.cy])
      /\ Len(e.lines) \in Nat /\ Len(e.lines[e.cy]) \in Nat
  BY Fields
<1>1. CASE e.cx > 0
  <2> DEFINE x == e.cx - 1
  <2>1. e.cx \in 1 .. Len(e.lines[e.cy]) /\ x \in 0 .. Len(e.lines[e.cy]) - 1
    BY <1>0, <1>1
  <2>2. Backspace(e) = WithLine(e, RemoveAt(e.lines[e.cy], e.cx), x)
    BY <1>1, Zenon DEF Backspace, WithLine, Exchanged
  <2> HIDE DEF x
  <2>3. InText(WithLine(e, RemoveAt(e.lines[e.cy], e.cx), x), S)
    BY <2>1, ErasedInText, Zenon
  <2> QED BY <2>2, <2>3
<1>2. CASE ~(e.cx > 0) /\ e.cy > 1
  <2> DEFINE k == e.cy - 1
  <2>1. k \in 1 .. Len(e.lines) - 1
    BY <1>0, <1>2
  <2>2. Backspace(e) = At([e EXCEPT !.lines = Joined(@, k)], k, Len(e.lines[k]))
    BY <1>2, Zenon DEF Backspace
  <2> HIDE DEF k
  <2> QED BY <2>1, <2>2, JoinedInText
<1>3. CASE ~(e.cx > 0) /\ ~(e.cy > 1)
  <2>1. Backspace(e) = e
    BY <1>3, Zenon DEF Backspace
  <2> QED BY <2>1
<1> QED BY <1>1, <1>2, <1>3, Zenon

LEMMA DeleteInText ==
  ASSUME NEW S, NEW e, InText(e, S)
  PROVE  InText(Delete(e), S)
<1>0. /\ e.cy \in 1 .. Len(e.lines) /\ e.cx \in 0 .. Len(e.lines[e.cy])
      /\ Len(e.lines) \in Nat /\ Len(e.lines[e.cy]) \in Nat
  BY Fields
<1>1. CASE e.cx < Len(Line(e))
  <2> DEFINE i == e.cx + 1
             l == RemoveAt(e.lines[e.cy], i)
  <2>1. i \in 1 .. Len(e.lines[e.cy]) /\ e.cx \in 0 .. Len(e.lines[e.cy]) - 1
    BY <1>0, <1>1 DEF Line
  <2>2. Delete(e) = [e EXCEPT !.lines = Exchanged(@, e.cy, l)]
    BY <1>1, Zenon DEF Delete, Exchanged
  <2> HIDE DEF i
  <2>3. InText(WithLine(e, l, e.cx), S)
    BY <2>1, ErasedInText, Zenon
  <2>4. Delete(e) = WithLine(e, l, e.cx)
    <3> HIDE DEF l
    <3>1. e \in Editors(S)
      BY DEF InText
    <3> DEFINE m == Exchanged(e.lines, e.cy, l)
    <3>2. /\ Delete(e) = [e EXCEPT !.lines = m]
          /\ WithLine(e, l, e.cx) = [e EXCEPT !.lines = m, !.cx = e.cx]
      BY <2>2, Zenon DEF WithLine
    <3> HIDE DEF m
    <3> QED BY <3>1, <3>2 DEF Editors
  <2> QED BY <2>3, <2>4
<1>2. CASE ~(e.cx < Len(Line(e))) /\ e.cy < Len(e.lines)
  <2>1. e.cy \in 1 .. Len(e.lines) - 1
    BY <1>0, <1>2
  <2>2. e.cx = Len(e.lines[e.cy])
    BY <1>0, <1>2 DEF Line
  <2> DEFINE lines == Joined(e.lines, e.cy)
  <2>3. Delete(e) = [e EXCEPT !.lines = lines]
    BY <1>2, Zenon DEF Delete
  <2>4. At([e EXCEPT !.lines = lines], e.cy, e.cx) = [e EXCEPT !.lines = lines]
    <3>1. e \in Editors(S)
      BY DEF InText
    <3> HIDE DEF lines
    <3> QED BY <3>1 DEF Editors, At
  <2>5. InText(At([e EXCEPT !.lines = lines], e.cy, Len(e.lines[e.cy])), S)
    BY <2>1, JoinedInText, Zenon
  <2> HIDE DEF lines
  <2> QED BY <2>2, <2>3, <2>4, <2>5
<1>3. CASE ~(e.cx < Len(Line(e))) /\ ~(e.cy < Len(e.lines))
  <2>1. Delete(e) = e
    BY <1>3, Zenon DEF Delete
  <2> QED BY <2>1
<1> QED BY <1>1, <1>2, <1>3, Zenon

(* The cursor moves in the text as it is.                                  *)
LEMMA MovedInText ==
  ASSUME NEW S, NEW e, InText(e, S),
         NEW cy \in 1 .. Len(e.lines), NEW cx \in 0 .. Len(e.lines[cy])
  PROVE  InText(At(e, cy, cx), S)
BY AtInText, Zenon DEF InText

LEMMA MoveLeftInText ==
  ASSUME NEW S, NEW e, InText(e, S)
  PROVE  InText(MoveLeft(e), S)
<1>0. /\ e.cy \in 1 .. Len(e.lines) /\ e.cx \in 0 .. Len(e.lines[e.cy])
      /\ Len(e.lines) \in Nat /\ Len(e.lines[e.cy]) \in Nat
      /\ \A k \in 1 .. Len(e.lines) : Len(e.lines[k]) \in Nat
  BY Fields
<1>1. CASE e.cx > 0
  <2>1. e.cx - 1 \in 0 .. Len(e.lines[e.cy])
    BY <1>0, <1>1
  <2>2. MoveLeft(e) = At(e, e.cy, e.cx - 1)
    BY <1>1, Zenon DEF MoveLeft
  <2> QED BY <1>0, <2>1, <2>2, MovedInText
<1>2. CASE ~(e.cx > 0) /\ e.cy > 1
  <2> DEFINE k == e.cy - 1
             x == Len(e.lines[k])
  <2>1. k \in 1 .. Len(e.lines)
    BY <1>0, <1>2
  <2>2. x \in 0 .. Len(e.lines[k])
    BY <1>0, <2>1
  <2>3. MoveLeft(e) = At(e, k, x)
    BY <1>2, Zenon DEF MoveLeft
  <2> HIDE DEF k, x
  <2> QED BY <2>1, <2>2, <2>3, MovedInText
<1>3. CASE ~(e.cx > 0) /\ ~(e.cy > 1)
  <2>1. MoveLeft(e) = e
    BY <1>3, Zenon DEF MoveLeft
  <2> QED BY <2>1
<1> QED BY <1>1, <1>2, <1>3, Zenon

LEMMA MoveRightInText ==
  ASSUME NEW S, NEW e, InText(e, S)
  PROVE  InText(MoveRight(e), S)
<1>0. /\ e.cy \in 1 .. Len(e.lines) /\ e.cx \in 0 .. Len(e.lines[e.cy])
      /\ Len(e.lines) \in Nat /\ Len(e.lines[e.cy]) \in Nat
      /\ \A k \in 1 .. Len(e.lines) : Len(e.lines[k]) \in Nat
  BY Fields
<1>1. CASE e.cx < Len(Line(e))
  <2> DEFINE x == e.cx + 1
  <2>1. x \in 0 .. Len(e.lines[e.cy])
    BY <1>0, <1>1 DEF Line
  <2>2. MoveRight(e) = At(e, e.cy, x)
    BY <1>1, Zenon DEF MoveRight
  <2> HIDE DEF x
  <2> QED BY <1>0, <2>1, <2>2, MovedInText
<1>2. CASE ~(e.cx < Len(Line(e))) /\ e.cy < Len(e.lines)
  <2> DEFINE k == e.cy + 1
  <2>1. k \in 1 .. Len(e.lines)
    BY <1>0, <1>2
  <2>2. 0 \in 0 .. Len(e.lines[k])
    BY <1>0, <2>1
  <2>3. MoveRight(e) = At(e, k, 0)
    BY <1>2, Zenon DEF MoveRight
  <2> HIDE DEF k
  <2> QED BY <2>1, <2>2, <2>3, MovedInText
<1>3. CASE ~(e.cx < Len(Line(e))) /\ ~(e.cy < Len(e.lines))
  <2>1. MoveRight(e) = e
    BY <1>3, Zenon DEF MoveRight
  <2> QED BY <2>1
<1> QED BY <1>1, <1>2, <1>3, Zenon

LEMMA HomeInText ==
  ASSUME NEW S, NEW e, InText(e, S)
  PROVE  InText(Home(e), S)
<1>1. e.cy \in 1 .. Len(e.lines) /\ Len(e.lines[e.cy]) \in Nat
  BY Fields
<1>2. 0 \in 0 .. Len(e.lines[e.cy])
  BY <1>1
<1> QED BY <1>1, <1>2, MovedInText, Zenon DEF Home

LEMMA EndInText ==
  ASSUME NEW S, NEW e, InText(e, S)
  PROVE  InText(End(e), S)
<1> DEFINE x == Len(e.lines[e.cy])
<1>1. e.cy \in 1 .. Len(e.lines) /\ x \in Nat
  BY Fields
<1>2. x \in 0 .. Len(e.lines[e.cy])
  BY <1>1
<1>3. End(e) = At(e, e.cy, x)
  BY DEF End, Line
<1> HIDE DEF x
<1> QED BY <1>1, <1>2, <1>3, MovedInText, Zenon

LEMMA ToLineInText ==
  ASSUME NEW S, NEW e, InText(e, S), NEW k \in Int
  PROVE  InText(ToLine(e, k), S)
<1> DEFINE cy == Most(1, Least(k, Len(e.lines)))
           cx == Least(e.cx, Len(e.lines[cy]))
<1>1. /\ e.cy \in 1 .. Len(e.lines) /\ e.cx \in Nat /\ Len(e.lines) \in Nat \ {0}
      /\ \A j \in 1 .. Len(e.lines) : Len(e.lines[j]) \in Nat
  BY Fields
<1>2. cy \in 1 .. Len(e.lines)
  BY <1>1 DEF Most, Least
<1>3. ToLine(e, k) = At(e, cy, cx)
  BY DEF ToLine
<1> HIDE DEF cy
<1>4. cx \in 0 .. Len(e.lines[cy])
  BY <1>1, <1>2 DEF Least
<1> HIDE DEF cx
<1> QED BY <1>2, <1>3, <1>4, MovedInText, Zenon

LEMMA ClickedInText ==
  ASSUME NEW S, NEW e, InText(e, S), NEW x \in Int, NEW y \in Int
  PROVE  InText(Clicked(e, x, y), S)
<1> DEFINE cy == Most(1, Least(e.top + y + 1, Len(e.lines)))
           cx == Most(0, Least(e.left + x, Len(e.lines[cy])))
<1>1. /\ e.cy \in 1 .. Len(e.lines) /\ Len(e.lines) \in Nat \ {0}
      /\ \A j \in 1 .. Len(e.lines) : Len(e.lines[j]) \in Nat
      /\ e.top \in Int /\ e.left \in Int
  BY Fields
<1>2. cy \in 1 .. Len(e.lines)
  BY <1>1 DEF Most, Least
<1>3. Clicked(e, x, y) = At(e, cy, cx)
  BY DEF Clicked
<1> HIDE DEF cy
<1>4. cx \in 0 .. Len(e.lines[cy])
  BY <1>1, <1>2 DEF Most, Least
<1> HIDE DEF cx
<1> QED BY <1>2, <1>3, <1>4, MovedInText, Zenon

(* A message of at least one line is opened with the cursor in it.         *)
LEMMA NewEditorInText ==
  ASSUME NEW S, NEW lines \in Seq(Seq(S)), lines # <<>>
  PROVE  InText(NewEditor(lines), S)
<1>1. Len(lines) \in Nat \ {0}
  BY EmptySeq
<1>2. lines[1] \in Seq(S) /\ Len(lines[1]) \in Nat
  BY <1>1
<1> QED BY <1>1, <1>2 DEF NewEditor, InText, Editors

(* Scrolling leaves the text and the cursor alone and brings the cursor    *)
(* into the viewport.                                                      *)
Visible(e, w, h) ==
  /\ e.cy - 1 \in e.top .. e.top + h - 1
  /\ e.cx \in e.left .. e.left + w - 1

LEMMA EnsureVisibleInText ==
  ASSUME NEW S, NEW e, InText(e, S), NEW w \in Nat \ {0}, NEW h \in Nat \ {0}
  PROVE  InText(EnsureVisible(e, w, h), S) /\ Visible(EnsureVisible(e, w, h), w, h)
<1> DEFINE r == EnsureVisible(e, w, h)
           top == IF e.cy - 1 < e.top THEN e.cy - 1
                  ELSE IF e.cy - 1 >= e.top + h THEN e.cy - h ELSE e.top
           left == IF e.cx < e.left THEN e.cx
                   ELSE IF e.cx >= e.left + w THEN e.cx - w + 1 ELSE e.left
<1>1. /\ e.cy \in Nat /\ e.cx \in Nat /\ e.top \in Int /\ e.left \in Int
  BY Fields
<1>2. r = [e EXCEPT !.top = top, !.left = left]
  BY Zenon DEF EnsureVisible
<1>3. /\ top \in Int
      /\ left \in Int
      /\ e.cy - 1 \in top .. top + h - 1
      /\ e.cx \in left .. left + w - 1
  BY <1>1
<1> HIDE DEF top, left
<1>4. /\ r \in Editors(S) /\ r.lines = e.lines /\ r.cy = e.cy /\ r.cx = e.cx
      /\ r.top = top /\ r.left = left
  BY <1>2, <1>3 DEF InText, Editors
<1> HIDE DEF r
<1>5. InText(r, S) /\ Visible(r, w, h)
  BY <1>3, <1>4 DEF InText, Visible
<1> QED BY <1>5 DEF r

(* A text over some characters is one over more of them.                   *)
LEMMA InTextOfMore ==
  ASSUME NEW S, NEW T, S \subseteq T, NEW e, InText(e, S)
  PROVE  InText(e, T)
<1>1. \A l : l \in Seq(S) => l \in Seq(T)
  OBVIOUS
<1> DEFINE A == Seq(S)
           B == Seq(T)
<1>2. e.lines \in Seq(A) /\ A \subseteq B
  BY <1>1 DEF InText, Editors
<1> HIDE DEF A, B
<1>3. e.lines \in Seq(B)
  BY <1>2
<1> QED BY <1>3 DEF InText, Editors, B

-----------------------------------------------------------------------------
(* The events.                                                             *)

(* A turn of the wheel says how far.                                       *)
IsEvent(ev) == ev.kind = "mouse" => ev.wheel \in Int

LEMMA KeyIsEvent ==
  ASSUME NEW name, NEW rune, NEW ctrl, NEW alt
  PROVE  IsEvent(Key(name, rune, ctrl, alt))
BY DEF IsEvent, Key

LEMMA MouseIsEvent ==
  ASSUME NEW x, NEW y, NEW does, NEW wheel \in Int
  PROVE  IsEvent(Mouse(x, y, does, wheel))
BY DEF IsEvent, Mouse

LEMMA NamedIsEvent ==
  ASSUME NEW name
  PROVE  IsEvent(Named(name))
BY KeyIsEvent, Zenon DEF Named

LEMMA DecodeMouseIsEvent ==
  ASSUME NEW code, NEW x, NEW y, NEW final
  PROVE  IsEvent(DecodeMouse(code, x, y, final))
<1> DEFINE does == IF final = 109 \/ code % 4 = 3 THEN "release" ELSE "press"
           wheel == IF code % 4 = 0 THEN -1 ELSE 1
<1>1. wheel \in Int
  OBVIOUS
<1>2. \/ DecodeMouse(code, x, y, final) = Mouse(x, y, "wheel", wheel)
      \/ DecodeMouse(code, x, y, final) = Mouse(x, y, "motion", 0)
      \/ DecodeMouse(code, x, y, final) = Mouse(x, y, does, 0)
  BY Zenon DEF DecodeMouse
<1> HIDE DEF wheel, does
<1>3. 0 \in Int
  OBVIOUS
<1> QED BY <1>1, <1>2, <1>3, MouseIsEvent, Zenon

LEMMA DecodeBytesIsEvent ==
  ASSUME NEW s
  PROVE  IsEvent(DecodeBytes(s))
<1> DEFINE enter == s[1] \in {10, 13}
           back  == s[1] \in {8, 127}
           ctrl  == s[1] \in (1 .. 31) \ {8, 9, 10, 13}
           char  == Key("", DecodeRune(s), FALSE, FALSE)
           space == Key("space", 0, TRUE, FALSE)
<1>1. DecodeBytes(s) =
        CASE enter -> Named("enter") [] s[1] = 9 -> Named("tab")
          [] back -> Named("backspace") [] s[1] = 0 -> space
          [] ctrl -> Control(s[1]) [] OTHER -> char
  BY Zenon DEF DecodeBytes
<1>2. IsEvent(char) /\ IsEvent(space) /\ IsEvent(Control(s[1]))
  BY KeyIsEvent, Zenon DEF Control
<1> HIDE DEF enter, back, ctrl, char, space
<1>3. \/ DecodeBytes(s) = Named("enter") \/ DecodeBytes(s) = Named("tab")
      \/ DecodeBytes(s) = Named("backspace") \/ DecodeBytes(s) = space
      \/ DecodeBytes(s) = Control(s[1]) \/ DecodeBytes(s) = char
  BY <1>1, Zenon
<1> QED BY <1>2, <1>3, NamedIsEvent, Zenon

LEMMA ParseCSIIsEvent ==
  ASSUME NEW s
  PROVE  IsEvent(ParseCSI(s))
<1> DEFINE body == SubSeq(s, 3, Len(s))
           final == IF body = <<>> THEN 0 ELSE Last(body)
           params == IF body = <<>> THEN <<>> ELSE Front(body)
           nums == Nums(params)
           mods == IF Len(nums) >= 2 THEN Last(nums) - 1 ELSE 0
           number == IF nums = <<>> THEN 0 ELSE Head(nums)
           name == CASE final \in DOMAIN Letters -> Letters[final]
                     [] final = 126 /\ number \in DOMAIN Tildes -> Tildes[number]
                     [] OTHER -> "unknown"
           report == Nums(Tail(params))
           mouse == DecodeMouse(report[1], report[2] - 1, report[3] - 1, final)
           key == Key(name, 0, Bit(mods, 4), Bit(mods, 2))
           reports == params # <<>> /\ Head(params) = 60
           whole == Len(report) >= 3
<1>1. ParseCSI(s) = IF reports THEN IF whole THEN mouse ELSE Named("unknown") ELSE key
  BY DEF ParseCSI
<1>2. IsEvent(mouse)
  <2> HIDE DEF report, final
  <2> QED BY DecodeMouseIsEvent, Zenon
<1>3. IsEvent(key)
  <2> HIDE DEF name, mods
  <2> QED BY KeyIsEvent, Zenon
<1> HIDE DEF reports, whole, mouse, key
<1> QED BY <1>1, <1>2, <1>3, NamedIsEvent, Zenon

LEMMA ParseEscapeIsEvent ==
  ASSUME NEW s
  PROVE  IsEvent(ParseEscape(s))
<1> DEFINE csi == Len(s) >= 2 /\ s[2] = 91
           either == IF Len(s) >= 3 /\ s[3] = 77 THEN DecodeX10(s) ELSE ParseCSI(s)
           ss3 == Len(s) >= 2 /\ s[2] = 79
           three == IF Len(s) >= 3 THEN Ss3Key(s[3]) ELSE Named("esc")
           r == DecodeRune(Tail(s))
           alt == IF r = Escape THEN Named("esc") ELSE Key("", r, FALSE, TRUE)
           lone == Len(s) = 1
<1>1. ParseEscape(s) = CASE lone -> Named("esc") [] csi -> either
                         [] ss3 -> three [] OTHER -> alt
  BY Zenon DEF ParseEscape
<1>2. IsEvent(DecodeX10(s))
  <2>1. 0 \in Int
    OBVIOUS
  <2>2. \/ DecodeX10(s) = Mouse(0, 0, "none", 0)
        \/ DecodeX10(s) = DecodeMouse(s[4] - 32, s[5] - 33, s[6] - 33, 77)
    BY Zenon DEF DecodeX10
  <2> QED BY <2>1, <2>2, MouseIsEvent, DecodeMouseIsEvent, Zenon
<1>3. IsEvent(three)
  BY NamedIsEvent, Zenon DEF Ss3Key
<1>4. IsEvent(alt)
  <2> HIDE DEF r
  <2> QED BY NamedIsEvent, KeyIsEvent, Zenon
<1>5. IsEvent(either)
  BY <1>2, ParseCSIIsEvent, Zenon
<1> HIDE DEF either, csi, ss3, three, alt, lone
<1>6. \/ ParseEscape(s) = Named("esc") \/ ParseEscape(s) = either
      \/ ParseEscape(s) = three \/ ParseEscape(s) = alt
  BY <1>1, Zenon
<1> QED BY <1>3, <1>4, <1>5, <1>6, NamedIsEvent, Zenon

LEMMA DecodeIsEvent ==
  ASSUME NEW s
  PROVE  IsEvent(Decode(s))
BY DecodeBytesIsEvent, ParseEscapeIsEvent, Zenon DEF Decode

-----------------------------------------------------------------------------
(* The editor's keys.                                                      *)

(* The text is one over some characters, and the cursor is in it.          *)
IsEdited(e) == \E S : InText(e, S)

LEMMA HandleKeyIsEdited ==
  ASSUME NEW e, IsEdited(e), NEW ev
  PROVE  IsEdited(HandleKey(e, ev))
<1>1. PICK R : InText(e, R)
  BY Zenon DEF IsEdited
<1> DEFINE S == R \union {32, ev.rune}
<1>2. InText(e, S) /\ 32 \in S /\ ev.rune \in S
  BY <1>1, InTextOfMore
<1> HIDE DEF S
<1>3. Rows \in Int
  BY TerminalAssumption
<1>4. e.cy \in Int
  BY <1>2, Fields
<1>5. e.cy - 1 \in Int /\ e.cy + 1 \in Int /\ e.cy - Rows \in Int /\ e.cy + Rows \in Int
  BY <1>3, <1>4
<1>6. \/ \E k \in Int : HandleKey(e, ev) = ToLine(e, k)
      \/ HandleKey(e, ev) = MoveLeft(e) \/ HandleKey(e, ev) = MoveRight(e)
      \/ HandleKey(e, ev) = Home(e) \/ HandleKey(e, ev) = End(e)
      \/ HandleKey(e, ev) = Split(e) \/ HandleKey(e, ev) = Insert(Insert(e, 32), 32)
      \/ HandleKey(e, ev) = Backspace(e) \/ HandleKey(e, ev) = Delete(e)
      \/ HandleKey(e, ev) = Insert(e, ev.rune) \/ HandleKey(e, ev) = e
  BY <1>5, Zenon DEF HandleKey
<1>7. InText(HandleKey(e, ev), S)
  <2>1. \A k \in Int : InText(ToLine(e, k), S)
    BY <1>2, ToLineInText, Zenon
  <2>2. /\ InText(MoveLeft(e), S)
        /\ InText(MoveRight(e), S)
        /\ InText(Home(e), S)
        /\ InText(End(e), S)
    BY <1>2, MoveLeftInText, MoveRightInText, HomeInText, EndInText, Zenon
  <2>3. InText(Split(e), S) /\ InText(Backspace(e), S) /\ InText(Delete(e), S)
    BY <1>2, SplitInText, BackspaceInText, DeleteInText, Zenon
  <2>4. InText(Insert(e, 32), S) /\ InText(Insert(e, ev.rune), S)
    BY <1>2, InsertInText, Zenon
  <2>5. InText(Insert(Insert(e, 32), 32), S)
    BY <1>2, <2>4, InsertInText, Zenon
  <2> QED BY <1>2, <1>6, <2>1, <2>2, <2>3, <2>4, <2>5, Zenon
<1> QED BY <1>7, Zenon DEF IsEdited

LEMMA HandleMouseIsEdited ==
  ASSUME NEW e, IsEdited(e), NEW ev, ev.wheel \in Int
  PROVE  IsEdited(HandleMouse(e, ev))
<1>1. PICK S : InText(e, S)
  BY Zenon DEF IsEdited
<1>2. e.cy + 3 * ev.wheel \in Int
  BY <1>1, Fields
<1>3. InText(ToLine(e, e.cy + 3 * ev.wheel), S)
  BY <1>1, <1>2, ToLineInText, Zenon
<1>4. ASSUME CellY(ev) \in 0 .. Rows - 1, ev.x \in 1 .. Columns + 9
      PROVE  InText(Clicked(e, CellX(ev), CellY(ev)), S)
  <2>1. CellX(ev) \in Int /\ CellY(ev) \in Int
    BY <1>4, TerminalAssumption DEF CellX, Gutter
  <2> QED BY <1>1, <2>1, ClickedInText, Zenon
<1>5. InText(HandleMouse(e, ev), S)
  BY <1>1, <1>3, <1>4, Zenon DEF HandleMouse
<1> QED BY <1>5, Zenon DEF IsEdited

(* What is drawn is the text, scrolled to the cursor.                      *)
IsShown(e) == IsEdited(e) /\ Visible(e, Columns, Rows)

LEMMA DrawnIsShown ==
  ASSUME NEW e, IsEdited(e)
  PROVE  IsShown(Drawn(e))
<1>1. PICK S : InText(e, S)
  BY Zenon DEF IsEdited
<1>2. Columns \in Nat \ {0} /\ Rows \in Nat \ {0}
  BY TerminalAssumption, Zenon
<1> QED BY <1>1, <1>2, EnsureVisibleInText, Zenon DEF Drawn, IsShown, IsEdited

LEMMA OpenedIsShown == IsShown(Opened)
<1>1. Message \in Seq(Seq(Nat \ {Newline})) /\ Message # <<>>
  BY TerminalAssumption, Zenon
<1>2. InText(NewEditor(Message), Nat \ {Newline})
  BY <1>1, NewEditorInText, Zenon
<1> QED BY <1>2, DrawnIsShown, Zenon DEF Opened, IsEdited

-----------------------------------------------------------------------------
(* The invariant.  A cursor in the text is what TypeOK says of the editor, *)
(* and CursorIsVisible is that it is shown.                                *)

LEMMA ShownIs ==
  ASSUME NEW e, IsShown(e)
  PROVE  /\ e.cy \in 1 .. Len(e.lines) /\ e.cx \in 0 .. Len(Line(e))
         /\ e.cy - 1 \in e.top .. e.top + Rows - 1
         /\ e.cx \in e.left .. e.left + Columns - 1
BY Zenon DEF IsShown, IsEdited, InText, Visible, Line

Byte == 0 .. 255

(* What the goroutines hold, and how the parser stands.                    *)
ReaderOK ==
  /\ wire \in Seq(Byte) /\ bytes \in Seq(Byte) /\ seq \in Seq(Byte)
  /\ phase \in {"idle", "escape", "rune", "emits", "ended"}
  /\ phase \in {"idle", "ended"} <=> seq = <<>>
  /\ Len(bytes) <= ByteCap /\ Len(events) <= EventCap
  /\ reading \in BOOLEAN /\ closed \in BOOLEAN /\ disturbed \in BOOLEAN
  /\ verdict \in {"none", "dropped", "sent"}

AreEvents(evs) == \E T : evs \in Seq(T) /\ \A ev \in T : IsEvent(ev)

IInv == ReaderOK /\ AreEvents(events) /\ IsShown(editor)

LEMMA IInvIsScreenInv == IInv => ScreenInv
<1> SUFFICES ASSUME IInv PROVE ScreenInv
  OBVIOUS
<1>1. CursorIsVisible
  BY ShownIs, Zenon DEF IInv, CursorIsVisible
<1>2. TypeOK
  <2>1. editor.cy \in 1 .. Len(editor.lines) /\ editor.cx \in 0 .. Len(Line(editor))
    BY ShownIs, Zenon DEF IInv
  <2>2. ReaderOK
    BY Zenon DEF IInv
  <2> QED BY <2>1, <2>2 DEF ReaderOK, TypeOK, Byte
<1> QED BY <1>1, <1>2 DEF ScreenInv

LEMMA EmptyAreEvents == AreEvents(<<>>)
<1> DEFINE none == <<>>
<1>1. none \in Seq(Nat \ Nat) /\ \A ev \in Nat \ Nat : IsEvent(ev)
  OBVIOUS
<1> HIDE DEF none
<1>2. AreEvents(none)
  BY <1>1, Zenon DEF AreEvents
<1> QED BY <1>2 DEF none

LEMMA AppendAreEvents ==
  ASSUME NEW evs, AreEvents(evs), NEW ev, IsEvent(ev)
  PROVE  /\ AreEvents(Append(evs, ev))
         /\ Len(Append(evs, ev)) = Len(evs) + 1
         /\ Len(evs) \in Nat
<1>1. PICK T : evs \in Seq(T) /\ \A x \in T : IsEvent(x)
  BY Zenon DEF AreEvents
<1> DEFINE U == T \union {ev}
<1>2. /\ Append(evs, ev) \in Seq(U)
      /\ Len(Append(evs, ev)) = Len(evs) + 1
      /\ Len(evs) \in Nat
  BY <1>1
<1>3. \A x \in U : IsEvent(x)
  BY <1>1, Zenon
<1> HIDE DEF U
<1> QED BY <1>2, <1>3, Zenon DEF AreEvents

LEMMA TailAreEvents ==
  ASSUME NEW evs, AreEvents(evs), evs # <<>>
  PROVE  /\ IsEvent(Head(evs)) /\ AreEvents(Tail(evs))
         /\ Len(Tail(evs)) = Len(evs) - 1 /\ Len(evs) \in Nat
<1>1. PICK T : evs \in Seq(T) /\ \A x \in T : IsEvent(x)
  BY Zenon DEF AreEvents
<1>2. /\ Head(evs) \in T
      /\ Tail(evs) \in Seq(T)
      /\ Len(Tail(evs)) = Len(evs) - 1
      /\ Len(evs) \in Nat
  BY <1>1
<1> QED BY <1>1, <1>2, Zenon DEF AreEvents

-----------------------------------------------------------------------------
(* Every step keeps it.                                                    *)

LEMMA InitInv == Init => IInv
<1> SUFFICES ASSUME Init PROVE IInv
  OBVIOUS
<1>1. /\ wire = <<>> /\ bytes = <<>> /\ phase = "idle" /\ seq = <<>> /\ events = <<>>
      /\ reading = TRUE /\ closed = FALSE /\ editor = Opened /\ verdict = "none"
      /\ disturbed = FALSE
  BY Zenon DEF Init
<1>2. AreEvents(events) /\ IsShown(editor)
  BY <1>1, EmptyAreEvents, OpenedIsShown
<1>3. ByteCap \in Nat /\ EventCap \in Nat
  BY TerminalAssumption, Zenon
<1>4. ReaderOK
  <2>1. /\ wire \in Seq(Byte) /\ bytes \in Seq(Byte) /\ seq \in Seq(Byte)
        /\ Len(bytes) = 0 /\ Len(events) = 0
    BY <1>1
  <2>2. Len(bytes) <= ByteCap /\ Len(events) <= EventCap
    BY <1>3, <2>1
  <2>3. phase \in {"idle", "ended"} <=> seq = <<>>
    BY <1>1
  <2>4. /\ reading \in BOOLEAN /\ closed \in BOOLEAN /\ disturbed \in BOOLEAN
        /\ verdict \in {"none", "dropped", "sent"}
        /\ phase \in {"idle", "escape", "rune", "emits", "ended"}
    BY <1>1
  <2> QED BY <2>1, <2>2, <2>3, <2>4, Zenon DEF ReaderOK
<1> QED BY <1>2, <1>4, Zenon DEF IInv

(* A step that leaves the editor and the events alone.                     *)
LEMMA ReaderStep ==
  ASSUME IInv, ReaderOK', UNCHANGED <<events, editor>>
  PROVE  IInv'
BY Zenon DEF IInv

LEMMA PressesInv ==
  ASSUME IInv, NEW key \in Keys, Presses(key)
  PROVE  IInv'
<1>1. Bytes[key] \in Seq(Byte)
  BY TerminalAssumption DEF Byte
<1>2. /\ wire' = wire \o Bytes[key]
      /\ UNCHANGED <<bytes, phase, seq, events, reading, closed, editor,
                     verdict, disturbed>>
  BY Zenon DEF Presses, parser, ui
<1>3. ReaderOK
  BY Zenon DEF IInv
<1>4. ReaderOK'
  BY <1>1, <1>2, <1>3 DEF ReaderOK
<1> QED BY <1>2, <1>4, ReaderStep, Zenon

LEMMA StartsAnewInv ==
  ASSUME IInv, StartsAnew
  PROVE  IInv'
<1>1. /\ editor' = Opened /\ verdict' = "none" /\ disturbed' = FALSE
      /\ UNCHANGED <<wire, bytes, phase, seq, events, reading, closed>>
  BY Zenon DEF StartsAnew, parser
<1>2. ReaderOK
  BY Zenon DEF IInv
<1>3. ReaderOK'
  BY <1>1, <1>2 DEF ReaderOK
<1>4. AreEvents(events') /\ IsShown(editor')
  BY <1>1, OpenedIsShown, Zenon DEF IInv
<1> QED BY <1>3, <1>4, Zenon DEF IInv

LEMMA ReadsInv ==
  ASSUME IInv, Reads \/ ReadEnds
  PROVE  IInv'
<1>1. ReaderOK
  BY Zenon DEF IInv
<1>2. CASE Reads
  <2>1. /\ wire # <<>> /\ Len(bytes) < ByteCap
        /\ bytes' = Append(bytes, Head(wire)) /\ wire' = Tail(wire)
        /\ UNCHANGED <<phase, seq, events, reading, closed, editor, verdict, disturbed>>
    BY <1>2, Zenon DEF Reads, parser, ui, told
  <2>2. wire \in Seq(Byte) /\ bytes \in Seq(Byte) /\ ByteCap \in Nat
    BY <1>1, TerminalAssumption, Zenon DEF ReaderOK
  <2>3. wire' \in Seq(Byte) /\ bytes' \in Seq(Byte) /\ Len(bytes') <= ByteCap
    BY <2>1, <2>2
  <2>4. ReaderOK'
    BY <1>1, <2>1, <2>3 DEF ReaderOK
  <2> QED BY <2>1, <2>4, ReaderStep, Zenon
<1>3. CASE ReadEnds
  <2>1. /\ reading' = FALSE
        /\ UNCHANGED <<wire, bytes, phase, seq, events, closed, editor,
                       verdict, disturbed>>
    BY <1>3, Zenon DEF ReadEnds, parser, ui, told
  <2>2. ReaderOK'
    BY <1>1, <2>1 DEF ReaderOK
  <2> QED BY <2>1, <2>2, ReaderStep, Zenon
<1> QED BY <1>2, <1>3

(* The parser takes a byte.                                                *)
LEMMA ReceivesInv ==
  ASSUME IInv, NEW p \in {"escape", "rune", "emits"}, NEW s \in Seq(Byte), s # <<>>,
         Receives(p, s), disturbed' \in BOOLEAN
  PROVE  IInv'
<1>1. ReaderOK
  BY Zenon DEF IInv
<1>2. /\ bytes # <<>> /\ bytes' = Tail(bytes) /\ seq' = s /\ phase' = p
      /\ UNCHANGED <<wire, events, reading, closed, editor, verdict>>
  BY Zenon DEF Receives, ui
<1>3. bytes \in Seq(Byte) /\ Len(bytes) <= ByteCap /\ ByteCap \in Nat
  BY <1>1, TerminalAssumption, Zenon DEF ReaderOK
<1>4. bytes' \in Seq(Byte) /\ Len(bytes') <= ByteCap
  BY <1>2, <1>3
<1>5. ReaderOK'
  BY <1>1, <1>2, <1>4 DEF ReaderOK
<1> QED BY <1>2, <1>5, ReaderStep, Zenon

(* What becomes of the operator's keys leaves disturbed a truth value.     *)
LEMMA ToldIsTruth ==
  ASSUME IInv, Disturbs \/ UNCHANGED told
  PROVE  disturbed' \in BOOLEAN
BY DEF IInv, ReaderOK, Disturbs, told

LEMMA ParsesInv ==
  ASSUME IInv, Parses
  PROVE  IInv'
<1>1. ReaderOK
  BY Zenon DEF IInv
<1>2. /\ bytes \in Seq(Byte) /\ seq \in Seq(Byte)
      /\ bytes # <<>> => Head(bytes) \in Byte
  BY <1>1 DEF ReaderOK
<1>3. bytes # <<>> => <<Head(bytes)>> \in Seq(Byte) /\ <<Head(bytes)>> # <<>>
  BY <1>2
<1>4. bytes # <<>> =>
        Append(seq, Head(bytes)) \in Seq(Byte) /\ Append(seq, Head(bytes)) # <<>>
  <2>1. \A b \in Byte : Append(seq, b) \in Seq(Byte) /\ Append(seq, b) # <<>>
    BY <1>2, AppendProperties
  <2> QED BY <1>2, <2>1, Zenon
<1>5. CASE Starting
  <2> DEFINE p == IF Head(bytes) = Escape THEN "escape"
                  ELSE IF Size(Head(bytes)) > 1 THEN "rune" ELSE "emits"
             s == <<Head(bytes)>>
  <2>1. Receives(p, s) /\ UNCHANGED told
    BY <1>5, Zenon DEF Starting
  <2>2. p \in {"escape", "rune", "emits"}
    BY Zenon
  <2>3. s \in Seq(Byte) /\ s # <<>>
    <3>1. bytes # <<>>
      BY <2>1, Zenon DEF Receives
    <3> QED BY <1>3, <3>1, Zenon
  <2>4. disturbed' \in BOOLEAN
    BY <2>1, ToldIsTruth, Zenon
  <2> HIDE DEF p, s
  <2> QED BY <2>1, <2>2, <2>3, <2>4, ReceivesInv, Zenon
<1>6. CASE Escaping
  <2> DEFINE s == Append(seq, Head(bytes))
             p == IF Len(s) > MaxSeq \/ SeqComplete(s) THEN "emits" ELSE "escape"
  <2>1. Receives(p, s) /\ Interrupted
    BY <1>6, Zenon DEF Escaping
  <2>2. p \in {"escape", "rune", "emits"}
    BY Zenon
  <2>3. s \in Seq(Byte) /\ s # <<>>
    <3>1. bytes # <<>>
      BY <2>1, Zenon DEF Receives
    <3> QED BY <1>4, <3>1, Zenon
  <2>4. disturbed' \in BOOLEAN
    BY <2>1, ToldIsTruth, Zenon DEF Interrupted
  <2> HIDE DEF p, s
  <2> QED BY <2>1, <2>2, <2>3, <2>4, ReceivesInv, Zenon
<1>7. CASE Gathering
  <2> DEFINE s == Append(seq, Head(bytes))
             p == IF Len(s) < Size(s[1]) THEN "rune" ELSE "emits"
  <2>1. Receives(p, s) /\ UNCHANGED told
    BY <1>7, Zenon DEF Gathering
  <2>2. p \in {"escape", "rune", "emits"}
    BY Zenon
  <2>3. s \in Seq(Byte) /\ s # <<>>
    <3>1. bytes # <<>>
      BY <2>1, Zenon DEF Receives
    <3> QED BY <1>4, <3>1, Zenon
  <2>4. disturbed' \in BOOLEAN
    BY <2>1, ToldIsTruth, Zenon
  <2> HIDE DEF p, s
  <2> QED BY <2>1, <2>2, <2>3, <2>4, ReceivesInv, Zenon
<1>8. CASE TimesOut
  <2>1. /\ phase \in {"escape", "rune"} /\ phase' = "emits"
        /\ UNCHANGED <<wire, bytes, seq, events, reading, closed, editor, verdict>>
    BY <1>8, Zenon DEF TimesOut, ui
  <2>2. Disturbs \/ UNCHANGED told
    BY <1>8, Zenon DEF TimesOut, Cut
  <2>3. disturbed' \in BOOLEAN
    BY <2>2, ToldIsTruth, Zenon
  <2>4. ReaderOK'
    BY <1>1, <2>1, <2>3 DEF ReaderOK
  <2> QED BY <2>1, <2>4, ReaderStep, Zenon
<1>9. CASE Emits
  <2>1. /\ phase = "emits" /\ phase' = "idle" /\ seq' = <<>>
        /\ UNCHANGED <<wire, bytes, reading, closed, editor, verdict, disturbed>>
        /\ \/ Len(events) < EventCap /\ events' = Append(events, Decode(seq))
           \/ UNCHANGED events
    BY <1>9, Zenon DEF Emits, ui, told
  <2>2. AreEvents(events)
    BY Zenon DEF IInv
  <2>3. Len(events) \in Nat /\ AreEvents(events') /\ Len(events') <= EventCap
    <3>1. /\ AreEvents(Append(events, Decode(seq)))
          /\ Len(Append(events, Decode(seq))) = Len(events) + 1
          /\ Len(events) \in Nat
      BY <2>2, DecodeIsEvent, AppendAreEvents, Zenon
    <3>2. EventCap \in Nat
      BY TerminalAssumption, Zenon
    <3>3. CASE Len(events) < EventCap /\ events' = Append(events, Decode(seq))
      <4>1. AreEvents(events') /\ Len(events') = Len(events) + 1
        BY <3>1, <3>3
      <4> QED BY <3>1, <3>2, <3>3, <4>1
    <3>4. CASE UNCHANGED events
      <4>1. Len(events) <= EventCap
        BY <1>1, Zenon DEF ReaderOK
      <4> QED BY <2>2, <3>1, <3>4, <4>1, Zenon
    <3> QED BY <2>1, <3>3, <3>4, Zenon
  <2>4. ReaderOK'
    <3>1. seq' \in Seq(Byte)
      BY <2>1
    <3> QED BY <1>1, <2>1, <2>3, <3>1 DEF ReaderOK
  <2>5. IsShown(editor')
    BY <2>1, Zenon DEF IInv
  <2> QED BY <2>3, <2>4, <2>5, Zenon DEF IInv
<1>10. CASE SeesClosed
  <2>1. /\ \/ phase = "idle" /\ phase' = "ended"
           \/ phase \in {"escape", "rune"} /\ phase' = "emits"
        /\ UNCHANGED <<wire, bytes, seq, events, reading, closed, editor,
                       verdict, disturbed>>
    BY <1>10, Zenon DEF SeesClosed, ui, told
  <2>2. ReaderOK'
    BY <1>1, <2>1 DEF ReaderOK
  <2> QED BY <2>1, <2>2, ReaderStep, Zenon
<1> QED BY <1>5, <1>6, <1>7, <1>8, <1>9, <1>10, Zenon DEF Parses

LEMMA HandlesInv ==
  ASSUME IInv, Handles
  PROVE  IInv'
<1> DEFINE ev == Head(events)
<1>1. /\ events # <<>> /\ events' = Tail(events)
      /\ UNCHANGED <<wire, bytes, phase, seq, reading, closed, disturbed>>
      /\ \/ ev.kind = "mouse" /\ Edits(HandleMouse(editor, ev)) /\ verdict' = "none"
         \/ editor' = Opened /\ verdict' = IF Drops(ev) THEN "dropped" ELSE "sent"
         \/ Edits(HandleKey(editor, ev)) /\ verdict' = "none"
  BY Zenon DEF Handles, parser
<1>2. ReaderOK /\ AreEvents(events) /\ IsEdited(editor)
  BY Zenon DEF IInv, IsShown
<1>3. /\ IsEvent(ev) /\ AreEvents(events')
      /\ Len(events') = Len(events) - 1 /\ Len(events) \in Nat
  BY <1>1, <1>2, TailAreEvents
<1> HIDE DEF ev
<1>4. verdict' \in {"none", "dropped", "sent"}
  BY <1>1, Zenon
<1>5. IsShown(editor')
  <2>1. CASE ev.kind = "mouse" /\ Edits(HandleMouse(editor, ev))
    <3>1. ev.wheel \in Int
      BY <1>3, <2>1, Zenon DEF IsEvent
    <3>2. IsEdited(HandleMouse(editor, ev))
      BY <1>2, <3>1, HandleMouseIsEdited, Zenon
    <3> QED BY <2>1, <3>2, DrawnIsShown, Zenon DEF Edits
  <2>2. CASE editor' = Opened
    BY <2>2, OpenedIsShown, Zenon
  <2>3. CASE Edits(HandleKey(editor, ev))
    <3>1. IsEdited(HandleKey(editor, ev))
      BY <1>2, HandleKeyIsEdited, Zenon
    <3> QED BY <2>3, <3>1, DrawnIsShown, Zenon DEF Edits
  <2> QED BY <1>1, <2>1, <2>2, <2>3, Zenon
<1>6. ReaderOK'
  <2>1. EventCap \in Nat /\ Len(events) <= EventCap
    BY <1>2, TerminalAssumption, Zenon DEF ReaderOK
  <2>2. Len(events') <= EventCap
    BY <1>3, <2>1
  <2> QED BY <1>1, <1>2, <1>4, <2>2 DEF ReaderOK
<1> QED BY <1>3, <1>5, <1>6, Zenon DEF IInv

LEMMA ClosesInv ==
  ASSUME IInv, Closes
  PROVE  IInv'
<1>1. /\ closed' = TRUE
      /\ UNCHANGED <<wire, bytes, phase, seq, events, reading, editor,
                     verdict, disturbed>>
  BY Zenon DEF Closes, parser, ui, told
<1>2. ReaderOK'
  BY <1>1 DEF IInv, ReaderOK
<1> QED BY <1>1, <1>2, ReaderStep, Zenon

LEMMA StutterInv ==
  ASSUME IInv, UNCHANGED vars
  PROVE  IInv'
<1>1. UNCHANGED <<wire, bytes, phase, seq, events, reading, closed, editor,
                  verdict, disturbed>>
  BY Zenon DEF vars
<1>2. ReaderOK'
  BY <1>1 DEF IInv, ReaderOK
<1> QED BY <1>1, <1>2, ReaderStep, Zenon

LEMMA NextInv == IInv /\ [Next]_vars => IInv'
<1> SUFFICES ASSUME IInv, [Next]_vars PROVE IInv'
  OBVIOUS
<1> QED
  BY PressesInv, StartsAnewInv, ReadsInv, ParsesInv, HandlesInv, ClosesInv,
     StutterInv, Zenon DEF Next

(* After every event, whatever bytes the terminal sent and in however many *)
(* pieces, the editor has a line, its cursor is in it, and the viewport    *)
(* has been scrolled to where the cursor can be seen (App.editorKey,       *)
(* Editor.EnsureVisible).                                                  *)
THEOREM ScreenInvAlways == Spec => []ScreenInv
BY InitInv, NextInv, IInvIsScreenInv, PTL DEF Spec

-----------------------------------------------------------------------------
(***************************************************************************)
(* Part two.  The editor is a text buffer.                                 *)
(***************************************************************************)

(* Sequences in two parts, and an element between them.                    *)

Either(a, b, c) == a \o b \o c = a \o (b \o c)

LEMMA Assoc ==
  ASSUME NEW T, NEW a \in Seq(T), NEW b \in Seq(T), NEW c \in Seq(T)
  PROVE  Either(a, b, c)
BY ConcatAssociative DEF Either

LEMMA PutBetween ==
  ASSUME NEW T, NEW a \in Seq(T), NEW b \in Seq(T), NEW l \in T
  PROVE  InsertAt(a \o b, Len(a) + 1, l) = a \o <<l>> \o b
<1>1. SubSeq(a \o b, 1, Len(a)) = a /\ SubSeq(a \o b, Len(a) + 1, Len(a \o b)) = b
  OBVIOUS
<1>2. (Len(a) + 1) - 1 = Len(a)
  OBVIOUS
<1> QED BY <1>1, <1>2, Zenon DEF InsertAt

IsBetween(T, a, l, b) ==
  /\ a \o <<l>> \o b \in Seq(T)
  /\ Len(a \o <<l>> \o b) = Len(a) + 1 + Len(b)
  /\ (a \o <<l>> \o b)[Len(a) + 1] = l
  /\ SubSeq(a \o <<l>> \o b, 1, Len(a)) = a

LEMMA Between ==
  ASSUME NEW T, NEW a \in Seq(T), NEW b \in Seq(T), NEW l \in T
  PROVE  IsBetween(T, a, l, b)
BY DEF IsBetween

LEMMA TakeBetween ==
  ASSUME NEW T, NEW a \in Seq(T), NEW b \in Seq(T), NEW l \in T
  PROVE  RemoveAt(a \o <<l>> \o b, Len(a) + 1) = a \o b
<1>1. /\ SubSeq(a \o <<l>> \o b, 1, Len(a)) = a
      /\ SubSeq(a \o <<l>> \o b, Len(a) + 2, Len(a \o <<l>> \o b)) = b
  OBVIOUS
<1>2. (Len(a) + 1) - 1 = Len(a) /\ (Len(a) + 1) + 1 = Len(a) + 2
  OBVIOUS
<1> QED BY <1>1, <1>2, Zenon DEF RemoveAt

Exchanges(a, l, b, m) ==
  Exchanged(a \o <<l>> \o b, Len(a) + 1, m) = a \o <<m>> \o b

LEMMA ExchangeBetween ==
  ASSUME NEW T, NEW a \in Seq(T), NEW b \in Seq(T), NEW l \in T, NEW m \in T
  PROVE  Exchanges(a, l, b, m)
<1> DEFINE v == a \o <<l>> \o b
           w == a \o <<m>> \o b
           x == [v EXCEPT ![Len(a) + 1] = m]
<1>1. /\ v \in Seq(T) /\ Len(v) = Len(a) + 1 + Len(b)
      /\ w \in Seq(T) /\ Len(w) = Len(a) + 1 + Len(b) /\ w[Len(a) + 1] = m
  OBVIOUS
<1>2. \A i \in 1 .. Len(a) + 1 + Len(b) : i # Len(a) + 1 => v[i] = w[i]
  OBVIOUS
<1> HIDE DEF v, w
<1>3. x \in Seq(T) /\ Len(x) = Len(v) /\ \A i \in 1 .. Len(v) : x[i] = IF i = Len(a) + 1 THEN m ELSE v[i]
  BY <1>1
<1> HIDE DEF x
<1>4. x = w
  <2>1. \A i \in 1 .. Len(x) : x[i] = w[i]
    BY <1>1, <1>2, <1>3
  <2> QED BY <1>1, <1>3, <2>1, SeqEqual
<1> QED BY <1>4 DEF x, v, w, Exchanged, Exchanges

(* Every place of a sequence has something in front of it and behind it.   *)
LEMMA CutAt ==
  ASSUME NEW T, NEW s \in Seq(T), NEW i \in 1 .. Len(s)
  PROVE  \E a \in Seq(T), b \in Seq(T) :
           /\ s = a \o <<s[i]>> \o b /\ Len(a) = i - 1
<1> DEFINE a == SubSeq(s, 1, i - 1)
           b == SubSeq(s, i + 1, Len(s))
           l == s[i]
           w == a \o <<l>> \o b
<1>1. /\ a \in Seq(T) /\ Len(a) = i - 1 /\ \A k \in 1 .. i - 1 : a[k] = s[k]
      /\ b \in Seq(T) /\ Len(b) = Len(s) - i /\ \A k \in 1 .. Len(s) - i : b[k] = s[i + k]
      /\ l \in T
  OBVIOUS
<1> HIDE DEF a, b
<1>2. /\ w \in Seq(T) /\ Len(w) = Len(a) + 1 + Len(b)
  BY <1>1
<1>3. \A k \in 1 .. Len(s) : w[k] = s[k]
  <2>1. \A k \in 1 .. i - 1 : w[k] = s[k]
    BY <1>1
  <2>2. w[i] = s[i]
    BY <1>1
  <2>3. \A k \in 1 .. Len(b) : w[i + k] = b[k]
    BY <1>1
  <2>4. \A k \in i + 1 .. Len(s) : w[k] = s[k]
    <3>1. \A k \in i + 1 .. Len(s) : k - i \in 1 .. Len(b) /\ i + (k - i) = k
      BY <1>1
    <3>2. \A k \in i + 1 .. Len(s) : w[k] = b[k - i] /\ s[k] = b[k - i]
      <4>1. ASSUME NEW k \in i + 1 .. Len(s) PROVE w[k] = b[k - i] /\ s[k] = b[k - i]
        <5> DEFINE j == k - i
        <5>1. j \in 1 .. Len(b) /\ j \in 1 .. Len(s) - i /\ i + j = k
          BY <1>1
        <5>2. w[i + j] = b[j]
          BY <5>1, <2>3, Zenon
        <5>3. b[j] = s[i + j]
          BY <5>1, <1>1, Zenon
        <5> QED BY <5>1, <5>2, <5>3, Zenon
      <4> QED BY <4>1
    <3> QED BY <3>2
  <2> HIDE DEF w
  <2> QED BY <2>1, <2>2, <2>4
<1> HIDE DEF w
<1>4. w = s
  <2>1. Len(w) = Len(s)
    BY <1>1, <1>2
  <2> QED BY <1>2, <1>3, <2>1, SeqEqual
<1> USE DEF w
<1>5. s = a \o <<s[i]>> \o b
  BY <1>4 DEF l
<1> QED BY <1>1, <1>5, Zenon

(* ... and every place between its elements.                               *)
LEMMA CutBehind ==
  ASSUME NEW T, NEW s \in Seq(T), NEW i \in 0 .. Len(s)
  PROVE  /\ SubSeq(s, 1, i) \in Seq(T) /\ Len(SubSeq(s, 1, i)) = i
         /\ SubSeq(s, i + 1, Len(s)) \in Seq(T)
         /\ s = SubSeq(s, 1, i) \o SubSeq(s, i + 1, Len(s))
<1> DEFINE a == SubSeq(s, 1, i)
           b == SubSeq(s, i + 1, Len(s))
<1>1. a \in Seq(T) /\ Len(a) = i /\ b \in Seq(T) /\ Len(b) = Len(s) - i
  OBVIOUS
<1>2. a \o b = SubSeq(s, 1, Len(s))
  <2>1. 1 \in 1 .. Len(s) + 1 /\ i \in 1 - 1 .. Len(s) /\ Len(s) \in i .. Len(s)
    OBVIOUS
  <2> QED BY <2>1, ConcatAdjacentSubSeq, Zenon
<1>3. SubSeq(s, 1, Len(s)) = s
  BY SubSeqFull, Zenon
<1> QED BY <1>1, <1>2, <1>3

LEMMA LeastNat ==
  ASSUME NEW S, S \subseteq Nat, S # {}
  PROVE  \E x \in S : \A y \in S : x <= y
<1> DEFINE R == OpToRel(<, Nat)
<1>1. \E x \in S : \A y \in S : ~ (<<y, x>> \in R)
  <2>1. IsWellFoundedOn(R, Nat)
    BY NatLessThanWellFounded
  <2> HIDE DEF R
  <2> QED BY <2>1, WFMin
<1>2. ASSUME NEW x \in Nat, NEW y \in Nat, y < x PROVE <<y, x>> \in R
  BY <1>2 DEF OpToRel
<1>3. PICK x \in S : \A y \in S : ~ (<<y, x>> \in R)
  BY <1>1
<1>4. ASSUME NEW y \in S PROVE ~ (y < x)
  BY <1>4, <1>3, <1>2, Zenon
<1> QED BY <1>4

LEMMA UpTo ==
  ASSUME NEW N \in Nat, NEW S, 0 \in S, \A n \in 0 .. N - 1 : n \in S => n + 1 \in S
  PROVE  \A n \in 0 .. N : n \in S
<1> DEFINE T == (0 .. N) \ S
<1> SUFFICES ASSUME T # {} PROVE FALSE
  OBVIOUS
<1>1. PICK x \in T : \A y \in T : x <= y
  <2>1. T \subseteq Nat
    OBVIOUS
  <2> HIDE DEF T
  <2> QED BY <2>1, LeastNat
<1>2. x # 0 /\ x - 1 \in 0 .. N - 1
  BY <1>1
<1> QED BY <1>1, <1>2

-----------------------------------------------------------------------------
(* The loop of Text: line n is added to what has been written.             *)

Adds(k, lines, n) ==
  IF n = 0 THEN <<>> ELSE IF n = 1 THEN lines[1]
  ELSE k[n - 1] \o <<Newline>> \o lines[n]

Writes(k, lines, N) == k = [n \in 0 .. N |-> Adds(k, lines, n)]

(* The loop runs through: its table of partial texts exists.               *)
LEMMA TextRuns ==
  ASSUME NEW lines, NEW N \in Nat
  PROVE  \E k : Writes(k, lines, N)
<1> DEFINE Runs(m) == \E k : k = [n \in 0 .. m |-> Adds(k, lines, n)]
           S == {m \in 0 .. N : Runs(m)}
<1>1. Runs(0)
  <2>1. [n \in 0 .. 0 |-> <<>>] = [n \in 0 .. 0 |-> Adds([i \in 0 .. 0 |-> <<>>], lines, n)]
    BY DEF Adds
  <2> QED BY <2>1, Zenon
<1>2. ASSUME NEW m \in 0 .. N - 1, Runs(m) PROVE Runs(m + 1)
  <2>1. PICK k : k = [n \in 0 .. m |-> Adds(k, lines, n)]
    BY <1>2, Zenon
  <2> DEFINE g == [n \in 0 .. m + 1 |-> IF n = m + 1 THEN Adds(k, lines, n) ELSE k[n]]
  <2>2. ASSUME NEW n \in 0 .. m + 1 PROVE g[n] = Adds(g, lines, n)
    <3>1. n # 0 => g[n - 1] = k[n - 1]
      OBVIOUS
    <3>2. Adds(g, lines, n) = Adds(k, lines, n)
      <4> HIDE DEF g
      <4> QED BY <3>1, Zenon DEF Adds
    <3>3. n # m + 1 => k[n] = Adds(k, lines, n)
      <4>1. n # m + 1 => n \in 0 .. m
        OBVIOUS
      <4> QED BY <2>1, <4>1, Zenon
    <3> QED BY <3>2, <3>3
  <2>3. g = [n \in 0 .. m + 1 |-> g[n]]
    OBVIOUS
  <2>4. g = [n \in 0 .. m + 1 |-> Adds(g, lines, n)]
    <3> HIDE DEF g
    <3> QED BY <2>2, <2>3, Zenon
  <2> HIDE DEF g
  <2> QED BY <2>4, Zenon
<1>3. \A n \in 0 .. N - 1 : n \in S => n + 1 \in S
  <2> HIDE DEF Runs
  <2> QED BY <1>2
<1>4. 0 \in S
  <2> HIDE DEF Runs
  <2> QED BY <1>1
<1>5. N \in S
  <2> HIDE DEF S
  <2> QED BY <1>3, <1>4, UpTo
<1> QED BY <1>5, Zenon DEF Writes

Follows(k, lines, N) == \A n \in 0 .. N : k[n] = Adds(k, lines, n)

(* Its last partial text is the text.                                      *)
IsRun(k, lines) ==
  /\ Follows(k, lines, Len(lines))
  /\ TextOf(lines) = k[Len(lines)]

LEMMA TextIsRun ==
  ASSUME NEW lines, Len(lines) \in Nat
  PROVE  \E k : IsRun(k, lines)
<1> DEFINE k == CHOOSE f : f = [n \in 0 .. Len(lines) |-> Adds(f, lines, n)]
<1>1. TextOf(lines) = k[Len(lines)]
  BY Zenon DEF TextOf, Adds
<1>2. \E f : Writes(f, lines, Len(lines))
  BY TextRuns, Zenon
<1>3. k = [n \in 0 .. Len(lines) |-> Adds(k, lines, n)]
  BY <1>2, Zenon DEF Writes
<1> HIDE DEF k
<1>4. \A n \in 0 .. Len(lines) : k[n] = Adds(k, lines, n)
  BY <1>3, Zenon
<1> QED BY <1>1, <1>4, Zenon DEF IsRun, Follows

(* Loops over the same lines write the same.                               *)
LEMMA RunsAgree ==
  ASSUME NEW X, NEW Y, NEW N \in Nat, NEW k, NEW g,
         \A n \in 1 .. N : X[n] = Y[n],
         Follows(k, X, N), Follows(g, Y, N)
  PROVE  k[N] = g[N]
<1> USE DEF Follows
<1> DEFINE S == {n \in 0 .. N : k[n] = g[n]}
<1>1. 0 \in S
  <2>1. k[0] = <<>> /\ g[0] = <<>>
    BY DEF Adds
  <2> QED BY <2>1
<1>2. ASSUME NEW n \in 0 .. N - 1, k[n] = g[n] PROVE k[n + 1] = g[n + 1]
  <2> DEFINE j == n + 1
  <2>1. j - 1 = n /\ j \in 1 .. N /\ j \in 0 .. N
    OBVIOUS
  <2> HIDE DEF j
  <2>2. k[j - 1] = g[j - 1] /\ X[j] = Y[j]
    BY <1>2, <2>1, Zenon
  <2>3. k[j] = Adds(k, X, j) /\ g[j] = Adds(g, Y, j)
    BY <2>1, Zenon
  <2>4. Adds(k, X, j) = Adds(g, Y, j)
    <3>1. CASE j = 1
      BY <2>2, <3>1, Zenon DEF Adds
    <3>2. CASE j # 1
      BY <2>2, <3>2, Zenon DEF Adds
    <3> QED BY <3>1, <3>2, Zenon
  <2> QED BY <2>3, <2>4, Zenon DEF j
<1>3. \A n \in 0 .. N - 1 : n \in S => n + 1 \in S
  BY <1>2
<1>4. N \in S
  <2> HIDE DEF S
  <2>1. \A n \in 0 .. N : n \in S
    BY <1>1, <1>3, UpTo, Zenon
  <2> QED BY <2>1
<1> QED BY <1>4

LEMMA TextOne ==
  ASSUME NEW S, NEW l \in Seq(S)
  PROVE  TextOf(<<l>>) = l
<1> DEFINE X == <<l>>
<1>1. Len(X) = 1 /\ X[1] = l /\ Len(X) \in Nat
  OBVIOUS
<1> HIDE DEF X
<1>2. PICK k : IsRun(k, X)
  BY <1>1, TextIsRun, Zenon
<1>3. 1 \in 0 .. 1 /\ 1 # 0
  OBVIOUS
<1>4. k[1] = X[1]
  <2>1. Adds(k, X, 1) = X[1]
    BY <1>3, Zenon DEF Adds
  <2> QED BY <1>1, <1>2, <1>3, <2>1, Zenon DEF IsRun, Follows
<1> QED BY <1>1, <1>2, <1>4, Zenon DEF IsRun, X

(* A line more.                                                            *)
LEMMA TextAppend ==
  ASSUME NEW S, NEW X \in Seq(Seq(S)), X # <<>>, NEW l \in Seq(S)
  PROVE  TextOf(Append(X, l)) = TextOf(X) \o <<Newline>> \o l
<1> DEFINE Y == Append(X, l)
           N == Len(X)
<1>1. /\ Len(Y) = N + 1 /\ Y[N + 1] = l /\ \A n \in 1 .. N : X[n] = Y[n]
      /\ N \in Nat /\ N # 0 /\ Len(Y) \in Nat
  OBVIOUS
<1> HIDE DEF Y
<1>2. PICK k : IsRun(k, X)
  BY <1>1, TextIsRun, Zenon
<1>3. PICK g : IsRun(g, Y)
  BY <1>1, TextIsRun, Zenon
<1>4. k[N] = g[N]
  <2>1. Follows(k, X, N) /\ Follows(g, Y, N)
    <3>1. \A n \in 0 .. N : n \in 0 .. Len(Y)
      BY <1>1
    <3> QED BY <1>2, <1>3, <3>1, Zenon DEF IsRun, Follows
  <2>2. N \in Nat /\ \A n \in 1 .. N : X[n] = Y[n]
    BY <1>1, Zenon
  <2> HIDE DEF N
  <2> QED BY <2>1, <2>2, RunsAgree
<1>5. g[N + 1] = g[N] \o <<Newline>> \o l
  <2>1. N + 1 \in 0 .. Len(Y) /\ N + 1 # 0 /\ N + 1 # 1 /\ (N + 1) - 1 = N
    BY <1>1
  <2>2. g[N + 1] = Adds(g, Y, N + 1)
    BY <1>3, <2>1, Zenon DEF IsRun, Follows
  <2> QED BY <1>1, <2>1, <2>2, Zenon DEF Adds
<1> QED BY <1>1, <1>2, <1>3, <1>4, <1>5, Zenon DEF IsRun, Y

(* The first n + 1 lines are the first n and one more.                     *)
LEMMA LineMore ==
  ASSUME NEW T, NEW X \in Seq(T), NEW n \in 1 .. Len(X) - 1
  PROVE  /\ SubSeq(X, 1, n) \in Seq(T) /\ SubSeq(X, 1, n) # <<>> /\ X[n + 1] \in T
         /\ SubSeq(X, 1, n + 1) = Append(SubSeq(X, 1, n), X[n + 1])
<1>1. /\ SubSeq(X, 1, n) \in Seq(T) /\ SubSeq(X, 1, n) # <<>> /\ X[n + 1] \in T
  OBVIOUS
<1>2. SubSeq(X, 1, n + 1) = Append(SubSeq(X, 1, n), X[n + 1])
  OBVIOUS
<1> QED BY <1>1, <1>2

LEMMA LineFirst ==
  ASSUME NEW T, NEW X \in Seq(T), X # <<>>
  PROVE  SubSeq(X, 1, 1) = <<X[1]>> /\ X[1] \in T /\ SubSeq(X, 1, Len(X)) = X
         /\ Len(X) \in Nat \ {0}
<1>1. Len(X) \in Nat \ {0} /\ X[1] \in T
  OBVIOUS
<1>2. SubSeq(X, 1, 1) = <<X[1]>>
  <2> DEFINE a == SubSeq(X, 1, 1)
             b == <<X[1]>>
  <2>1. a \in Seq(T) /\ Len(a) = 1 /\ a[1] = X[1]
    BY <1>1
  <2>2. b \in Seq(T) /\ Len(b) = 1 /\ b[1] = X[1]
    BY <1>1
  <2> HIDE DEF a, b
  <2>3. a = b
    BY <2>1, <2>2, SeqEqual
  <2> QED BY <2>3 DEF a, b
<1>3. SubSeq(X, 1, Len(X)) = X
  BY SubSeqFull
<1> QED BY <1>1, <1>2, <1>3

(* What holds of a line, and of n + 1 lines if of n of them.               *)
LEMMA LineByLine ==
  ASSUME NEW T, NEW X \in Seq(T), X # <<>>, NEW Q,
         SubSeq(X, 1, 1) \in Q,
         \A n \in 1 .. Len(X) - 1 : SubSeq(X, 1, n) \in Q => SubSeq(X, 1, n + 1) \in Q
  PROVE  X \in Q
<1> DEFINE R == {n \in 0 .. Len(X) - 1 : SubSeq(X, 1, n + 1) \in Q}
           N == Len(X) - 1
<1>1. N \in Nat /\ SubSeq(X, 1, N + 1) = X
  OBVIOUS
<1>2. 0 \in R
  BY <1>1
<1>3. \A n \in 0 .. N - 1 : n \in R => n + 1 \in R
  <2>1. ASSUME NEW n \in 0 .. N - 1, SubSeq(X, 1, n + 1) \in Q PROVE n + 1 \in R
    <3>1. n + 1 \in 1 .. Len(X) - 1 /\ n + 1 \in 0 .. Len(X) - 1
      BY <1>1
    <3> QED BY <2>1, <3>1
  <2> QED BY <2>1
<1>4. N \in R
  <2> HIDE DEF R, N
  <2>1. \A n \in 0 .. N : n \in R
    BY <1>1, <1>2, <1>3, UpTo, Zenon
  <2> QED BY <1>1, <2>1
<1> QED BY <1>1, <1>4

LEMMA TextIsText ==
  ASSUME NEW S, Newline \in S, NEW X \in Seq(Seq(S)), X # <<>>
  PROVE  TextOf(X) \in Seq(S)
<1> DEFINE Q == {Y \in Seq(Seq(S)) : TextOf(Y) \in Seq(S)}
<1>1. SubSeq(X, 1, 1) \in Q
  <2>1. X[1] \in Seq(S) /\ SubSeq(X, 1, 1) = <<X[1]>>
    BY LineFirst
  <2>2. TextOf(<<X[1]>>) = X[1]
    BY <2>1, TextOne
  <2>3. SubSeq(X, 1, 1) \in Seq(Seq(S))
    BY <2>1
  <2> QED BY <2>1, <2>2, <2>3, Zenon
<1>2. ASSUME NEW n \in 1 .. Len(X) - 1, SubSeq(X, 1, n) \in Q PROVE SubSeq(X, 1, n + 1) \in Q
  <2> DEFINE Y == SubSeq(X, 1, n)
             l == X[n + 1]
  <2>1. Y \in Seq(Seq(S)) /\ Y # <<>> /\ l \in Seq(S) /\ SubSeq(X, 1, n + 1) = Append(Y, l)
    BY LineMore
  <2>2. TextOf(Y) \in Seq(S)
    BY <1>2, Zenon
  <2> HIDE DEF Y, l
  <2>3. TextOf(Append(Y, l)) = TextOf(Y) \o <<Newline>> \o l
    BY <2>1, TextAppend
  <2>4. Append(Y, l) \in Seq(Seq(S)) /\ TextOf(Y) \o <<Newline>> \o l \in Seq(S)
    BY <2>1, <2>2
  <2> QED BY <2>1, <2>3, <2>4, Zenon
<1> HIDE DEF Q
<1>3. X \in Q
  BY <1>1, <1>2, LineByLine
<1> QED BY <1>3, Zenon DEF Q

(* Four parts, put together from the left or the last three first.         *)
Regroups(a, b, c, d) == (a \o b) \o c \o d = a \o (b \o c \o d)

LEMMA Assoc3 ==
  ASSUME NEW T, NEW a \in Seq(T), NEW b \in Seq(T), NEW c \in Seq(T), NEW d \in Seq(T)
  PROVE  Regroups(a, b, c, d)
<1>1. b \o c \in Seq(T) /\ a \o b \in Seq(T)
  OBVIOUS
<1>2. (a \o b) \o c = a \o (b \o c)
  BY ConcatAssociative
<1>3. (a \o (b \o c)) \o d = a \o ((b \o c) \o d)
  BY <1>1, ConcatAssociative
<1> QED BY <1>2, <1>3 DEF Regroups

(* Line ends between three parts of a text.                                *)
EitherWay(t, s, l) ==
  (t \o <<Newline>> \o s) \o <<Newline>> \o l = t \o <<Newline>> \o (s \o <<Newline>> \o l)

LEMMA ThreeParts ==
  ASSUME NEW S, Newline \in S, NEW t \in Seq(S), NEW s \in Seq(S), NEW l \in Seq(S)
  PROVE  EitherWay(t, s, l)
<1> DEFINE c == <<Newline>>
           f == t \o c
<1>1. c \in Seq(S)
  OBVIOUS
<1>2. f \in Seq(S)
  OBVIOUS
<1> HIDE DEF c, f
<1>3. Regroups(f, s, c, l)
  BY <1>1, <1>2, Assoc3, Zenon
<1> QED BY <1>3, Zenon DEF EitherWay, Regroups, c, f

(* The text of lines in two parts.                                         *)
LEMMA TextConcat ==
  ASSUME NEW S, Newline \in S, NEW X \in Seq(Seq(S)), X # <<>>, NEW Y \in Seq(Seq(S)),
         Y # <<>>
  PROVE  TextOf(X \o Y) = TextOf(X) \o <<Newline>> \o TextOf(Y)
<1> DEFINE t == TextOf(X)
           Good(Z) == TextOf(X \o Z) = t \o <<Newline>> \o TextOf(Z)
           Q == {Z \in Seq(Seq(S)) : Good(Z)}
<1>1. SubSeq(Y, 1, 1) \in Q
  <2> DEFINE l == Y[1]
  <2>1. l \in Seq(S) /\ SubSeq(Y, 1, 1) = <<l>>
    BY LineFirst
  <2> HIDE DEF l
  <2>2. TextOf(<<l>>) = l
    BY <2>1, TextOne
  <2>3. X \o <<l>> = Append(X, l) /\ <<l>> \in Seq(Seq(S))
    BY <2>1
  <2>4. TextOf(Append(X, l)) = t \o <<Newline>> \o l
    BY <2>1, TextAppend
  <2> QED BY <2>1, <2>2, <2>3, <2>4, Zenon
<1>2. ASSUME NEW n \in 1 .. Len(Y) - 1, SubSeq(Y, 1, n) \in Q PROVE SubSeq(Y, 1, n + 1) \in Q
  <2> DEFINE Z == SubSeq(Y, 1, n)
             l == Y[n + 1]
             s == TextOf(Z)
  <2>1. Z \in Seq(Seq(S)) /\ Z # <<>> /\ l \in Seq(S) /\ SubSeq(Y, 1, n + 1) = Append(Z, l)
    BY LineMore
  <2>2. Good(Z)
    BY <1>2, Zenon
  <2> HIDE DEF Z, l
  <2>3. TextOf(Append(Z, l)) = s \o <<Newline>> \o l
    BY <2>1, TextAppend
  <2>4. X \o Z \in Seq(Seq(S)) /\ X \o Z # <<>> /\ X \o Append(Z, l) = Append(X \o Z, l)
        /\ Append(Z, l) \in Seq(Seq(S))
    BY <2>1
  <2>5. TextOf(Append(X \o Z, l)) = (t \o <<Newline>> \o s) \o <<Newline>> \o l
    <3> DEFINE W == X \o Z
    <3>1. W \in Seq(Seq(S)) /\ W # <<>>
      BY <2>4
    <3> HIDE DEF W
    <3>2. TextOf(Append(W, l)) = TextOf(W) \o <<Newline>> \o l
      BY <2>1, <3>1, TextAppend
    <3> QED BY <2>2, <3>2, Zenon DEF W
  <2>6. t \in Seq(S) /\ s \in Seq(S)
    BY <2>1, TextIsText, Zenon
  <2>7. EitherWay(t, s, l)
    <3> HIDE DEF t, s
    <3> QED BY <2>1, <2>6, ThreeParts, Zenon
  <2>8. TextOf(X \o Append(Z, l)) = t \o <<Newline>> \o TextOf(Append(Z, l))
    BY <2>3, <2>4, <2>5, <2>7, Zenon DEF EitherWay
  <2> QED BY <2>1, <2>4, <2>8, Zenon
<1> HIDE DEF Q
<1>3. Y \in Q
  BY <1>1, <1>2, LineByLine
<1> QED BY <1>3, Zenon DEF Q

(* The text in front of a place of a line, behind lines A, and the text    *)
(* behind one, in front of lines B.                                        *)
InFront(A, h) == TextOf(Append(A, h))
Behind(t, B) == TextOf(<<t>> \o B)

LEMMA AppendSome ==
  ASSUME NEW T, NEW X \in Seq(T), NEW l \in T
  PROVE  Append(X, l) \in Seq(T) /\ Append(X, l) # <<>>
<1> DEFINE Y == Append(X, l)
<1>1. Y \in Seq(T) /\ Len(Y) = Len(X) + 1 /\ Len(X) \in Nat
  OBVIOUS
<1> HIDE DEF Y
<1>2. Y # <<>>
  BY <1>1
<1> QED BY <1>1, <1>2 DEF Y

LEMMA FrontIs ==
  ASSUME NEW S, Newline \in S, NEW A \in Seq(Seq(S)), NEW h \in Seq(S)
  PROVE  /\ InFront(A, h) = IF A = <<>> THEN h ELSE TextOf(A) \o <<Newline>> \o h
         /\ InFront(A, h) \in Seq(S)
<1>1. CASE A = <<>>
  <2>1. Append(A, h) = <<h>>
    BY <1>1
  <2> QED BY <1>1, <2>1, TextOne DEF InFront
<1>2. CASE A # <<>>
  <2>1. Append(A, h) \in Seq(Seq(S)) /\ Append(A, h) # <<>>
    OBVIOUS
  <2>2. TextOf(Append(A, h)) \in Seq(S)
    BY <2>1, TextIsText, Zenon
  <2>3. TextOf(Append(A, h)) = TextOf(A) \o <<Newline>> \o h
    BY <1>2, TextAppend
  <2> QED BY <1>2, <2>2, <2>3, Zenon DEF InFront
<1> QED BY <1>1, <1>2

LEMMA RestIs ==
  ASSUME NEW S, Newline \in S, NEW t \in Seq(S), NEW B \in Seq(Seq(S))
  PROVE  /\ Behind(t, B) = IF B = <<>> THEN t ELSE t \o <<Newline>> \o TextOf(B)
         /\ Behind(t, B) \in Seq(S)
<1> DEFINE l == <<t>>
<1>1. l \in Seq(Seq(S)) /\ l # <<>> /\ TextOf(l) = t
  BY TextOne
<1> HIDE DEF l
<1>2. CASE B = <<>>
  <2>1. l \o B = l
    BY <1>1, <1>2
  <2> QED BY <1>1, <1>2, <2>1, Zenon DEF Behind, l
<1>3. CASE B # <<>>
  <2>1. l \o B \in Seq(Seq(S)) /\ l \o B # <<>>
    BY <1>1
  <2>2. TextOf(l \o B) \in Seq(S)
    BY <2>1, TextIsText, Zenon
  <2>3. TextOf(l \o B) = t \o <<Newline>> \o TextOf(B)
    <3>1. TextOf(l \o B) = TextOf(l) \o <<Newline>> \o TextOf(B)
      BY <1>1, <1>3, TextConcat
    <3> QED BY <1>1, <3>1, Zenon
  <2> QED BY <1>3, <2>2, <2>3, Zenon DEF Behind, l
<1> QED BY <1>2, <1>3

LEMMA FrontGrows ==
  ASSUME NEW S, Newline \in S, NEW A \in Seq(Seq(S)), NEW h \in Seq(S), NEW g \in Seq(S)
  PROVE  InFront(A, h \o g) = InFront(A, h) \o g
<1>1. h \o g \in Seq(S)
  OBVIOUS
<1>2. CASE A = <<>>
  BY <1>1, <1>2, FrontIs
<1>3. CASE A # <<>>
  <2> DEFINE f == TextOf(A) \o <<Newline>>
             x == h \o g
  <2>1. f \in Seq(S)
    <3>1. TextOf(A) \in Seq(S)
      BY <1>3, TextIsText, Zenon
    <3> QED BY <3>1
  <2>2. InFront(A, h) = f \o h
    BY <1>3, FrontIs
  <2>3. InFront(A, x) = f \o x
    <3> HIDE DEF x
    <3> QED BY <1>1, <1>3, FrontIs DEF x
  <2> HIDE DEF f
  <2>4. (f \o h) \o g = f \o (h \o g)
    BY <2>1, ConcatAssociative
  <2> QED BY <2>2, <2>3, <2>4, Zenon
<1> QED BY <1>2, <1>3

LEMMA FrontEnds ==
  ASSUME NEW S, Newline \in S, NEW A \in Seq(Seq(S)), NEW h \in Seq(S)
  PROVE  InFront(Append(A, h), <<>>) = InFront(A, h) \o <<Newline>>
<1> DEFINE X == Append(A, h)
           f == TextOf(X)
<1>1. X \in Seq(Seq(S)) /\ X # <<>> /\ <<>> \in Seq(S)
  OBVIOUS
<1> HIDE DEF X
<1>2. f \in Seq(S)
  BY <1>1, TextIsText, Zenon
<1>3. InFront(X, <<>>) = f \o <<Newline>> \o <<>>
  BY <1>1, FrontIs
<1> HIDE DEF f
<1>4. f \o <<Newline>> \o <<>> = f \o <<Newline>>
  BY <1>2
<1> QED BY <1>3, <1>4, Zenon DEF f, X, InFront

LEMMA RestGrows ==
  ASSUME NEW S, Newline \in S, NEW t \in Seq(S), NEW g \in Seq(S), NEW B \in Seq(Seq(S))
  PROVE  Behind(g \o t, B) = g \o Behind(t, B)
<1>1. g \o t \in Seq(S)
  OBVIOUS
<1>2. CASE B = <<>>
  BY <1>1, <1>2, RestIs
<1>3. CASE B # <<>>
  <2> DEFINE f == TextOf(B)
             c == <<Newline>>
             x == g \o t
  <2>1. f \in Seq(S)
    BY <1>3, TextIsText, Zenon
  <2>2. Behind(t, B) = t \o c \o f
    BY <1>3, RestIs
  <2>3. Behind(x, B) = x \o c \o f
    <3> HIDE DEF x
    <3> QED BY <1>1, <1>3, RestIs DEF x
  <2>4. c \in Seq(S)
    OBVIOUS
  <2> HIDE DEF f, c
  <2>5. Regroups(g, t, c, f)
    BY <2>1, <2>4, Assoc3, Zenon
  <2> QED BY <2>2, <2>3, <2>5, Zenon DEF Regroups
<1> QED BY <1>2, <1>3

LEMMA RestEnds ==
  ASSUME NEW S, Newline \in S, NEW m \in Seq(S), NEW B \in Seq(Seq(S))
  PROVE  Behind(<<>>, <<m>> \o B) = <<Newline>> \o Behind(m, B)
<1> DEFINE X == <<m>> \o B
           f == TextOf(X)
<1>1. X \in Seq(Seq(S)) /\ X # <<>> /\ <<>> \in Seq(S)
  OBVIOUS
<1> HIDE DEF X
<1>2. f \in Seq(S)
  BY <1>1, TextIsText, Zenon
<1>3. Behind(<<>>, X) = <<>> \o <<Newline>> \o f
  BY <1>1, RestIs
<1> HIDE DEF f
<1>4. <<>> \o <<Newline>> \o f = <<Newline>> \o f
  BY <1>2
<1> QED BY <1>3, <1>4, Zenon DEF f, X, Behind

(* A text is what is in front of a place and what is behind it.            *)
Halves(A, h, t, B) == TextOf(A \o <<h \o t>> \o B) = InFront(A, h) \o Behind(t, B)

LEMMA WholeText ==
  ASSUME NEW S, Newline \in S, NEW A \in Seq(Seq(S)), NEW h \in Seq(S),
         NEW t \in Seq(S), NEW B \in Seq(Seq(S))
  PROVE  Halves(A, h, t, B)
<1> USE DEF Halves
<1> DEFINE m == h \o t
           W == Append(A, m)
           f == InFront(A, h)
<1>1. m \in Seq(S)
  OBVIOUS
<1>2. TextOf(W) = f \o t
  <2>1. InFront(A, h \o t) = InFront(A, h) \o t
    BY FrontGrows
  <2> QED BY <2>1, Zenon DEF InFront
<1>3. f \in Seq(S)
  BY FrontIs
<1> HIDE DEF m
<1>4. W \in Seq(Seq(S)) /\ W # <<>> /\ A \o <<m>> = W
  <2>1. W \in Seq(Seq(S)) /\ W # <<>>
    BY <1>1, AppendSome, Zenon
  <2>2. A \o <<m>> = W
    BY <1>1, AppendIsConcat
  <2> QED BY <2>1, <2>2
<1> HIDE DEF W, f
<1>5. CASE B = <<>>
  <2>1. W \o B = W
    BY <1>4, <1>5
  <2>2. Behind(t, B) = t
    BY <1>5, RestIs
  <2> QED BY <1>2, <1>4, <2>1, <2>2, Zenon DEF m, f
<1>6. CASE B # <<>>
  <2> DEFINE b == TextOf(B)
             c == <<Newline>>
  <2>1. TextOf(W \o B) = TextOf(W) \o c \o b
    BY <1>4, <1>6, TextConcat
  <2>2. Behind(t, B) = t \o c \o b
    BY <1>6, RestIs
  <2>3. b \in Seq(S)
    BY <1>6, TextIsText, Zenon
  <2>4. c \in Seq(S)
    OBVIOUS
  <2> HIDE DEF b, c
  <2>5. Regroups(f, t, c, b)
    BY <1>3, <2>3, <2>4, Assoc3, Zenon
  <2> QED BY <1>2, <1>4, <2>1, <2>2, <2>5, Zenon DEF Regroups, m, f
<1> QED BY <1>5, <1>6

(* A text buffer with u in front of its cursor and w behind it.            *)
Buffer(u, w, v) == [text |-> u \o w, pos |-> Len(u), verdict |-> v]

LEMMA BufferFields ==
  ASSUME NEW u, NEW w, NEW v
  PROVE  /\ Buffer(u, w, v).text = u \o w
         /\ Buffer(u, w, v).pos = Len(u)
BY DEF Buffer

LEMMA OneMore ==
  ASSUME NEW S, NEW u \in Seq(S), NEW c \in S
  PROVE  u \o <<c>> \in Seq(S) /\ Len(u \o <<c>>) = Len(u) + 1 /\ Len(u) \in Nat
OBVIOUS

LEMMA PutIs ==
  ASSUME NEW S, NEW u \in Seq(S), NEW w \in Seq(S), NEW v, NEW c \in S
  PROVE  Put(Buffer(u, w, v), c) = Buffer(u \o <<c>>, w, v)
<1> DEFINE b == Buffer(u, w, v)
<1>1. b.text = u \o w /\ b.pos = Len(u)
  BY BufferFields, Zenon
<1>2. Put(b, c) = [text |-> InsertAt(u \o w, Len(u) + 1, c), pos |-> Len(u) + 1, verdict |-> v]
  <2> DEFINE x == InsertAt(u \o w, Len(u) + 1, c)
             n == Len(u) + 1
  <2>1. Put(b, c) = [b EXCEPT !.text = x, !.pos = n]
    <3> HIDE DEF b
    <3> QED BY <1>1, Zenon DEF Put
  <2> HIDE DEF x, n
  <2>2. [b EXCEPT !.text = x, !.pos = n] = [text |-> x, pos |-> n, verdict |-> v]
    <3> DEFINE r == [b EXCEPT !.text = x, !.pos = n]
    <3>1. r \in [text : {x}, pos : {n}, verdict : {v}]
      BY DEF Buffer
    <3> HIDE DEF r
    <3>2. r = [text |-> x, pos |-> n, verdict |-> v]
      BY <3>1
    <3> QED BY <3>2 DEF r
  <2> QED BY <2>1, <2>2, Zenon DEF x, n
<1>3. InsertAt(u \o w, Len(u) + 1, c) = u \o <<c>> \o w
  BY PutBetween, Zenon
<1>4. Len(u \o <<c>>) = Len(u) + 1
  BY OneMore, Zenon
<1> QED BY <1>2, <1>3, <1>4, Zenon DEF Buffer

LEMMA EraseBehindIs ==
  ASSUME NEW S, NEW u \in Seq(S), NEW w \in Seq(S), NEW v, NEW c \in S
  PROVE  EraseBehind(Buffer(u \o <<c>>, w, v)) = Buffer(u, w, v)
<1> DEFINE x == u \o <<c>>
<1>1. x \in Seq(S) /\ Len(x) = Len(u) + 1 /\ Len(u) \in Nat
  BY OneMore, Zenon
<1>2. RemoveAt(x \o w, Len(u) + 1) = u \o w
  BY TakeBetween, Zenon
<1> HIDE DEF x
<1>3. Len(x) # 0 /\ Len(x) - 1 = Len(u)
  BY <1>1
<1>4. EraseBehind(Buffer(x, w, v)) =
        [text |-> RemoveAt(x \o w, Len(x)), pos |-> Len(x) - 1, verdict |-> v]
  BY <1>3 DEF EraseBehind, Buffer
<1> QED BY <1>1, <1>2, <1>3, <1>4, Zenon DEF Buffer, x

LEMMA EraseAheadIs ==
  ASSUME NEW S, NEW u \in Seq(S), NEW w \in Seq(S), NEW v, NEW c \in S
  PROVE  EraseAhead(Buffer(u, <<c>> \o w, v)) = Buffer(u, w, v)
<1> DEFINE x == <<c>> \o w
           y == u \o x
<1>1. y = u \o <<c>> \o w
  <2> DEFINE k == <<c>>
  <2>1. k \in Seq(S)
    OBVIOUS
  <2> HIDE DEF k
  <2>2. Either(u, k, w)
    BY <2>1, Assoc, Zenon
  <2> QED BY <2>2, Zenon DEF Either, k
<1>2. Len(y) = Len(u) + 1 + Len(w) /\ Len(u) \in Nat /\ Len(w) \in Nat
  OBVIOUS
<1>3. RemoveAt(u \o <<c>> \o w, Len(u) + 1) = u \o w
  BY TakeBetween, Zenon
<1>4. Len(u) # Len(y)
  BY <1>2
<1> HIDE DEF y
<1>5. EraseAhead([text |-> y, pos |-> Len(u), verdict |-> v]) =
        [text |-> RemoveAt(y, Len(u) + 1), pos |-> Len(u), verdict |-> v]
  BY <1>4 DEF EraseAhead
<1> QED BY <1>1, <1>3, <1>5, Zenon DEF Buffer, y

(* At either end of the text there is nothing to erase.                    *)
LEMMA NothingToErase ==
  ASSUME NEW S, NEW u \in Seq(S), NEW v
  PROVE  /\ EraseBehind(Buffer(<<>>, u, v)) = Buffer(<<>>, u, v)
         /\ EraseAhead(Buffer(u, <<>>, v)) = Buffer(u, <<>>, v)
<1>1. Len(<<>>) = 0 /\ u \o <<>> = u
  OBVIOUS
<1>2. Buffer(<<>>, u, v).pos = 0
  BY <1>1, BufferFields, Zenon
<1>3. Buffer(u, <<>>, v).pos = Len(Buffer(u, <<>>, v).text)
  BY <1>1, BufferFields, Zenon
<1> QED BY <1>2, <1>3, Zenon DEF EraseBehind, EraseAhead

(* The cursor moves over a part of the text.                               *)
LEMMA ToIs ==
  ASSUME NEW S, NEW u \in Seq(S), NEW m \in Seq(S), NEW w \in Seq(S), NEW v
  PROVE  /\ To(Buffer(u, m \o w, v), Len(u) + Len(m)) = Buffer(u \o m, w, v)
         /\ To(Buffer(u \o m, w, v), Len(u)) = Buffer(u, m \o w, v)
<1> DEFINE y == u \o m \o w
<1>1. y = u \o (m \o w)
  <2>1. Either(u, m, w)
    BY Assoc, Zenon
  <2> QED BY <2>1, Zenon DEF Either
<1>2. Len(u) + Len(m) \in 0 .. Len(y) /\ Len(u) \in 0 .. Len(y) /\ Len(u \o m) = Len(u) + Len(m)
  OBVIOUS
<1> HIDE DEF y
<1>3. \A p, q : p \in 0 .. Len(y) =>
        To([text |-> y, pos |-> q, verdict |-> v], p) = [text |-> y, pos |-> p, verdict |-> v]
  BY DEF To
<1>4. Buffer(u, m \o w, v) = [text |-> y, pos |-> Len(u), verdict |-> v]
  BY <1>1, Zenon DEF Buffer
<1>5. Buffer(u \o m, w, v) = [text |-> y, pos |-> Len(u) + Len(m), verdict |-> v]
  BY <1>2, Zenon DEF Buffer, y
<1> QED BY <1>2, <1>3, <1>4, <1>5, Zenon

(* It stays where it is rather than leave the text.                        *)
LEMMA NowhereToGo ==
  ASSUME NEW S, NEW u \in Seq(S), NEW v
  PROVE  /\ To(Buffer(<<>>, u, v), Len(<<>>) - 1) = Buffer(<<>>, u, v)
         /\ To(Buffer(u, <<>>, v), Len(u) + 1) = Buffer(u, <<>>, v)
<1>1. Len(<<>>) = 0 /\ u \o <<>> = u /\ Len(u) \in Nat
  OBVIOUS
<1>2. Len(<<>>) - 1 \notin 0 .. Len(Buffer(<<>>, u, v).text)
  <2>1. -1 \notin 0 .. Len(Buffer(<<>>, u, v).text)
    OBVIOUS
  <2> QED BY <1>1, <2>1
<1>3. Len(u) + 1 \notin 0 .. Len(Buffer(u, <<>>, v).text)
  <2>1. Buffer(u, <<>>, v).text = u
    BY <1>1, BufferFields, Zenon
  <2>2. Len(u) + 1 \notin 0 .. Len(u)
    BY <1>1
  <2> QED BY <2>1, <2>2, Zenon
<1> QED BY <1>2, <1>3, Zenon DEF To

-----------------------------------------------------------------------------
(* Places of an editor's text.                                             *)

(* The cursor stands behind lines A and h, and in front of t and lines B.  *)
Stands(e, A, h, t, B) ==
  /\ e.lines = A \o <<h \o t>> \o B
  /\ e.cy = Len(A) + 1 /\ e.cx = Len(h)

Place(e, S, A, h, t, B) ==
  /\ e \in Editors(S)
  /\ A \in Seq(Seq(S)) /\ h \in Seq(S) /\ t \in Seq(S) /\ B \in Seq(Seq(S))
  /\ Stands(e, A, h, t, B)

(* The cursor of every text stands somewhere.                              *)
LEMMA HasPlace ==
  ASSUME NEW S, NEW e, InText(e, S)
  PROVE  \E A, h, t, B : Place(e, S, A, h, t, B)
<1>1. /\ e.lines \in Seq(Seq(S)) /\ e.cy \in 1 .. Len(e.lines)
      /\ e.cx \in 0 .. Len(e.lines[e.cy]) /\ e.lines[e.cy] \in Seq(S)
      /\ e.cy \in Nat /\ e.cx \in Nat
  BY Fields
<1> DEFINE l == e.lines[e.cy]
           h == SubSeq(l, 1, e.cx)
           t == SubSeq(l, e.cx + 1, Len(l))
<1>2. h \in Seq(S) /\ Len(h) = e.cx /\ t \in Seq(S) /\ l = h \o t
  BY <1>1, CutBehind, Zenon
<1>3. PICK A \in Seq(Seq(S)), B \in Seq(Seq(S)) :
             e.lines = A \o <<l>> \o B /\ Len(A) = e.cy - 1
  BY <1>1, CutAt, Zenon
<1>4. e.cy = Len(A) + 1
  BY <1>1, <1>3
<1>5. e \in Editors(S)
  BY Zenon DEF InText
<1> HIDE DEF h, t
<1>6. Place(e, S, A, h, t, B)
  BY <1>2, <1>3, <1>4, <1>5, Zenon DEF Place, Stands
<1> QED BY <1>6, Zenon

(* Its line and what is around it.                                         *)
Around(e, S, A, h, t, B) ==
  /\ e.lines \in Seq(Seq(S)) /\ Len(e.lines) = Len(A) + 1 + Len(B)
  /\ Line(e) = h \o t /\ Len(Line(e)) = Len(h) + Len(t)
  /\ SubSeq(e.lines, 1, e.cy - 1) = A
  /\ SubSeq(Line(e), 1, e.cx) = h
  /\ SubSeq(Line(e), e.cx + 1, Len(Line(e))) = t

LEMMA PlaceFields ==
  ASSUME NEW S, NEW e, NEW A \in Seq(Seq(S)), NEW h \in Seq(S), NEW t \in Seq(S),
         NEW B \in Seq(Seq(S)), Stands(e, A, h, t, B)
  PROVE  Around(e, S, A, h, t, B)
<1> DEFINE l == h \o t
<1>1. l \in Seq(S) /\ Len(l) = Len(h) + Len(t) /\ SubSeq(l, 1, Len(h)) = h
      /\ SubSeq(l, Len(h) + 1, Len(l)) = t
  OBVIOUS
<1>2. e.lines = A \o <<l>> \o B /\ e.cy = Len(A) + 1 /\ e.cx = Len(h)
  BY Zenon DEF Stands
<1> HIDE DEF l
<1>3. IsBetween(Seq(S), A, l, B)
  BY <1>1, Between, Zenon
<1>4. (Len(A) + 1) - 1 = Len(A)
  OBVIOUS
<1>5. Line(e) = l
  BY <1>2, <1>3, Zenon DEF Line, IsBetween
<1> QED BY <1>1, <1>2, <1>3, <1>4, <1>5, Zenon DEF l, IsBetween, Around

(* What is written there.                                                  *)
LEMMA WrittenIs ==
  ASSUME NEW S, Newline \in S, NEW e, NEW A \in Seq(Seq(S)), NEW h \in Seq(S),
         NEW t \in Seq(S), NEW B \in Seq(Seq(S)), Stands(e, A, h, t, B), NEW v
  PROVE  Written(e, v) = Buffer(InFront(A, h), Behind(t, B), v)
<1>1. SubSeq(e.lines, 1, e.cy - 1) = A /\ SubSeq(Line(e), 1, e.cx) = h
  <2>1. Around(e, S, A, h, t, B)
    BY PlaceFields, Zenon
  <2> QED BY <2>1, Zenon DEF Around
<1>2. Ahead(e) = InFront(A, h)
  BY <1>1, Zenon DEF Ahead, InFront
<1>3. Text(e) = InFront(A, h) \o Behind(t, B)
  <2>1. Halves(A, h, t, B)
    BY WholeText, Zenon
  <2> QED BY <2>1, Zenon DEF Text, Stands, Halves
<1> QED BY <1>2, <1>3, Zenon DEF Written, Buffer

(* The cursor is set to a place, and its line is exchanged.                *)
LEMMA AtStands ==
  ASSUME NEW S, NEW e \in Editors(S), NEW A, NEW h, NEW t, NEW B,
         Len(A) + 1 \in Nat, Len(h) \in Nat,
         e.lines = A \o <<h \o t>> \o B
  PROVE  Stands(At(e, Len(A) + 1, Len(h)), A, h, t, B)
<1> DEFINE y == Len(A) + 1
           x == Len(h)
           r == [e EXCEPT !.cy = y, !.cx = x]
<1>1. y \in Nat /\ x \in Nat
  OBVIOUS
<1> HIDE DEF x, y
<1>2. r.lines = e.lines /\ r.cy = y /\ r.cx = x
  BY <1>1 DEF Editors
<1> HIDE DEF r
<1> QED BY <1>2, Zenon DEF Stands, At, r, x, y

LEMMA WithLineStands ==
  ASSUME NEW S, NEW e, NEW A, NEW h, NEW t, NEW B, Place(e, S, A, h, t, B),
         NEW g \in Seq(S), NEW u \in Seq(S), NEW x, x = Len(g)
  PROVE  Stands(WithLine(e, g \o u, x), A, g, u, B)
<1> DEFINE l == g \o u
           m == Exchanged(e.lines, e.cy, l)
           r == [e EXCEPT !.lines = m, !.cx = x]
<1>1. l \in Seq(S)
  OBVIOUS
<1>2. /\ e \in Editors(S) /\ A \in Seq(Seq(S)) /\ B \in Seq(Seq(S)) /\ h \o t \in Seq(S)
      /\ e.lines = A \o <<h \o t>> \o B /\ e.cy = Len(A) + 1
  BY DEF Place, Stands
<1> HIDE DEF l
<1>3. m = A \o <<l>> \o B
  <2>1. Exchanges(A, h \o t, B, l)
    BY <1>1, <1>2, ExchangeBetween, Zenon
  <2> QED BY <1>2, <2>1, Zenon DEF Exchanges
<1>4. WithLine(e, l, x) = r
  BY Zenon DEF WithLine
<1> HIDE DEF m
<1>5. r.lines = m /\ r.cy = e.cy /\ r.cx = x
  BY <1>2 DEF Editors
<1> HIDE DEF r
<1> QED BY <1>2, <1>3, <1>4, <1>5, Zenon DEF Stands, l

LEMMA FirstOf ==
  ASSUME NEW T, NEW s \in Seq(T), s # <<>>
  PROVE  \E c \in T, r \in Seq(T) : s = <<c>> \o r
<1>1. 1 \in 1 .. Len(s) /\ s[1] \in T
  OBVIOUS
<1>2. PICK a \in Seq(T), b \in Seq(T) : s = a \o <<s[1]>> \o b /\ Len(a) = 1 - 1
  BY <1>1, CutAt, Zenon
<1>3. a = <<>>
  BY <1>2
<1> DEFINE k == <<s[1]>>
<1>4. k \in Seq(T)
  BY <1>1
<1> HIDE DEF k
<1>5. a \o k = k
  BY <1>3, <1>4
<1>6. s = k \o b
  BY <1>2, <1>5, Zenon DEF k
<1> QED BY <1>1, <1>6, Zenon DEF k

LEMMA LastOf ==
  ASSUME NEW T, NEW s \in Seq(T), s # <<>>
  PROVE  \E c \in T, r \in Seq(T) : s = r \o <<c>>
<1> DEFINE n == Len(s)
<1>1. n \in 1 .. Len(s) /\ s[n] \in T /\ n \in Nat
  OBVIOUS
<1>2. PICK a \in Seq(T), b \in Seq(T) : s = a \o <<s[n]>> \o b /\ Len(a) = n - 1
  <2> HIDE DEF n
  <2> QED BY <1>1, CutAt, Zenon
<1> DEFINE k == <<s[n]>>
           f == a \o k
<1>4. k \in Seq(T) /\ Len(k) = 1
  BY <1>1
<1> HIDE DEF k
<1>5. f \in Seq(T) /\ Len(f) = Len(a) + 1
  <2>1. f \in Seq(T) /\ Len(f) = Len(a) + Len(k)
    BY <1>4, ConcatProperties, Zenon
  <2> QED BY <1>4, <2>1, Zenon
<1> HIDE DEF f
<1>6. s = f \o b
  BY <1>2, Zenon DEF f, k
<1>7. Len(f \o b) = Len(f) + Len(b) /\ Len(b) \in Nat
  <2>1. Len(b) \in Nat
    OBVIOUS
  <2>2. Len(f \o b) = Len(f) + Len(b)
    BY <1>5, ConcatProperties, Zenon
  <2> QED BY <2>1, <2>2
<1>8. Len(b) = 0
  <2>1. Len(f) = n /\ Len(f) + Len(b) = n
    BY <1>1, <1>2, <1>5, <1>6, <1>7
  <2> QED BY <1>1, <1>7, <2>1
<1>9. b = <<>>
  BY <1>8
<1>10. f \o b = f
  BY <1>5, <1>9
<1> QED BY <1>1, <1>6, <1>10, Zenon DEF f, k

LEMMA InsertStands ==
  ASSUME NEW S, NEW e, NEW A, NEW h, NEW t, NEW B, Place(e, S, A, h, t, B), NEW c \in S
  PROVE  Stands(Insert(e, c), A, h \o <<c>>, t, B)
<1>0. /\ A \in Seq(Seq(S)) /\ h \in Seq(S) /\ t \in Seq(S) /\ B \in Seq(Seq(S))
      /\ Stands(e, A, h, t, B)
  BY Zenon DEF Place
<1> DEFINE g == h \o <<c>>
           x == e.cx + 1
<1>1. g \in Seq(S) /\ Len(g) = Len(h) + 1
  BY <1>0
<1>2. Line(e) = h \o t /\ e.cx = Len(h)
  <2>1. Around(e, S, A, h, t, B)
    BY <1>0, PlaceFields, Zenon
  <2> QED BY <1>0, <2>1, Zenon DEF Stands, Around
<1>3. InsertAt(h \o t, Len(h) + 1, c) = g \o t
  BY <1>0, PutBetween, Zenon
<1>4. Insert(e, c) = WithLine(e, InsertAt(e.lines[e.cy], e.cx + 1, c), e.cx + 1)
  BY Zenon DEF Insert, WithLine, Exchanged
<1>5. Insert(e, c) = WithLine(e, g \o t, x)
  BY <1>2, <1>3, <1>4, Zenon DEF Line
<1>6. x = Len(g)
  BY <1>1, <1>2
<1> HIDE DEF g, x
<1>7. Stands(WithLine(e, g \o t, x), A, g, t, B)
  BY <1>0, <1>1, <1>6, WithLineStands, Zenon
<1> QED BY <1>5, <1>7, Zenon DEF g

LEMMA SplitStands ==
  ASSUME NEW S, NEW e, NEW A, NEW h, NEW t, NEW B, Place(e, S, A, h, t, B)
  PROVE  Stands(Split(e), Append(A, h), <<>>, t, B)
<1>0. /\ A \in Seq(Seq(S)) /\ h \in Seq(S) /\ t \in Seq(S) /\ B \in Seq(Seq(S))
      /\ Stands(e, A, h, t, B) /\ e \in Editors(S)
  BY Zenon DEF Place
<1>1. SubSeq(Line(e), 1, e.cx) = h /\ SubSeq(Line(e), e.cx + 1, Len(Line(e))) = t
  <2>1. Around(e, S, A, h, t, B)
    BY <1>0, PlaceFields, Zenon
  <2> QED BY <2>1, Zenon DEF Around
<1>2. e.lines = A \o <<h \o t>> \o B /\ e.cy = Len(A) + 1
  BY <1>0, Zenon DEF Stands
<1> DEFINE W == Append(A, h)
           lines == InsertAt(Exchanged(e.lines, e.cy, h), e.cy + 1, t)
           r == [e EXCEPT !.lines = lines]
<1>3. Split(e) = At(r, e.cy + 1, 0)
  BY <1>1, Zenon DEF Split, Exchanged
<1>4. W \in Seq(Seq(S)) /\ Len(W) = Len(A) + 1 /\ A \o <<h>> = W /\ Len(A) + 1 \in Nat
  <2>1. W \in Seq(Seq(S)) /\ Len(W) = Len(A) + 1 /\ Len(A) + 1 \in Nat
    BY <1>0
  <2>2. A \o <<h>> = W
    BY <1>0, AppendIsConcat
  <2> QED BY <2>1, <2>2
<1> HIDE DEF W
<1>5. Exchanged(e.lines, e.cy, h) = W \o B
  <2>1. h \o t \in Seq(S)
    BY <1>0
  <2>2. Exchanges(A, h \o t, B, h)
    BY <1>0, <2>1, ExchangeBetween, Zenon
  <2> QED BY <1>2, <1>4, <2>2, Zenon DEF Exchanges
<1>6. lines = W \o <<t>> \o B
  <2>1. InsertAt(W \o B, Len(W) + 1, t) = W \o <<t>> \o B
    BY <1>0, <1>4, PutBetween, Zenon
  <2>2. lines = InsertAt(W \o B, Len(W) + 1, t)
    BY <1>2, <1>4, <1>5, Zenon
  <2> QED BY <2>1, <2>2, Zenon
<1>7. lines \in Seq(Seq(S))
  <2>1. IsBetween(Seq(S), W, t, B)
    BY <1>0, <1>4, Between, Zenon
  <2> QED BY <1>6, <2>1, Zenon DEF IsBetween
<1>8. <<>> \o t = t /\ <<>> \in Seq(S) /\ Len(<<>>) = 0
  BY <1>0
<1> HIDE DEF lines
<1>9. r \in Editors(S) /\ r.lines = lines
  BY <1>0, <1>7 DEF Editors
<1> HIDE DEF r
<1>10. r.lines = W \o <<<<>> \o t>> \o B /\ Len(W) + 1 \in Nat /\ Len(<<>>) \in Nat
  <2>1. Len(W) + 1 \in Nat /\ Len(<<>>) \in Nat
    BY <1>4, <1>8
  <2> QED BY <1>6, <1>8, <1>9, <2>1, Zenon
<1>11. Stands(At(r, Len(W) + 1, Len(<<>>)), W, <<>>, t, B)
  BY <1>9, <1>10, AtStands, Zenon
<1> QED BY <1>2, <1>3, <1>4, <1>8, <1>11, Zenon DEF W

(* Two lines next to each other are joined.                                *)
JoinsTo(C, m, n, B) ==
  Joined(C \o <<m>> \o (<<n>> \o B), Len(C) + 1) = C \o <<m \o n>> \o B

LEMMA JoinedIs ==
  ASSUME NEW S, NEW C \in Seq(Seq(S)), NEW m \in Seq(S), NEW n \in Seq(S),
         NEW B \in Seq(Seq(S))
  PROVE  JoinsTo(C, m, n, B)
<1> DEFINE D == <<n>> \o B
           L == C \o <<m>> \o D
           k == Len(C) + 1
           W == C \o <<m>>
           V == C \o <<m \o n>>
<1>1. D \in Seq(Seq(S)) /\ W \in Seq(Seq(S)) /\ Len(W) = k /\ V \in Seq(Seq(S)) /\ Len(V) = k
      /\ m \o n \in Seq(S)
  <2>1. \A l \in Seq(S) : <<l>> \in Seq(Seq(S)) /\ Len(<<l>>) = 1
    OBVIOUS
  <2>2. \A X \in Seq(Seq(S)) : C \o X \in Seq(Seq(S)) /\ Len(C \o X) = Len(C) + Len(X)
    OBVIOUS
  <2>3. m \o n \in Seq(S)
    OBVIOUS
  <2>4. D \in Seq(Seq(S))
    OBVIOUS
  <2> QED BY <2>1, <2>2, <2>3, <2>4, Zenon
<1>2. L[k] = m
  <2>1. IsBetween(Seq(S), C, m, D)
    BY <1>1, Between, Zenon
  <2> QED BY <2>1, Zenon DEF IsBetween
<1>3. W \o <<n>> \o B = W \o D /\ V \o <<n>> \o B = V \o D
  <2> DEFINE c == <<n>>
  <2>1. c \in Seq(Seq(S))
    OBVIOUS
  <2> HIDE DEF c, W, V
  <2>2. Either(W, c, B) /\ Either(V, c, B)
    BY <1>1, <2>1, Assoc, Zenon
  <2> QED BY <2>2, Zenon DEF Either, c
<1>4. L[k + 1] = n
  <2>1. IsBetween(Seq(S), W, n, B)
    BY <1>1, Between, Zenon
  <2>2. (W \o <<n>> \o B)[Len(W) + 1] = n
    BY <2>1, Zenon DEF IsBetween
  <2> QED BY <1>1, <1>3, <2>2, Zenon
<1>5. Exchanged(L, k, m \o n) = V \o D
  <2>1. Exchanges(C, m, D, m \o n)
    BY <1>1, ExchangeBetween, Zenon
  <2> QED BY <2>1, Zenon DEF Exchanges
<1>6. RemoveAt(V \o <<n>> \o B, Len(V) + 1) = V \o B
  <2> HIDE DEF V
  <2> QED BY <1>1, TakeBetween, Zenon
<1>7. Joined(L, k) = RemoveAt(Exchanged(L, k, L[k] \o L[k + 1]), k + 1)
  BY Zenon DEF Joined, Exchanged
<1>8. Joined(L, k) = RemoveAt(V \o D, k + 1)
  BY <1>2, <1>4, <1>5, <1>7, Zenon
<1> QED BY <1>1, <1>3, <1>6, <1>8, Zenon DEF JoinsTo

(* ... in an editor, with the cursor where they meet.                      *)
LEMMA JoinStands ==
  ASSUME NEW S, NEW e \in Editors(S), NEW C \in Seq(Seq(S)), NEW m \in Seq(S),
         NEW n \in Seq(S),
         NEW B \in Seq(Seq(S)), e.lines = C \o <<m>> \o (<<n>> \o B)
  PROVE  Stands(At([e EXCEPT !.lines = Joined(@, Len(C) + 1)], Len(C) + 1, Len(m)), C, m, n, B)
<1> DEFINE k == Len(C) + 1
           lines == Joined(e.lines, k)
           r == [e EXCEPT !.lines = lines]
<1>1. lines = C \o <<m \o n>> \o B
  <2>1. JoinsTo(C, m, n, B)
    BY JoinedIs, Zenon
  <2> QED BY <2>1, Zenon DEF JoinsTo
<1>2. lines \in Seq(Seq(S))
  <2>1. m \o n \in Seq(S)
    OBVIOUS
  <2>2. IsBetween(Seq(S), C, m \o n, B)
    BY <2>1, Between, Zenon
  <2> QED BY <1>1, <2>2, Zenon DEF IsBetween
<1> HIDE DEF lines
<1>3. r \in Editors(S) /\ r.lines = lines
  BY <1>2 DEF Editors
<1>4. Len(C) + 1 \in Nat /\ Len(m) \in Nat
  OBVIOUS
<1> HIDE DEF r
<1>5. Stands(At(r, Len(C) + 1, Len(m)), C, m, n, B)
  BY <1>1, <1>3, <1>4, AtStands, Zenon
<1> QED BY <1>5, Zenon DEF r, lines

(* What a place says, in the order the lemmas want it.                     *)
Known(e, S, A, h, t, B) ==
  /\ e \in Editors(S) /\ A \in Seq(Seq(S)) /\ h \in Seq(S) /\ t \in Seq(S)
  /\ B \in Seq(Seq(S)) /\ h \o t \in Seq(S)
  /\ e.lines = A \o <<h \o t>> \o B /\ e.cy = Len(A) + 1 /\ e.cx = Len(h)
  /\ Line(e) = h \o t /\ Len(Line(e)) = Len(h) + Len(t)
  /\ Len(e.lines) = Len(A) + 1 + Len(B)
  /\ Len(A) \in Nat /\ Len(B) \in Nat /\ Len(h) \in Nat /\ Len(t) \in Nat
  /\ e.cy \in Nat /\ e.cx \in Nat

LEMMA PlaceKnown ==
  ASSUME NEW S, NEW e, NEW A, NEW h, NEW t, NEW B, Place(e, S, A, h, t, B)
  PROVE  Known(e, S, A, h, t, B)
<1>1. /\ A \in Seq(Seq(S)) /\ h \in Seq(S) /\ t \in Seq(S) /\ B \in Seq(Seq(S))
      /\ Stands(e, A, h, t, B) /\ e \in Editors(S)
  BY Zenon DEF Place
<1>2. /\ Len(e.lines) = Len(A) + 1 + Len(B)
      /\ Line(e) = h \o t /\ Len(Line(e)) = Len(h) + Len(t)
  <2>1. Around(e, S, A, h, t, B)
    BY <1>1, PlaceFields, Zenon
  <2> QED BY <2>1, Zenon DEF Around
<1>3. /\ Len(A) \in Nat /\ Len(B) \in Nat /\ Len(h) \in Nat /\ Len(t) \in Nat
      /\ h \o t \in Seq(S)
  BY <1>1
<1>4. e.cy \in Nat /\ e.cx \in Nat
  BY <1>1 DEF Editors
<1> QED BY <1>1, <1>2, <1>3, <1>4, Zenon DEF Known, Stands

(* Lines that follow one.                                                  *)
AreLines(S, C, m, n, B) ==
  /\ Append(C, m) \o <<n>> \o B = C \o <<m>> \o (<<n>> \o B)
  /\ Len(Append(C, m)) = Len(C) + 1
  /\ (C \o <<m>> \o (<<n>> \o B))[Len(C) + 1] = m
  /\ <<n>> \o B \in Seq(Seq(S)) /\ Len(<<n>> \o B) = Len(B) + 1

LEMMA LinesBehind ==
  ASSUME NEW S, NEW C \in Seq(Seq(S)), NEW m \in Seq(S), NEW n \in Seq(S),
         NEW B \in Seq(Seq(S))
  PROVE  AreLines(S, C, m, n, B)
<1> DEFINE W == C \o <<m>>
           c == <<n>>
           D == c \o B
<1>1. W \in Seq(Seq(S)) /\ W = Append(C, m) /\ Len(W) = Len(C) + 1
  <2>1. Append(C, m) \in Seq(Seq(S)) /\ Len(Append(C, m)) = Len(C) + 1
    OBVIOUS
  <2>2. W = Append(C, m)
    BY AppendIsConcat
  <2> QED BY <2>1, <2>2, Zenon
<1>2. c \in Seq(Seq(S)) /\ D \in Seq(Seq(S)) /\ Len(D) = Len(B) + 1
  OBVIOUS
<1>3. Either(W, c, B)
  <2> HIDE DEF W, c
  <2> QED BY <1>1, <1>2, Assoc, Zenon
<1>4. (C \o <<m>> \o D)[Len(C) + 1] = m
  <2> HIDE DEF D
  <2>1. IsBetween(Seq(S), C, m, D)
    BY <1>2, Between, Zenon
  <2> QED BY <2>1, Zenon DEF IsBetween
<1> QED BY <1>1, <1>2, <1>3, <1>4, Zenon DEF Either, AreLines

-----------------------------------------------------------------------------
LEMMA BackspaceChar ==
  ASSUME NEW S, NEW e, NEW A, NEW g \in Seq(S), NEW c \in S, NEW t, NEW B,
         Place(e, S, A, g \o <<c>>, t, B)
  PROVE  Stands(Backspace(e), A, g, t, B)
<1> DEFINE h == g \o <<c>>
           x == e.cx - 1
<1>1. Known(e, S, A, h, t, B)
  BY PlaceKnown, Zenon
<1>2. Len(h) = Len(g) + 1 /\ Len(g) \in Nat
  BY OneMore, Zenon
<1>3. RemoveAt(h \o t, Len(g) + 1) = g \o t
  <2>1. t \in Seq(S)
    BY <1>1, Zenon DEF Known
  <2> QED BY <2>1, TakeBetween, Zenon
<1> HIDE DEF h
<1>4. e.cx > 0 /\ x = Len(g) /\ e.cx = Len(g) + 1
  <2>1. e.cx = Len(h)
    BY <1>1, Zenon DEF Known
  <2> QED BY <1>2, <2>1
<1>5. Backspace(e) = WithLine(e, RemoveAt(e.lines[e.cy], e.cx), x)
  BY <1>4, Zenon DEF Backspace, WithLine, Exchanged
<1>6. Backspace(e) = WithLine(e, g \o t, x)
  <2>1. e.lines[e.cy] = h \o t
    BY <1>1, Zenon DEF Known, Line
  <2> QED BY <1>3, <1>4, <1>5, <2>1, Zenon
<1> HIDE DEF x
<1>7. t \in Seq(S)
  BY <1>1, Zenon DEF Known
<1>8. Stands(WithLine(e, g \o t, x), A, g, t, B)
  BY <1>4, <1>7, WithLineStands, Zenon DEF h
<1> QED BY <1>6, <1>8, Zenon

LEMMA BackspaceLine ==
  ASSUME NEW S, NEW e, NEW C \in Seq(Seq(S)), NEW m \in Seq(S), NEW t, NEW B,
         Place(e, S, Append(C, m), <<>>, t, B)
  PROVE  Stands(Backspace(e), C, m, t, B)
<1>1. Known(e, S, Append(C, m), <<>>, t, B)
  BY PlaceKnown, Zenon
<1>2. e \in Editors(S) /\ t \in Seq(S) /\ B \in Seq(Seq(S))
  BY <1>1, Zenon DEF Known
<1>3. Len(<<>>) = 0 /\ <<>> \o t = t /\ Len(C) \in Nat
  BY <1>2
<1>4. e.lines = C \o <<m>> \o (<<t>> \o B) /\ e.lines[Len(C) + 1] = m
  <2>1. e.lines = Append(C, m) \o <<t>> \o B
    BY <1>1, <1>3, Zenon DEF Known
  <2>2. /\ Append(C, m) \o <<t>> \o B = C \o <<m>> \o (<<t>> \o B)
        /\ (C \o <<m>> \o (<<t>> \o B))[Len(C) + 1] = m
    <3>1. AreLines(S, C, m, t, B)
      BY <1>2, LinesBehind, Zenon
    <3> QED BY <3>1, Zenon DEF AreLines
  <2> QED BY <2>1, <2>2, Zenon
<1>5. ~(e.cx > 0) /\ e.cy > 1 /\ e.cy - 1 = Len(C) + 1
  <2>1. e.cx = 0 /\ e.cy = Len(Append(C, m)) + 1
    BY <1>1, <1>3, Zenon DEF Known
  <2>2. Len(Append(C, m)) = Len(C) + 1
    OBVIOUS
  <2> QED BY <1>3, <2>1, <2>2
<1>6. Backspace(e) = At([e EXCEPT !.lines = Joined(@, e.cy - 1)], e.cy - 1, Len(e.lines[e.cy - 1]))
  BY <1>5, Zenon DEF Backspace
<1>7. Backspace(e) = At([e EXCEPT !.lines = Joined(@, Len(C) + 1)], Len(C) + 1, Len(m))
  BY <1>4, <1>5, <1>6, Zenon
<1> QED BY <1>2, <1>4, <1>7, JoinStands, Zenon

LEMMA BackspaceNone ==
  ASSUME NEW S, NEW e, NEW t, NEW B, Place(e, S, <<>>, <<>>, t, B)
  PROVE  Backspace(e) = e /\ MoveLeft(e) = e
<1>1. e.cx = Len(<<>>) /\ e.cy = Len(<<>>) + 1
  BY Zenon DEF Place, Stands
<1>2. ~(e.cx > 0) /\ ~(e.cy > 1)
  <2>1. Len(<<>>) = 0
    OBVIOUS
  <2> QED BY <1>1, <2>1
<1> QED BY <1>2, Zenon DEF Backspace, MoveLeft

LEMMA LeftChar ==
  ASSUME NEW S, NEW e, NEW A, NEW g \in Seq(S), NEW c \in S, NEW t, NEW B,
         Place(e, S, A, g \o <<c>>, t, B)
  PROVE  Stands(MoveLeft(e), A, g, <<c>> \o t, B)
<1> DEFINE k == <<c>>
           h == g \o k
           u == k \o t
<1>1. Known(e, S, A, h, t, B)
  BY PlaceKnown, Zenon
<1>2. Len(h) = Len(g) + 1 /\ Len(g) \in Nat
  BY OneMore, Zenon
<1>3. h \o t = g \o u
  <2>1. t \in Seq(S) /\ k \in Seq(S)
    BY <1>1 DEF Known
  <2> HIDE DEF k
  <2>2. Either(g, k, t)
    BY <2>1, Assoc, Zenon
  <2> QED BY <2>2, Zenon DEF Either
<1> HIDE DEF h, u
<1>4. e.cx > 0 /\ e.cx - 1 = Len(g)
  <2>1. e.cx = Len(h)
    BY <1>1, Zenon DEF Known
  <2> QED BY <1>2, <2>1
<1>5. MoveLeft(e) = At(e, Len(A) + 1, Len(g))
  <2>1. e.cy = Len(A) + 1
    BY <1>1, Zenon DEF Known
  <2> QED BY <1>4, <2>1, Zenon DEF MoveLeft
<1>6. /\ e \in Editors(S) /\ e.lines = A \o <<g \o u>> \o B /\ Len(A) + 1 \in Nat
  <2>1. e \in Editors(S) /\ e.lines = A \o <<g \o u>> \o B /\ Len(A) \in Nat
    BY <1>1, <1>3, Zenon DEF Known
  <2> QED BY <2>1
<1>7. Stands(At(e, Len(A) + 1, Len(g)), A, g, u, B)
  BY <1>2, <1>6, AtStands, Zenon
<1> QED BY <1>5, <1>7, Zenon DEF u

LEMMA LeftLine ==
  ASSUME NEW S, NEW e, NEW C \in Seq(Seq(S)), NEW m \in Seq(S), NEW t, NEW B,
         Place(e, S, Append(C, m), <<>>, t, B)
  PROVE  Stands(MoveLeft(e), C, m, <<>>, <<t>> \o B)
<1>1. Known(e, S, Append(C, m), <<>>, t, B)
  BY PlaceKnown, Zenon
<1>2. e \in Editors(S) /\ t \in Seq(S) /\ B \in Seq(Seq(S))
  BY <1>1, Zenon DEF Known
<1>3. Len(<<>>) = 0 /\ <<>> \o t = t /\ Len(C) + 1 \in Nat /\ Len(m) \in Nat /\ m \o <<>> = m
  BY <1>2
<1> DEFINE D == <<t>> \o B
<1>4. e.lines = C \o <<m>> \o D /\ e.lines[Len(C) + 1] = m
  <2>1. e.lines = Append(C, m) \o <<t>> \o B
    BY <1>1, <1>3, Zenon DEF Known
  <2>2. /\ Append(C, m) \o <<t>> \o B = C \o <<m>> \o (<<t>> \o B)
        /\ (C \o <<m>> \o (<<t>> \o B))[Len(C) + 1] = m
    <3>1. AreLines(S, C, m, t, B)
      BY <1>2, LinesBehind, Zenon
    <3> QED BY <3>1, Zenon DEF AreLines
  <2> QED BY <2>1, <2>2, Zenon
<1>5. ~(e.cx > 0) /\ e.cy > 1 /\ e.cy - 1 = Len(C) + 1
  <2>1. e.cx = 0 /\ e.cy = Len(Append(C, m)) + 1
    BY <1>1, <1>3, Zenon DEF Known
  <2>2. Len(Append(C, m)) = Len(C) + 1
    OBVIOUS
  <2> QED BY <1>3, <2>1, <2>2
<1>6. MoveLeft(e) = At(e, Len(C) + 1, Len(m))
  BY <1>4, <1>5, Zenon DEF MoveLeft
<1> HIDE DEF D
<1>7. e.lines = C \o <<m \o <<>>>> \o D
  BY <1>3, <1>4, Zenon
<1>8. Stands(At(e, Len(C) + 1, Len(m)), C, m, <<>>, D)
  BY <1>2, <1>3, <1>7, AtStands, Zenon
<1> QED BY <1>6, <1>8, Zenon DEF D

LEMMA DeleteChar ==
  ASSUME NEW S, NEW e, NEW A, NEW h, NEW c \in S, NEW u \in Seq(S), NEW B,
         Place(e, S, A, h, <<c>> \o u, B)
  PROVE  Stands(Delete(e), A, h, u, B)
<1> DEFINE t == <<c>> \o u
           x == Len(h)
           l == RemoveAt(e.lines[e.cy], e.cx + 1)
           m == Exchanged(e.lines, e.cy, l)
           r == [e EXCEPT !.lines = m]
<1>1. Known(e, S, A, h, t, B)
  BY PlaceKnown, Zenon
<1>2. h \in Seq(S) /\ e \in Editors(S) /\ h \o t \in Seq(S)
      /\ A \in Seq(Seq(S)) /\ B \in Seq(Seq(S))
  BY <1>1, Zenon DEF Known
<1>3. Len(t) = Len(u) + 1 /\ Len(u) \in Nat
  OBVIOUS
<1>4. e.cx < Len(Line(e))
  <2> HIDE DEF t
  <2>1. e.cx = Len(h) /\ Len(h) \in Nat /\ Len(Line(e)) = Len(h) + Len(t)
    BY <1>1, Zenon DEF Known
  <2> QED BY <1>3, <2>1
<1>5. h \o t = h \o <<c>> \o u
  <2> DEFINE k == <<c>>
  <2>1. k \in Seq(S)
    OBVIOUS
  <2> HIDE DEF k
  <2>2. Either(h, k, u)
    BY <1>2, <2>1, Assoc, Zenon
  <2> QED BY <2>2, Zenon DEF Either, k
<1>6. l = h \o u /\ l \in Seq(S)
  <2>1. RemoveAt(h \o <<c>> \o u, Len(h) + 1) = h \o u
    BY <1>2, TakeBetween, Zenon
  <2>2. e.lines[e.cy] = h \o t /\ e.cx = Len(h)
    BY <1>1, Zenon DEF Known, Line
  <2>3. h \o u \in Seq(S)
    BY <1>2
  <2> QED BY <1>5, <2>1, <2>2, <2>3, Zenon
<1>7. Delete(e) = r
  BY <1>4, Zenon DEF Delete, Exchanged
<1> HIDE DEF l, t
<1>8. m = A \o <<l>> \o B
  <2>1. Exchanges(A, h \o t, B, l)
    BY <1>2, <1>6, ExchangeBetween, Zenon
  <2> QED BY <1>1, <2>1, Zenon DEF Exchanges, Known
<1> HIDE DEF m
<1>9. r.lines = m /\ r.cy = e.cy /\ r.cx = e.cx
  BY <1>2 DEF Editors
<1> HIDE DEF r
<1>10. e.cy = Len(A) + 1 /\ e.cx = Len(h)
  BY <1>1, Zenon DEF Known
<1> QED BY <1>6, <1>7, <1>8, <1>9, <1>10, Zenon DEF Stands

LEMMA DeleteLine ==
  ASSUME NEW S, NEW e, NEW A, NEW h, NEW n \in Seq(S), NEW D \in Seq(Seq(S)),
         Place(e, S, A, h, <<>>, <<n>> \o D)
  PROVE  Stands(Delete(e), A, h, n, D)
<1> DEFINE B == <<n>> \o D
           lines == Joined(e.lines, e.cy)
           r == [e EXCEPT !.lines = lines]
<1>1. Known(e, S, A, h, <<>>, B)
  BY PlaceKnown, Zenon
<1>2. /\ h \in Seq(S) /\ e \in Editors(S) /\ A \in Seq(Seq(S)) /\ B \in Seq(Seq(S))
      /\ e.cy = Len(A) + 1 /\ e.cx = Len(h)
  BY <1>1, Zenon DEF Known
<1>3. h \o <<>> = h /\ Len(<<>>) = 0 /\ Len(B) = Len(D) + 1 /\ Len(D) \in Nat
  BY <1>2
<1>4. e.lines = A \o <<h>> \o B
  BY <1>1, <1>3, Zenon DEF Known
<1>5. ~(e.cx < Len(Line(e))) /\ e.cy < Len(e.lines)
  <2> HIDE DEF B
  <2>1. /\ e.cx = Len(h) /\ Len(Line(e)) = Len(h) + Len(<<>>) /\ Len(h) \in Nat
        /\ e.cy = Len(A) + 1 /\ Len(e.lines) = Len(A) + 1 + Len(B) /\ Len(A) \in Nat
    BY <1>1, Zenon DEF Known
  <2> QED BY <1>3, <2>1
<1>6. Delete(e) = r
  BY <1>5, Zenon DEF Delete
<1>7. lines = A \o <<h \o n>> \o D
  <2>1. JoinsTo(A, h, n, D)
    BY <1>2, JoinedIs, Zenon
  <2> QED BY <1>2, <1>4, <2>1, Zenon DEF JoinsTo
<1> HIDE DEF lines, B
<1>8. r.lines = lines /\ r.cy = e.cy /\ r.cx = e.cx
  BY <1>2 DEF Editors
<1> HIDE DEF r
<1> QED BY <1>2, <1>6, <1>7, <1>8, Zenon DEF Stands

LEMMA DeleteNone ==
  ASSUME NEW S, NEW e, NEW A, NEW h, Place(e, S, A, h, <<>>, <<>>)
  PROVE  Delete(e) = e /\ MoveRight(e) = e
<1>1. Known(e, S, A, h, <<>>, <<>>)
  BY PlaceKnown, Zenon
<1>2. ~(e.cx < Len(Line(e))) /\ ~(e.cy < Len(e.lines))
  <2>1. /\ e.cx = Len(h) /\ Len(Line(e)) = Len(h) + Len(<<>>) /\ Len(h) \in Nat
        /\ e.cy = Len(A) + 1 /\ Len(e.lines) = Len(A) + 1 + Len(<<>>) /\ Len(A) \in Nat
    BY <1>1, Zenon DEF Known
  <2>2. Len(<<>>) = 0
    OBVIOUS
  <2> QED BY <2>1, <2>2
<1> QED BY <1>2, Zenon DEF Delete, MoveRight

LEMMA RightChar ==
  ASSUME NEW S, NEW e, NEW A, NEW h, NEW c \in S, NEW u \in Seq(S), NEW B,
         Place(e, S, A, h, <<c>> \o u, B)
  PROVE  Stands(MoveRight(e), A, h \o <<c>>, u, B)
<1> DEFINE k == <<c>>
           t == k \o u
           g == h \o k
<1>1. Known(e, S, A, h, t, B)
  BY PlaceKnown, Zenon
<1>2. h \in Seq(S) /\ e \in Editors(S) /\ k \in Seq(S)
  <2>1. h \in Seq(S) /\ e \in Editors(S)
    BY <1>1, Zenon DEF Known
  <2>2. k \in Seq(S)
    OBVIOUS
  <2> QED BY <2>1, <2>2
<1>3. Len(t) = Len(u) + 1 /\ Len(u) \in Nat
  OBVIOUS
<1>4. Len(g) = Len(h) + 1 /\ Len(h) \in Nat
  BY <1>2, OneMore, Zenon
<1> HIDE DEF k
<1>5. h \o t = g \o u
  <2>1. Either(h, k, u)
    BY <1>2, Assoc, Zenon
  <2> QED BY <2>1, Zenon DEF Either
<1> HIDE DEF t, g
<1>6. e.cx < Len(Line(e)) /\ e.cx + 1 = Len(g)
  <2>1. e.cx = Len(h) /\ Len(Line(e)) = Len(h) + Len(t)
    BY <1>1, Zenon DEF Known
  <2> QED BY <1>3, <1>4, <2>1
<1>7. MoveRight(e) = At(e, Len(A) + 1, Len(g))
  <2>1. e.cy = Len(A) + 1
    BY <1>1, Zenon DEF Known
  <2> QED BY <1>6, <2>1, Zenon DEF MoveRight
<1>8. e.lines = A \o <<g \o u>> \o B /\ Len(A) + 1 \in Nat /\ Len(g) \in Nat
  <2>1. e.lines = A \o <<g \o u>> \o B /\ Len(A) \in Nat
    BY <1>1, <1>5, Zenon DEF Known
  <2> QED BY <1>4, <2>1
<1>9. Stands(At(e, Len(A) + 1, Len(g)), A, g, u, B)
  BY <1>2, <1>8, AtStands, Zenon
<1> QED BY <1>7, <1>9, Zenon DEF g, k

LEMMA RightLine ==
  ASSUME NEW S, NEW e, NEW A, NEW h, NEW n \in Seq(S), NEW D \in Seq(Seq(S)),
         Place(e, S, A, h, <<>>, <<n>> \o D)
  PROVE  Stands(MoveRight(e), Append(A, h), <<>>, n, D)
<1> DEFINE B == <<n>> \o D
           W == Append(A, h)
<1>1. Known(e, S, A, h, <<>>, B)
  BY PlaceKnown, Zenon
<1>2. /\ h \in Seq(S) /\ e \in Editors(S) /\ A \in Seq(Seq(S)) /\ B \in Seq(Seq(S))
      /\ e.cy = Len(A) + 1 /\ e.cx = Len(h)
  BY <1>1, Zenon DEF Known
<1>3. h \o <<>> = h /\ Len(<<>>) = 0 /\ <<>> \o n = n
  BY <1>2
<1>4. W \o <<n>> \o D = A \o <<h>> \o B /\ Len(W) = Len(A) + 1 /\ Len(B) = Len(D) + 1
  <2>1. AreLines(S, A, h, n, D)
    BY <1>2, LinesBehind, Zenon
  <2> QED BY <2>1, Zenon DEF AreLines
<1>5. e.lines = W \o <<n>> \o D
  BY <1>1, <1>3, <1>4, Zenon DEF Known
<1> HIDE DEF B
<1>6. ~(e.cx < Len(Line(e))) /\ e.cy < Len(e.lines) /\ e.cy + 1 = Len(W) + 1
      /\ Len(W) + 1 \in Nat
  <2>1. /\ e.cx = Len(h) /\ Len(Line(e)) = Len(h) + Len(<<>>) /\ Len(h) \in Nat
        /\ e.cy = Len(A) + 1 /\ Len(e.lines) = Len(A) + 1 + Len(B) /\ Len(A) \in Nat
    BY <1>1, Zenon DEF Known
  <2>2. Len(D) \in Nat
    OBVIOUS
  <2> HIDE DEF W
  <2> QED BY <1>3, <1>4, <2>1, <2>2
<1>7. MoveRight(e) = At(e, Len(W) + 1, Len(<<>>))
  BY <1>3, <1>6, Zenon DEF MoveRight
<1> HIDE DEF W
<1>8. e.lines = W \o <<<<>> \o n>> \o D /\ Len(<<>>) \in Nat
  <2>1. Len(<<>>) \in Nat
    BY <1>3
  <2> QED BY <1>3, <1>5, <2>1, Zenon
<1>9. Stands(At(e, Len(W) + 1, Len(<<>>)), W, <<>>, n, D)
  BY <1>2, <1>6, <1>8, AtStands, Zenon
<1> QED BY <1>7, <1>9, Zenon DEF W

LEMMA HomeStands ==
  ASSUME NEW S, NEW e, NEW A, NEW h, NEW t, NEW B, Place(e, S, A, h, t, B)
  PROVE  Stands(Home(e), A, <<>>, h \o t, B)
<1>1. Known(e, S, A, h, t, B)
  BY PlaceKnown, Zenon
<1> DEFINE l == h \o t
<1>2. Len(<<>>) = 0 /\ <<>> \o l = l
  <2>1. l \in Seq(S)
    BY <1>1, Zenon DEF Known
  <2> HIDE DEF l
  <2> QED BY <2>1
<1>3. /\ e \in Editors(S) /\ e.lines = A \o <<<<>> \o l>> \o B /\ e.cy = Len(A) + 1
      /\ Len(A) \in Nat
  BY <1>1, <1>2, Zenon DEF Known
<1> HIDE DEF l
<1>4. Len(A) + 1 \in Nat /\ Len(<<>>) \in Nat
  BY <1>2, <1>3
<1>5. Stands(At(e, Len(A) + 1, Len(<<>>)), A, <<>>, l, B)
  BY <1>3, <1>4, AtStands, Zenon
<1> QED BY <1>2, <1>3, <1>5, Zenon DEF Home, l

LEMMA EndStands ==
  ASSUME NEW S, NEW e, NEW A, NEW h, NEW t, NEW B, Place(e, S, A, h, t, B)
  PROVE  Stands(End(e), A, h \o t, <<>>, B)
<1>1. Known(e, S, A, h, t, B)
  BY PlaceKnown, Zenon
<1> DEFINE l == h \o t
<1>2. Len(l) \in Nat /\ l \o <<>> = l
  <2>1. l \in Seq(S)
    BY <1>1, Zenon DEF Known
  <2> HIDE DEF l
  <2> QED BY <2>1
<1>3. /\ e \in Editors(S) /\ e.lines = A \o <<l \o <<>>>> \o B /\ e.cy = Len(A) + 1
      /\ Len(A) \in Nat /\ Line(e) = l
  BY <1>1, <1>2, Zenon DEF Known
<1> HIDE DEF l
<1>4. Len(A) + 1 \in Nat
  BY <1>3
<1>5. Stands(At(e, Len(A) + 1, Len(l)), A, l, <<>>, B)
  BY <1>2, <1>3, <1>4, AtStands, Zenon
<1> QED BY <1>3, <1>5, Zenon DEF End, l

LEMMA MaxIs ==
  ASSUME NEW S, NEW x \in S, x \in Int, \A y \in S : y \in Int /\ x >= y
  PROVE  Max(S) = x
<1> DEFINE m == CHOOSE z \in S : \A y \in S : z >= y
<1>1. m \in S /\ \A y \in S : m >= y
  BY Zenon
<1>2. Max(S) = m
  BY Zenon DEF Max
<1> HIDE DEF m
<1>3. m = x
  BY <1>1
<1> QED BY <1>2, <1>3

LEMMA MinIs ==
  ASSUME NEW S, NEW x \in S, x \in Int, \A y \in S : y \in Int /\ x <= y
  PROVE  Min(S) = x
<1> DEFINE m == CHOOSE z \in S : \A y \in S : z <= y
<1>1. m \in S /\ \A y \in S : m <= y
  BY Zenon
<1>2. Min(S) = m
  BY Zenon DEF Min
<1> HIDE DEF m
<1>3. m = x
  BY <1>1
<1> QED BY <1>2, <1>3

(* A text that ends where a line starts: with a line end, if at all.       *)
AfterLine(u) == u = <<>> \/ u[Len(u)] = Newline
BeforeLine(w) == w = <<>> \/ w[1] = Newline

LEMMA FrontOpens ==
  ASSUME NEW S, Newline \in S, NEW A \in Seq(Seq(S))
  PROVE  InFront(A, <<>>) \in Seq(S) /\ AfterLine(InFront(A, <<>>))
<1> DEFINE u == InFront(A, <<>>)
<1>0. <<>> \in Seq(S)
  OBVIOUS
<1>1. u \in Seq(S)
  BY <1>0, FrontIs, Zenon
<1>2. CASE A = <<>>
  <2>1. u = <<>>
    BY <1>0, <1>2, FrontIs, Zenon
  <2> QED BY <1>1, <2>1, Zenon DEF AfterLine
<1>3. CASE A # <<>>
  <2> DEFINE a == TextOf(A)
             x == a \o <<Newline>>
  <2>1. a \in Seq(S)
    BY <1>3, TextIsText, Zenon
  <2>2. u = x \o <<>>
    BY <1>0, <1>3, FrontIs, Zenon
  <2> HIDE DEF a
  <2>3. x \in Seq(S) /\ Len(x) = Len(a) + 1 /\ Len(a) \in Nat
    BY <2>1, OneMore, Zenon
  <2>4. x[Len(a) + 1] = Newline
    BY <2>1
  <2> HIDE DEF x
  <2>5. x \o <<>> = x
    BY <2>3
  <2>6. u[Len(u)] = Newline
    BY <2>2, <2>3, <2>4, <2>5, Zenon
  <2> QED BY <1>1, <2>6, Zenon DEF AfterLine
<1> QED BY <1>2, <1>3

LEMMA BehindCloses ==
  ASSUME NEW S, Newline \in S, NEW B \in Seq(Seq(S))
  PROVE  Behind(<<>>, B) \in Seq(S) /\ BeforeLine(Behind(<<>>, B))
<1> DEFINE w == Behind(<<>>, B)
<1>0. <<>> \in Seq(S)
  OBVIOUS
<1>1. w \in Seq(S)
  BY <1>0, RestIs, Zenon
<1>2. CASE B = <<>>
  <2>1. w = <<>>
    BY <1>0, <1>2, RestIs, Zenon
  <2> QED BY <1>1, <2>1, Zenon DEF BeforeLine
<1>3. CASE B # <<>>
  <2> DEFINE b == TextOf(B)
             c == <<Newline>>
  <2>1. b \in Seq(S)
    BY <1>3, TextIsText, Zenon
  <2>2. w = <<>> \o c \o b
    BY <1>0, <1>3, RestIs, Zenon
  <2> HIDE DEF b
  <2>3. (<<>> \o c \o b)[1] = Newline
    BY <2>1
  <2> QED BY <1>1, <2>2, <2>3, Zenon DEF BeforeLine
<1> QED BY <1>2, <1>3

(* The line of a place starts behind the last line end in front of it ...  *)
LEMMA StartIs ==
  ASSUME NEW S, NEW u \in Seq(S), AfterLine(u), NEW h \in Seq(S), NEW w \in Seq(S), NEW v,
         \A i \in 1 .. Len(h) : h[i] # Newline
  PROVE  StartOf(Buffer(u \o h, w, v), Len(u \o h)) = Len(u)
<1> DEFINE b == Buffer(u \o h, w, v)
           y == u \o h \o w
           p == Len(u \o h)
           Q == {s \in Starts(b) : s <= p}
<1>1. b.text = y
  BY BufferFields, Zenon
<1>2. /\ Len(y) = Len(u) + Len(h) + Len(w) /\ p = Len(u) + Len(h)
      /\ Len(u) \in Nat /\ Len(h) \in Nat /\ Len(w) \in Nat
  OBVIOUS
<1>3. \A i \in 1 .. Len(u) : y[i] = u[i]
  OBVIOUS
<1>4. \A i \in Len(u) + 1 .. p : y[i] # Newline
  <2>1. \A i \in 1 .. Len(h) : y[Len(u) + i] = h[i]
    OBVIOUS
  <2>2. ASSUME NEW i \in Len(u) + 1 .. p PROVE y[i] # Newline
    <3> DEFINE j == i - Len(u)
    <3>1. j \in 1 .. Len(h) /\ Len(u) + j = i
      BY <1>2
    <3> HIDE DEF j, y
    <3> QED BY <2>1, <3>1, Zenon
  <2> QED BY <2>2
<1> HIDE DEF y, p, b
<1>5. Len(u) \in Starts(b)
  <2>1. CASE u = <<>>
    BY <2>1 DEF Starts
  <2>2. CASE u # <<>> /\ u[Len(u)] = Newline
    <3>1. Len(u) \in 1 .. Len(u) /\ Len(u) \in 1 .. Len(y)
      BY <1>2, <2>2
    <3>2. y[Len(u)] = LineEnd
      BY <1>3, <2>2, <3>1 DEF Newline, LineEnd
    <3> QED BY <1>1, <3>1, <3>2 DEF Starts
  <2> QED BY <2>1, <2>2, Zenon DEF AfterLine
<1>6. \A s \in Q : s \in Int /\ Len(u) >= s
  <2>1. ASSUME NEW s \in Q PROVE s \in Int /\ Len(u) >= s
    <3>1. s = 0 \/ (s \in 1 .. Len(y) /\ y[s] = LineEnd)
      BY <1>1, <2>1 DEF Starts
    <3>2. s \in Nat /\ s <= p
      BY <1>2, <2>1, <3>1
    <3>3. s = 0 \/ s \notin Len(u) + 1 .. p
      BY <1>4, <3>1 DEF Newline, LineEnd
    <3> QED BY <1>2, <3>2, <3>3
  <2> QED BY <2>1
<1>7. Len(u) \in Q /\ Len(u) \in Int
  BY <1>2, <1>5
<1> HIDE DEF Q
<1>8. Max(Q) = Len(u)
  BY <1>6, <1>7, MaxIs, Zenon
<1> QED BY <1>8, Zenon DEF StartOf, Q, b, p

(* ... and ends in front of the first one behind it.                       *)
LEMMA EndIs ==
  ASSUME NEW S, NEW u \in Seq(S), NEW t \in Seq(S), NEW w \in Seq(S), BeforeLine(w), NEW v,
         \A i \in 1 .. Len(t) : t[i] # Newline
  PROVE  EndOf(Buffer(u, t \o w, v), Len(u)) = Len(u) + Len(t)
<1> DEFINE b == Buffer(u, t \o w, v)
           y == u \o (t \o w)
           p == Len(u)
           q == Len(u) + Len(t)
           Q == {i \in p .. Len(b.text) : i = Len(b.text) \/ b.text[i + 1] = LineEnd}
<1>1. b.text = y
  BY BufferFields, Zenon
<1>2. /\ Len(y) = Len(u) + Len(t) + Len(w)
      /\ Len(u) \in Nat /\ Len(t) \in Nat /\ Len(w) \in Nat
  OBVIOUS
<1>3. \A i \in p .. q - 1 : y[i + 1] # Newline
  <2>1. \A i \in 1 .. Len(t) : y[Len(u) + i] = t[i]
    OBVIOUS
  <2>2. ASSUME NEW i \in p .. q - 1 PROVE y[i + 1] # Newline
    <3> DEFINE j == i + 1 - Len(u)
    <3>1. j \in 1 .. Len(t) /\ Len(u) + j = i + 1
      BY <1>2
    <3> HIDE DEF j, y
    <3> QED BY <2>1, <3>1, Zenon
  <2> QED BY <2>2
<1>4. w # <<>> => y[q + 1] = w[1]
  OBVIOUS
<1> HIDE DEF y, b
<1>5. q \in Q
  <2>1. q \in p .. Len(y)
    BY <1>2
  <2>2. q = Len(y) \/ y[q + 1] = LineEnd
    <3>1. CASE w = <<>>
      BY <1>2, <3>1
    <3>2. CASE w # <<>>
      BY <1>4, <3>2 DEF BeforeLine, Newline, LineEnd
    <3> QED BY <3>1, <3>2
  <2> QED BY <1>1, <2>1, <2>2, Zenon
<1>6. \A i \in Q : i \in Int /\ q <= i
  <2>1. ASSUME NEW i \in Q PROVE i \in Int /\ q <= i
    <3>1. i \in p .. Len(y) /\ (i = Len(y) \/ y[i + 1] = LineEnd)
      BY <1>1, <2>1, Zenon
    <3>2. i = Len(y) \/ i \notin p .. q - 1
      BY <1>3, <3>1, Zenon DEF Newline, LineEnd
    <3> QED BY <1>2, <3>1, <3>2
  <2> QED BY <2>1
<1>7. q \in Int
  BY <1>2
<1> HIDE DEF Q, q
<1>8. Min(Q) = q
  BY <1>5, <1>6, <1>7, MinIs, Zenon
<1> QED BY <1>8, Zenon DEF EndOf, Q, b, q

(* The text buffer an editor shows.                                        *)
Shows(e, v, S, u, w) == u \in Seq(S) /\ w \in Seq(S) /\ Written(e, v) = Buffer(u, w, v)

LEMMA StandsShows ==
  ASSUME NEW S, Newline \in S, NEW e, NEW A \in Seq(Seq(S)), NEW h \in Seq(S),
         NEW t \in Seq(S), NEW B \in Seq(Seq(S)), Stands(e, A, h, t, B), NEW v
  PROVE  Shows(e, v, S, InFront(A, h), Behind(t, B))
<1>1. Written(e, v) = Buffer(InFront(A, h), Behind(t, B), v)
  BY WrittenIs
<1>2. InFront(A, h) \in Seq(S) /\ Behind(t, B) \in Seq(S)
  BY FrontIs, RestIs, Zenon
<1> QED BY <1>1, <1>2, Zenon DEF Shows

(* A character or a line end more in front of a place, or behind it.       *)
Grows(A, h, c) == InFront(A, h \o <<c>>) = InFront(A, h) \o <<c>>
Ends(A, h) == InFront(Append(A, h), <<>>) = InFront(A, h) \o <<Newline>>
GrowsBehind(c, t, B) == Behind(<<c>> \o t, B) = <<c>> \o Behind(t, B)
EndsBehind(t, B) == Behind(<<>>, <<t>> \o B) = <<Newline>> \o Behind(t, B)

LEMMA Grown ==
  ASSUME NEW S, Newline \in S, NEW A \in Seq(Seq(S)), NEW h \in Seq(S), NEW c \in S
  PROVE  Grows(A, h, c)
<1> DEFINE k == <<c>>
<1>1. k \in Seq(S)
  OBVIOUS
<1> HIDE DEF k
<1>2. InFront(A, h \o k) = InFront(A, h) \o k
  BY <1>1, FrontGrows
<1> QED BY <1>2, Zenon DEF Grows, k

LEMMA GrownBehind ==
  ASSUME NEW S, Newline \in S, NEW c \in S, NEW t \in Seq(S), NEW B \in Seq(Seq(S))
  PROVE  GrowsBehind(c, t, B)
<1> DEFINE k == <<c>>
<1>1. k \in Seq(S)
  OBVIOUS
<1> HIDE DEF k
<1>2. Behind(k \o t, B) = k \o Behind(t, B)
  BY <1>1, RestGrows
<1> QED BY <1>2, Zenon DEF GrowsBehind, k

LEMMA Ended ==
  ASSUME NEW S, Newline \in S, NEW A \in Seq(Seq(S)), NEW h \in Seq(S)
  PROVE  Ends(A, h)
BY FrontEnds DEF Ends

LEMMA EndedBehind ==
  ASSUME NEW S, Newline \in S, NEW t \in Seq(S), NEW B \in Seq(Seq(S))
  PROVE  EndsBehind(t, B)
BY RestEnds DEF EndsBehind

(* A character is put or erased, or the cursor moves over one.             *)
Puts(e, f, v, c) == Written(f, v) = Put(Written(e, v), c)

LEMMA ShowsPut ==
  ASSUME NEW S, NEW e, NEW f, NEW v, NEW u, NEW w, NEW c \in S,
         Shows(e, v, S, u, w), Shows(f, v, S, u \o <<c>>, w)
  PROVE  Puts(e, f, v, c)
<1>1. u \in Seq(S) /\ w \in Seq(S) /\ Written(e, v) = Buffer(u, w, v)
      /\ Written(f, v) = Buffer(u \o <<c>>, w, v)
  BY Zenon DEF Shows
<1>2. Put(Buffer(u, w, v), c) = Buffer(u \o <<c>>, w, v)
  BY <1>1, PutIs
<1> QED BY <1>1, <1>2, Zenon DEF Puts

LEMMA InsertIsPut ==
  ASSUME NEW S, Newline \in S, NEW e, InText(e, S), NEW v, NEW c \in S
  PROVE  Puts(e, Insert(e, c), v, c)
<1>1. PICK A, h, t, B : Place(e, S, A, h, t, B)
  BY HasPlace, Zenon
<1> DEFINE g == h \o <<c>>
           u == InFront(A, h)
           w == Behind(t, B)
<1>2. /\ A \in Seq(Seq(S)) /\ h \in Seq(S) /\ t \in Seq(S) /\ B \in Seq(Seq(S))
      /\ Stands(e, A, h, t, B)
  BY <1>1, Zenon DEF Place
<1>3. Stands(Insert(e, c), A, g, t, B)
  BY <1>1, InsertStands, Zenon
<1>4. g \in Seq(S)
  BY <1>2, OneMore, Zenon
<1>5. Shows(e, v, S, u, w)
  BY <1>2, StandsShows, Zenon
<1>6. Shows(Insert(e, c), v, S, InFront(A, g), w)
  <2> HIDE DEF g
  <2> QED BY <1>2, <1>3, <1>4, StandsShows, Zenon
<1>7. InFront(A, g) = u \o <<c>>
  <2>1. Grows(A, h, c)
    BY <1>2, Grown, Zenon
  <2> QED BY <2>1, Zenon DEF Grows
<1> HIDE DEF u, w
<1>8. Shows(Insert(e, c), v, S, u \o <<c>>, w)
  BY <1>6, <1>7, Zenon
<1> QED BY <1>5, <1>8, ShowsPut, Zenon

LEMMA SplitIsPut ==
  ASSUME NEW S, Newline \in S, NEW e, InText(e, S), NEW v
  PROVE  Puts(e, Split(e), v, LineEnd)
<1>1. PICK A, h, t, B : Place(e, S, A, h, t, B)
  BY HasPlace, Zenon
<1> DEFINE W == Append(A, h)
           u == InFront(A, h)
           w == Behind(t, B)
<1>2. /\ A \in Seq(Seq(S)) /\ h \in Seq(S) /\ t \in Seq(S) /\ B \in Seq(Seq(S))
      /\ Stands(e, A, h, t, B)
  BY <1>1, Zenon DEF Place
<1>3. Stands(Split(e), W, <<>>, t, B)
  BY <1>1, SplitStands, Zenon
<1>4. W \in Seq(Seq(S)) /\ <<>> \in Seq(S)
  BY <1>2
<1>5. Shows(e, v, S, u, w)
  BY <1>2, StandsShows, Zenon
<1>6. Shows(Split(e), v, S, InFront(W, <<>>), w)
  <2> HIDE DEF W
  <2> QED BY <1>2, <1>3, <1>4, StandsShows, Zenon
<1>7. InFront(W, <<>>) = u \o <<Newline>>
  <2>1. Ends(A, h)
    BY <1>2, Ended, Zenon
  <2> QED BY <2>1, Zenon DEF Ends
<1> HIDE DEF u, w
<1>8. Shows(Split(e), v, S, u \o <<Newline>>, w)
  BY <1>6, <1>7, Zenon
<1>9. Puts(e, Split(e), v, Newline)
  BY <1>5, <1>8, ShowsPut, Zenon
<1> QED BY <1>9, Zenon DEF Newline, LineEnd

Erases(e, f, g, v) ==
  /\ Written(f, v) = EraseBehind(Written(e, v))
  /\ Written(g, v) = To(Written(e, v), Written(e, v).pos - 1)

LEMMA ShowsErase ==
  ASSUME NEW S, NEW e, NEW f, NEW g, NEW v, NEW u, NEW w, NEW c \in S,
         Shows(e, v, S, u \o <<c>>, w), Shows(f, v, S, u, w), Shows(g, v, S, u, <<c>> \o w)
  PROVE  Erases(e, f, g, v)
<1> DEFINE k == <<c>>
           x == u \o k
           b == Buffer(x, w, v)
<1>1. /\ u \in Seq(S) /\ w \in Seq(S) /\ Written(e, v) = b
      /\ Written(f, v) = Buffer(u, w, v) /\ Written(g, v) = Buffer(u, k \o w, v)
  BY Zenon DEF Shows
<1>2. EraseBehind(b) = Buffer(u, w, v)
  BY <1>1, EraseBehindIs
<1>3. Len(x) = Len(u) + 1 /\ Len(u) \in Nat
  BY <1>1, OneMore, Zenon
<1>4. k \in Seq(S)
  OBVIOUS
<1> HIDE DEF k
<1>5. To(b, Len(u)) = Buffer(u, k \o w, v)
  BY <1>1, <1>4, ToIs
<1>6. b.pos = Len(x)
  BY BufferFields, Zenon
<1> HIDE DEF x, b
<1>7. b.pos - 1 = Len(u)
  BY <1>3, <1>6
<1> QED BY <1>1, <1>2, <1>5, <1>7, Zenon DEF Erases

LEMMA BackspaceIsErase ==
  ASSUME NEW S, Newline \in S, NEW e, InText(e, S), NEW v
  PROVE  Erases(e, Backspace(e), MoveLeft(e), v)
<1>1. PICK A, h, t, B : Place(e, S, A, h, t, B)
  BY HasPlace, Zenon
<1>2. /\ A \in Seq(Seq(S)) /\ h \in Seq(S) /\ t \in Seq(S) /\ B \in Seq(Seq(S))
      /\ Stands(e, A, h, t, B)
  BY <1>1, Zenon DEF Place
<1> DEFINE w == Behind(t, B)
<1>3. Shows(e, v, S, InFront(A, h), w)
  BY <1>2, StandsShows, Zenon
<1>4. CASE h # <<>>
  <2>1. PICK c \in S, g \in Seq(S) : h = g \o <<c>>
    BY <1>2, <1>4, LastOf, Zenon
  <2> DEFINE u == InFront(A, g)
             s == <<c>> \o t
  <2>2. Stands(Backspace(e), A, g, t, B) /\ Stands(MoveLeft(e), A, g, s, B)
    BY <1>1, <2>1, BackspaceChar, LeftChar, Zenon
  <2>3. s \in Seq(S)
    BY <1>2
  <2>4. InFront(A, h) = u \o <<c>> /\ Behind(s, B) = <<c>> \o w
    <3>1. Grows(A, g, c) /\ GrowsBehind(c, t, B)
      BY <1>2, <2>1, Grown, GrownBehind, Zenon
    <3> QED BY <2>1, <3>1, Zenon DEF Grows, GrowsBehind
  <2> HIDE DEF s
  <2>5. Shows(Backspace(e), v, S, u, w) /\ Shows(MoveLeft(e), v, S, u, Behind(s, B))
    BY <1>2, <2>1, <2>2, <2>3, StandsShows, Zenon
  <2> HIDE DEF u, w
  <2>6. Shows(e, v, S, u \o <<c>>, w) /\ Shows(MoveLeft(e), v, S, u, <<c>> \o w)
    BY <1>3, <2>4, <2>5, Zenon
  <2> QED BY <2>1, <2>5, <2>6, ShowsErase, Zenon
<1>5. CASE h = <<>> /\ A # <<>>
  <2>1. PICK m \in Seq(S), C \in Seq(Seq(S)) : A = C \o <<m>>
    BY <1>2, <1>5, LastOf, Zenon
  <2>2. A = Append(C, m)
    BY <2>1, AppendIsConcat
  <2> DEFINE u == InFront(C, m)
             D == <<t>> \o B
  <2>3. Stands(Backspace(e), C, m, t, B) /\ Stands(MoveLeft(e), C, m, <<>>, D)
    BY <1>1, <1>5, <2>1, <2>2, BackspaceLine, LeftLine, Zenon
  <2>4. <<>> \in Seq(S) /\ D \in Seq(Seq(S))
    BY <1>2
  <2>5. InFront(A, h) = u \o <<Newline>> /\ Behind(<<>>, D) = <<Newline>> \o w
    <3>1. Ends(C, m) /\ EndsBehind(t, B)
      BY <1>2, <2>1, Ended, EndedBehind, Zenon
    <3> QED BY <1>5, <2>2, <3>1, Zenon DEF Ends, EndsBehind
  <2> HIDE DEF D
  <2>6. Shows(Backspace(e), v, S, u, w) /\ Shows(MoveLeft(e), v, S, u, Behind(<<>>, D))
    BY <1>2, <2>1, <2>3, <2>4, StandsShows, Zenon
  <2> HIDE DEF u, w
  <2>7. Shows(e, v, S, u \o <<Newline>>, w) /\ Shows(MoveLeft(e), v, S, u, <<Newline>> \o w)
    BY <1>3, <2>5, <2>6, Zenon
  <2> QED BY <2>6, <2>7, ShowsErase, Zenon
<1>6. CASE h = <<>> /\ A = <<>>
  <2>1. Backspace(e) = e /\ MoveLeft(e) = e
    BY <1>1, <1>6, BackspaceNone, Zenon
  <2>2. InFront(A, h) = <<>>
    BY <1>2, <1>6, FrontIs
  <2> DEFINE b == Buffer(<<>>, w, v)
  <2>3. w \in Seq(S) /\ Written(e, v) = b
    BY <1>3, <2>2, Zenon DEF Shows
  <2> HIDE DEF w
  <2>4. EraseBehind(b) = b /\ To(b, Len(<<>>) - 1) = b
    BY <2>3, NothingToErase, NowhereToGo
  <2>5. b.pos = Len(<<>>)
    BY BufferFields, Zenon
  <2> HIDE DEF b
  <2> QED BY <2>1, <2>3, <2>4, <2>5, Zenon DEF Erases
<1> QED BY <1>4, <1>5, <1>6

(* The cursor moves over part of the text, either way.                     *)
Over(u, m, w, v) ==
  /\ To(Buffer(u, m \o w, v), Len(u) + Len(m)) = Buffer(u \o m, w, v)
  /\ To(Buffer(u \o m, w, v), Len(u)) = Buffer(u, m \o w, v)

LEMMA GoesOver ==
  ASSUME NEW S, NEW u \in Seq(S), NEW m \in Seq(S), NEW w \in Seq(S), NEW v
  PROVE  Over(u, m, w, v)
<1>1. To(Buffer(u, m \o w, v), Len(u) + Len(m)) = Buffer(u \o m, w, v)
  BY ToIs
<1>2. To(Buffer(u \o m, w, v), Len(u)) = Buffer(u, m \o w, v)
  BY ToIs
<1> QED BY <1>1, <1>2, Zenon DEF Over

ErasesAhead(e, f, g, v) ==
  /\ Written(f, v) = EraseAhead(Written(e, v))
  /\ Written(g, v) = To(Written(e, v), Written(e, v).pos + 1)

LEMMA ShowsEraseAhead ==
  ASSUME NEW S, NEW e, NEW f, NEW g, NEW v, NEW u, NEW w, NEW c \in S, w \in Seq(S),
         Shows(e, v, S, u, <<c>> \o w), Shows(f, v, S, u, w), Shows(g, v, S, u \o <<c>>, w)
  PROVE  ErasesAhead(e, f, g, v)
<1> DEFINE k == <<c>>
           b == Buffer(u, k \o w, v)
<1>1. /\ u \in Seq(S) /\ Written(e, v) = b
      /\ Written(f, v) = Buffer(u, w, v) /\ Written(g, v) = Buffer(u \o k, w, v)
  BY Zenon DEF Shows
<1>2. EraseAhead(b) = Buffer(u, w, v)
  BY <1>1, EraseAheadIs
<1>3. k \in Seq(S) /\ Len(k) = 1
  OBVIOUS
<1> HIDE DEF k
<1>4. To(b, Len(u) + 1) = Buffer(u \o k, w, v)
  <2>1. To(b, Len(u) + Len(k)) = Buffer(u \o k, w, v)
    <3>1. Over(u, k, w, v)
      BY <1>1, <1>3, GoesOver, Zenon
    <3> QED BY <3>1, Zenon DEF Over
  <2> QED BY <1>3, <2>1, Zenon
<1>5. b.pos = Len(u)
  BY BufferFields, Zenon
<1> HIDE DEF b
<1> QED BY <1>1, <1>2, <1>4, <1>5, Zenon DEF ErasesAhead

LEMMA DeleteIsErase ==
  ASSUME NEW S, Newline \in S, NEW e, InText(e, S), NEW v
  PROVE  ErasesAhead(e, Delete(e), MoveRight(e), v)
<1>1. PICK A, h, t, B : Place(e, S, A, h, t, B)
  BY HasPlace, Zenon
<1>2. /\ A \in Seq(Seq(S)) /\ h \in Seq(S) /\ t \in Seq(S) /\ B \in Seq(Seq(S))
      /\ Stands(e, A, h, t, B)
  BY <1>1, Zenon DEF Place
<1> DEFINE u == InFront(A, h)
<1>3. Shows(e, v, S, u, Behind(t, B))
  BY <1>2, StandsShows, Zenon
<1>4. CASE t # <<>>
  <2>1. PICK c \in S, r \in Seq(S) : t = <<c>> \o r
    BY <1>2, <1>4, FirstOf, Zenon
  <2> DEFINE w == Behind(r, B)
             g == h \o <<c>>
  <2>2. Stands(Delete(e), A, h, r, B) /\ Stands(MoveRight(e), A, g, r, B)
    BY <1>1, <2>1, DeleteChar, RightChar, Zenon
  <2>3. g \in Seq(S)
    BY <1>2, <2>1, OneMore, Zenon
  <2>4. InFront(A, g) = u \o <<c>> /\ Behind(t, B) = <<c>> \o w
    <3>1. Grows(A, h, c) /\ GrowsBehind(c, r, B)
      BY <1>2, <2>1, Grown, GrownBehind, Zenon
    <3> QED BY <2>1, <3>1, Zenon DEF Grows, GrowsBehind
  <2> HIDE DEF g
  <2>5. Shows(Delete(e), v, S, u, w) /\ Shows(MoveRight(e), v, S, InFront(A, g), w)
    BY <1>2, <2>1, <2>2, <2>3, StandsShows, Zenon
  <2> HIDE DEF u, w
  <2>6. Shows(e, v, S, u, <<c>> \o w) /\ Shows(MoveRight(e), v, S, u \o <<c>>, w)
    BY <1>3, <2>4, <2>5, Zenon
  <2>7. w \in Seq(S)
    BY <2>5, Zenon DEF Shows
  <2> QED BY <2>1, <2>5, <2>6, <2>7, ShowsEraseAhead, Zenon
<1>5. CASE t = <<>> /\ B # <<>>
  <2>1. PICK n \in Seq(S), D \in Seq(Seq(S)) : B = <<n>> \o D
    BY <1>2, <1>5, FirstOf, Zenon
  <2> DEFINE w == Behind(n, D)
             W == Append(A, h)
  <2>2. Stands(Delete(e), A, h, n, D) /\ Stands(MoveRight(e), W, <<>>, n, D)
    BY <1>1, <1>5, <2>1, DeleteLine, RightLine, Zenon
  <2>3. <<>> \in Seq(S) /\ W \in Seq(Seq(S))
    BY <1>2
  <2>4. InFront(W, <<>>) = u \o <<Newline>> /\ Behind(t, B) = <<Newline>> \o w
    <3>1. Ends(A, h) /\ EndsBehind(n, D)
      BY <1>2, <2>1, Ended, EndedBehind, Zenon
    <3> QED BY <1>5, <2>1, <3>1, Zenon DEF Ends, EndsBehind
  <2> HIDE DEF W
  <2>5. Shows(Delete(e), v, S, u, w) /\ Shows(MoveRight(e), v, S, InFront(W, <<>>), w)
    BY <1>2, <2>1, <2>2, <2>3, StandsShows, Zenon
  <2> HIDE DEF u, w
  <2>6. Shows(e, v, S, u, <<Newline>> \o w) /\ Shows(MoveRight(e), v, S, u \o <<Newline>>, w)
    BY <1>3, <2>4, <2>5, Zenon
  <2>7. w \in Seq(S)
    BY <2>5, Zenon DEF Shows
  <2> QED BY <2>5, <2>6, <2>7, ShowsEraseAhead, Zenon
<1>6. CASE t = <<>> /\ B = <<>>
  <2>1. Delete(e) = e /\ MoveRight(e) = e
    BY <1>1, <1>6, DeleteNone, Zenon
  <2>2. Behind(t, B) = <<>>
    BY <1>2, <1>6, RestIs
  <2> DEFINE b == Buffer(u, <<>>, v)
  <2>3. u \in Seq(S) /\ Written(e, v) = b
    BY <1>3, <2>2, Zenon DEF Shows
  <2> HIDE DEF u
  <2>4. EraseAhead(b) = b /\ To(b, Len(u) + 1) = b
    BY <2>3, NothingToErase, NowhereToGo
  <2>5. b.pos = Len(u)
    BY BufferFields, Zenon
  <2> HIDE DEF b
  <2> QED BY <2>1, <2>3, <2>4, <2>5, Zenon DEF ErasesAhead
<1> QED BY <1>4, <1>5, <1>6

(* Home and End, of a text none of whose lines holds a line end.           *)
Goes(e, f, v, p) == Written(f, v) = To(Written(e, v), p)

LEMMA Unbroken ==
  ASSUME NEW S, NEW T, Newline \notin S, NEW e, InText(e, S),
         NEW A, NEW h, NEW t, NEW B, Place(e, T, A, h, t, B)
  PROVE  /\ \A i \in 1 .. Len(h) : h[i] # Newline
         /\ \A i \in 1 .. Len(t) : t[i] # Newline
<1>1. Known(e, T, A, h, t, B)
  BY PlaceKnown, Zenon
<1> DEFINE l == e.lines[e.cy]
<1>2. l \in Seq(S)
  BY Fields
<1>3. l = h \o t /\ h \in Seq(T) /\ t \in Seq(T)
  BY <1>1, Zenon DEF Known, Line
<1> HIDE DEF l
<1>4. \A i \in 1 .. Len(l) : l[i] # Newline
  BY <1>2
<1>5. /\ \A i \in 1 .. Len(h) : i \in 1 .. Len(l) /\ l[i] = h[i]
      /\ \A i \in 1 .. Len(t) : Len(h) + i \in 1 .. Len(l) /\ l[Len(h) + i] = t[i]
  BY <1>3
<1> QED BY <1>4, <1>5

GrowsBy(A, h, g) == InFront(A, h \o g) = InFront(A, h) \o g

LEMMA GrownBy ==
  ASSUME NEW S, Newline \in S, NEW A \in Seq(Seq(S)), NEW h \in Seq(S), NEW g \in Seq(S)
  PROVE  GrowsBy(A, h, g)
BY FrontGrows DEF GrowsBy

LEMMA HomeIsTo ==
  ASSUME NEW S, Newline \notin S, NEW e, InText(e, S), NEW v
  PROVE  Goes(e, Home(e), v, StartOf(Written(e, v), Written(e, v).pos))
<1> DEFINE T == S \cup {Newline}
<1>1. S \subseteq T /\ Newline \in T
  OBVIOUS
<1> HIDE DEF T
<1>2. PICK A, h, t, B : Place(e, T, A, h, t, B)
  <2>1. InText(e, T)
    BY <1>1, InTextOfMore, Zenon
  <2> QED BY <2>1, HasPlace, Zenon
<1>3. /\ A \in Seq(Seq(T)) /\ h \in Seq(T) /\ t \in Seq(T) /\ B \in Seq(Seq(T))
      /\ Stands(e, A, h, t, B)
  BY <1>2, Zenon DEF Place
<1>4. \A i \in 1 .. Len(h) : h[i] # Newline
  BY <1>2, Unbroken, Zenon
<1> DEFINE u == InFront(A, <<>>)
           w == Behind(t, B)
           b == Buffer(u \o h, w, v)
           l == h \o t
<1>5. u \in Seq(T) /\ AfterLine(u)
  BY <1>1, <1>3, FrontOpens, Zenon
<1>6. InFront(A, h) = u \o h
  <2> DEFINE n == <<>>
  <2>1. n \in Seq(T) /\ n \o h = h
    BY <1>3
  <2> HIDE DEF n
  <2>2. GrowsBy(A, n, h)
    BY <1>1, <1>3, <2>1, GrownBy, Zenon
  <2> QED BY <2>1, <2>2, Zenon DEF n, GrowsBy
<1>7. l \in Seq(T) /\ <<>> \in Seq(T)
  BY <1>3
<1>8. Behind(l, B) = h \o w
  BY <1>1, <1>3, RestGrows
<1>9. Shows(e, v, T, u \o h, w)
  BY <1>1, <1>3, <1>6, StandsShows, Zenon
<1>10. Stands(Home(e), A, <<>>, l, B)
  BY <1>2, HomeStands, Zenon
<1> HIDE DEF l
<1>11. Shows(Home(e), v, T, u, h \o w)
  <2>1. Shows(Home(e), v, T, u, Behind(l, B))
    BY <1>1, <1>3, <1>7, <1>10, StandsShows, Zenon
  <2> QED BY <1>8, <2>1, Zenon
<1> HIDE DEF u, w
<1>12. w \in Seq(T) /\ Written(e, v) = b /\ Written(Home(e), v) = Buffer(u, h \o w, v)
  BY <1>9, <1>11, Zenon DEF Shows
<1>13. StartOf(b, Len(u \o h)) = Len(u)
  BY <1>3, <1>4, <1>5, <1>12, StartIs
<1>14. b.pos = Len(u \o h)
  BY BufferFields, Zenon
<1>15. To(b, Len(u)) = Buffer(u, h \o w, v)
  <2>1. Over(u, h, w, v)
    BY <1>3, <1>5, <1>12, GoesOver, Zenon
  <2> QED BY <2>1, Zenon DEF Over
<1> HIDE DEF b
<1> QED BY <1>12, <1>13, <1>14, <1>15, Zenon DEF Goes

LEMMA EndIsTo ==
  ASSUME NEW S, Newline \notin S, NEW e, InText(e, S), NEW v
  PROVE  Goes(e, End(e), v, EndOf(Written(e, v), Written(e, v).pos))
<1> DEFINE T == S \cup {Newline}
<1>1. S \subseteq T /\ Newline \in T
  OBVIOUS
<1> HIDE DEF T
<1>2. PICK A, h, t, B : Place(e, T, A, h, t, B)
  <2>1. InText(e, T)
    BY <1>1, InTextOfMore, Zenon
  <2> QED BY <2>1, HasPlace, Zenon
<1>3. /\ A \in Seq(Seq(T)) /\ h \in Seq(T) /\ t \in Seq(T) /\ B \in Seq(Seq(T))
      /\ Stands(e, A, h, t, B)
  BY <1>2, Zenon DEF Place
<1>4. \A i \in 1 .. Len(t) : t[i] # Newline
  BY <1>2, Unbroken, Zenon
<1> DEFINE u == InFront(A, h)
           w == Behind(<<>>, B)
           b == Buffer(u, t \o w, v)
           l == h \o t
<1>5. w \in Seq(T) /\ BeforeLine(w)
  BY <1>1, <1>3, BehindCloses, Zenon
<1>6. Behind(t, B) = t \o w
  <2> DEFINE n == <<>>
  <2>1. n \in Seq(T) /\ t \o n = t
    BY <1>3
  <2> HIDE DEF n
  <2>2. Behind(t \o n, B) = t \o Behind(n, B)
    BY <1>1, <1>3, <2>1, RestGrows
  <2> QED BY <2>1, <2>2, Zenon DEF n
<1>7. l \in Seq(T) /\ <<>> \in Seq(T)
  BY <1>3
<1>8. InFront(A, l) = u \o t
  BY <1>1, <1>3, FrontGrows
<1>9. Shows(e, v, T, u, t \o w)
  <2>1. Shows(e, v, T, u, Behind(t, B))
    BY <1>1, <1>3, StandsShows, Zenon
  <2> QED BY <1>6, <2>1, Zenon
<1>10. Stands(End(e), A, l, <<>>, B)
  BY <1>2, EndStands, Zenon
<1> HIDE DEF l
<1>11. Shows(End(e), v, T, u \o t, w)
  <2>1. Shows(End(e), v, T, InFront(A, l), w)
    BY <1>1, <1>3, <1>7, <1>10, StandsShows, Zenon
  <2> QED BY <1>8, <2>1, Zenon
<1> HIDE DEF u, w
<1>12. u \in Seq(T) /\ Written(e, v) = b /\ Written(End(e), v) = Buffer(u \o t, w, v)
  BY <1>9, <1>11, Zenon DEF Shows
<1>13. EndOf(b, Len(u)) = Len(u) + Len(t)
  BY <1>3, <1>4, <1>5, <1>12, EndIs
<1>14. b.pos = Len(u)
  BY BufferFields, Zenon
<1>15. To(b, Len(u) + Len(t)) = Buffer(u \o t, w, v)
  <2>1. Over(u, t, w, v)
    BY <1>3, <1>5, <1>12, GoesOver, Zenon
  <2> QED BY <2>1, Zenon DEF Over
<1> HIDE DEF b
<1> QED BY <1>12, <1>13, <1>14, <1>15, Zenon DEF Goes

(* A ladder: numbers that rise from rung a to rung b.                      *)
Rises(f, a, b) == \A i, j \in a .. b : f[i] \in Nat /\ (i < j => f[i] < f[j])
Rungs(f, a, b) == {f[i] : i \in a .. b}

Counts(Q, n) == IsFiniteSet(Q) /\ Cardinality(Q) = n

LEMMA RungsCount ==
  ASSUME NEW f, NEW a \in Nat, NEW b \in Nat, Rises(f, a, b), a <= b + 1
  PROVE  Counts(Rungs(f, a, b), b + 1 - a)
<1> DEFINE Q == Rungs(f, a, b)
           g == [i \in a .. b |-> f[i]]
<1>1. g \in Bijection(a .. b, Q)
  <2>1. \A i, j \in a .. b : g[i] = g[j] => i = j
    <3>1. \A i, j \in a .. b : f[i] = f[j] => i = j
      BY DEF Rises
    <3> QED BY <3>1
  <2>2. g \in [a .. b -> Q]
    BY DEF Rungs
  <2>3. \A q \in Q : \E i \in a .. b : g[i] = q
    BY DEF Rungs
  <2> QED BY <2>1, <2>2, <2>3 DEF Bijection, Injection, Surjection, IsInjective
<1>2. IsFiniteSet(a .. b) /\ Cardinality(a .. b) = b + 1 - a
  <2>1. /\ IsFiniteSet(a .. b)
        /\ Cardinality(a .. b) = IF a > b THEN 0 ELSE b - a + 1
    BY FS_Interval
  <2> QED BY <2>1
<1>3. ExistsBijection(a .. b, Q)
  BY <1>1, Zenon DEF ExistsBijection
<1> HIDE DEF Q
<1>4. IsFiniteSet(Q) /\ Cardinality(Q) = Cardinality(a .. b)
  BY <1>2, <1>3, FS_Bijection, Zenon
<1> QED BY <1>2, <1>4, Zenon DEF Counts, Q

IsKth(Q, k, x) == Kth(Q, k) = x

LEMMA KthIs ==
  ASSUME NEW f, NEW a \in Nat, NEW b \in Nat, Rises(f, a, b), NEW k \in a .. b,
         NEW n, n = k + 1 - a
  PROVE  IsKth(Rungs(f, a, b), n, f[k])
<1> DEFINE Q == Rungs(f, a, b)
           Less(s) == {r \in Q : r < s}
<1>1. ASSUME NEW j \in a .. b PROVE Cardinality(Less(f[j])) = j - a
  <2>1. Less(f[j]) = Rungs(f, a, j - 1)
    <3>1. \A i \in a .. b : f[i] < f[j] <=> i < j
      BY DEF Rises
    <3>2. \A i : i \in a .. b /\ i < j <=> i \in a .. j - 1
      OBVIOUS
    <3> QED BY <3>1, <3>2 DEF Rungs
  <2>2. CASE j = 0
    <3>1. Rungs(f, a, j - 1) = {} /\ j - a = 0
      BY <2>2 DEF Rungs
    <3> QED BY <2>1, <3>1, FS_EmptySet
  <2>3. CASE j # 0
    <3> DEFINE c == j - 1
    <3>1. c \in Nat /\ a <= c + 1 /\ c + 1 - a = j - a /\ Rises(f, a, c)
      BY <2>3 DEF Rises
    <3> HIDE DEF c
    <3>2. Counts(Rungs(f, a, c), c + 1 - a)
      BY <3>1, RungsCount, Zenon
    <3> QED BY <2>1, <3>1, <3>2, Zenon DEF Counts, c
  <2> QED BY <2>2, <2>3
<1>2. f[k] \in Q /\ Cardinality(Less(f[k])) = n - 1
  BY <1>1 DEF Rungs
<1>3. \A s \in Q : Cardinality(Less(s)) = n - 1 => s = f[k]
  <2>1. ASSUME NEW s \in Q, Cardinality(Less(s)) = n - 1 PROVE s = f[k]
    <3>1. PICK j \in a .. b : s = f[j]
      BY <2>1 DEF Rungs
    <3>2. j - a = n - 1
      BY <1>1, <2>1, <3>1
    <3>3. j = k
      BY <3>2
    <3> QED BY <3>1, <3>3
  <2> QED BY <2>1
<1> HIDE DEF Q
<1>4. (CHOOSE s \in Q : Cardinality(Less(s)) = n - 1) = f[k]
  BY <1>2, <1>3, Zenon
<1> QED BY <1>4, Zenon DEF IsKth, Kth, Q

-----------------------------------------------------------------------------
(* Where the lines of an editor start in its text.                         *)
Start(L, k) == Len(InFront(SubSeq(L, 1, k - 1), <<>>))
StartsOf(L) == [k \in 1 .. Len(L) |-> Start(L, k)]

(* A line in a text: u in front of it, w behind it.                        *)
Row(L, k, T, u, w) ==
  /\ u \in Seq(T) /\ w \in Seq(T) /\ TextOf(L) = u \o (L[k] \o w)
  /\ Len(u) = Start(L, k) /\ AfterLine(u) /\ BeforeLine(w)
  /\ k > 1 => u # <<>>
  /\ k = Len(L) => w = <<>>

LEMMA HasRow ==
  ASSUME NEW T, Newline \in T, NEW L \in Seq(Seq(T)), NEW k \in 1 .. Len(L)
  PROVE  \E u, w : Row(L, k, T, u, w)
<1> DEFINE l == L[k]
           n == <<>>
<1>1. l \in Seq(T) /\ n \in Seq(T) /\ n \o l = l /\ l \o n = l
  OBVIOUS
<1>2. PICK A \in Seq(Seq(T)), B \in Seq(Seq(T)) : L = A \o <<l>> \o B /\ Len(A) = k - 1
  BY CutAt, Zenon
<1> DEFINE u == InFront(A, n)
           w == Behind(n, B)
<1>3. SubSeq(L, 1, k - 1) = A /\ Len(L) = Len(A) + 1 + Len(B)
  <2> HIDE DEF l
  <2>1. IsBetween(Seq(T), A, l, B)
    BY <1>1, Between, Zenon
  <2>2. SubSeq(A \o <<l>> \o B, 1, Len(A)) = A /\ Len(A \o <<l>> \o B) = Len(A) + 1 + Len(B)
    BY <2>1, Zenon DEF IsBetween
  <2> QED BY <1>2, <2>2, Zenon
<1>4. u \in Seq(T) /\ w \in Seq(T) /\ AfterLine(u) /\ BeforeLine(w)
  BY FrontOpens, BehindCloses, Zenon
<1> HIDE DEF l
<1>5. TextOf(L) = u \o Behind(l, B)
  <2> HIDE DEF n
  <2>1. Halves(A, n, l, B)
    BY <1>1, WholeText, Zenon
  <2> QED BY <1>1, <1>2, <2>1, Zenon DEF Halves
<1>6. Behind(l, B) = l \o w
  <2> HIDE DEF n
  <2>1. Behind(l \o n, B) = l \o Behind(n, B)
    BY <1>1, RestGrows
  <2> QED BY <1>1, <2>1, Zenon
<1>7. k > 1 => u # <<>>
  <2>1. ASSUME k > 1 PROVE u # <<>>
    <3>1. A # <<>>
      BY <1>2, <2>1
    <3> DEFINE a == TextOf(A)
               c == <<Newline>>
               d == <<>>
    <3>2. u = a \o c \o d
      BY <1>1, <3>1, FrontIs
    <3>3. a \in Seq(T)
      BY <3>1, TextIsText, Zenon
    <3> DEFINE x == a \o c
    <3> HIDE DEF a
    <3>4. x \in Seq(T) /\ Len(x) = Len(a) + 1 /\ Len(a) \in Nat
      BY <3>3, OneMore, Zenon
    <3> HIDE DEF x, u
    <3>5. x \o d = x
      BY <3>4
    <3>6. u = x
      BY <3>2, <3>5, Zenon DEF x
    <3> QED BY <3>4, <3>6
  <2> QED BY <2>1
<1>8. k = Len(L) => w = <<>>
  <2>1. ASSUME k = Len(L) PROVE w = <<>>
    <3>1. B = <<>>
      BY <1>2, <1>3, <2>1
    <3> QED BY <1>1, <3>1, RestIs
  <2> QED BY <2>1
<1>9. Len(u) = Start(L, k)
  BY <1>3, Zenon DEF Start
<1>10. Row(L, k, T, u, w)
  BY <1>4, <1>5, <1>6, <1>7, <1>8, <1>9, Zenon DEF Row, l
<1> QED BY <1>10, Zenon

LEMMA FirstStart ==
  ASSUME NEW T, Newline \in T, NEW L \in Seq(Seq(T))
  PROVE  Start(L, 1) = 0
<1>1. SubSeq(L, 1, 1 - 1) = <<>>
  OBVIOUS
<1>2. <<>> \in Seq(T) /\ <<>> \in Seq(Seq(T)) /\ Len(<<>>) = 0
  OBVIOUS
<1>3. InFront(<<>>, <<>>) = <<>>
  BY <1>2, FrontIs
<1> QED BY <1>1, <1>2, <1>3, Zenon DEF Start

LEMMA NextStart ==
  ASSUME NEW T, Newline \in T, NEW L \in Seq(Seq(T)), NEW k \in 1 .. Len(L) - 1
  PROVE  Start(L, k + 1) = Start(L, k) + Len(L[k]) + 1
<1> DEFINE A == SubSeq(L, 1, k - 1)
           l == L[k]
           n == <<>>
           u == InFront(A, n)
<1>1. A \in Seq(Seq(T)) /\ l \in Seq(T) /\ n \in Seq(T) /\ n \o l = l
  OBVIOUS
<1>2. SubSeq(L, 1, (k + 1) - 1) = Append(A, l)
  OBVIOUS
<1> HIDE DEF A, l, n
<1>3. InFront(Append(A, l), <<>>) = InFront(A, l) \o <<Newline>>
  BY <1>1, FrontEnds
<1>4. InFront(A, l) = u \o l
  <2>1. GrowsBy(A, n, l)
    BY <1>1, GrownBy, Zenon
  <2> QED BY <1>1, <2>1, Zenon DEF GrowsBy
<1>5. u \in Seq(T)
  BY <1>1, FrontIs, Zenon
<1> HIDE DEF u
<1>6. Len(u \o l \o <<Newline>>) = Len(u) + Len(l) + 1
  BY <1>1, <1>5
<1>7. Start(L, k + 1) = Len(u) + Len(l) + 1
  BY <1>2, <1>3, <1>4, <1>6, Zenon DEF Start
<1> QED BY <1>7, Zenon DEF Start, u, n, A, l

LEMMA StartsRise ==
  ASSUME NEW T, Newline \in T, NEW L \in Seq(Seq(T))
  PROVE  Rises(StartsOf(L), 1, Len(L))
<1> DEFINE f == StartsOf(L)
           m == Len(L)
<1>1. m \in Nat
  OBVIOUS
<1>2. ASSUME NEW k \in 1 .. m PROVE f[k] = Start(L, k) /\ f[k] \in Nat
  <2>1. f[k] = Start(L, k)
    BY DEF StartsOf
  <2>2. PICK u, w : Row(L, k, T, u, w)
    BY HasRow, Zenon
  <2>3. Len(u) = Start(L, k) /\ u \in Seq(T)
    BY <2>2, Zenon DEF Row
  <2>4. Len(u) \in Nat
    BY <2>3
  <2> QED BY <2>1, <2>3, <2>4, Zenon
<1>3. ASSUME NEW k \in 1 .. m - 1 PROVE f[k] < f[k + 1]
  <2>1. k \in 1 .. m /\ k + 1 \in 1 .. m
    BY <1>1
  <2>2. Start(L, k + 1) = Start(L, k) + Len(L[k]) + 1
    BY NextStart
  <2>3. Len(L[k]) \in Nat
    BY <2>1
  <2>4. f[k + 1] = f[k] + Len(L[k]) + 1 /\ f[k] \in Nat
    BY <1>2, <2>1, <2>2, Zenon
  <2> HIDE DEF f
  <2> QED BY <2>3, <2>4
<1> HIDE DEF f, m
<1> DEFINE Fails == {j \in 1 .. m : \E i \in 1 .. j - 1 : ~(f[i] < f[j])}
<1>4. Fails = {}
  <2>1. SUFFICES ASSUME Fails # {} PROVE FALSE
    OBVIOUS
  <2>2. PICK j \in Fails : \A y \in Fails : j <= y
    <3>1. Fails \subseteq Nat
      BY <1>1
    <3> HIDE DEF Fails
    <3> QED BY <2>1, <3>1, LeastNat, Zenon
  <2>3. PICK i \in 1 .. j - 1 : ~(f[i] < f[j])
    OBVIOUS
  <2> DEFINE p == j - 1
  <2>4. p \in 1 .. m - 1 /\ p + 1 = j /\ p \in 1 .. m /\ p \notin Fails /\ i \in 1 .. m /\ j \in 1 .. m
    BY <1>1, <2>2
  <2> HIDE DEF p
  <2>5. f[p] < f[j]
    <3>1. f[p] < f[p + 1]
      BY <1>3, <2>4
    <3> QED BY <2>4, <3>1
  <2>6. CASE i = p
    BY <2>3, <2>5, <2>6
  <2>7. CASE i # p
    <3>1. i \in 1 .. p - 1
      BY <1>1, <2>4, <2>7
    <3>2. f[i] < f[p]
      BY <2>4, <3>1
    <3>3. f[i] \in Nat /\ f[p] \in Nat /\ f[j] \in Nat
      BY <1>2, <2>4
    <3> QED BY <2>3, <2>5, <3>2, <3>3
  <2> QED BY <2>6, <2>7
<1>5. \A i, j \in 1 .. m : i < j => f[i] < f[j]
  <2>1. \A i, j \in 1 .. m : i < j => i \in 1 .. j - 1
    BY <1>1
  <2> QED BY <1>4, <2>1
<1> QED BY <1>2, <1>5, Zenon DEF Rises, f, m

(* Lines none of which holds a line end.                                   *)
Plain(L, S, T) ==
  /\ Newline \notin S /\ Newline \in T /\ L # <<>>
  /\ L \in Seq(Seq(S)) /\ L \in Seq(Seq(T))

Middle(u, l, w, y) ==
  /\ Len(y) = Len(u) + Len(l) + Len(w)
  /\ Len(u) \in Nat /\ Len(w) \in Nat /\ Len(l) \in Nat
  /\ \A i \in 1 .. Len(l) : y[Len(u) + i] = l[i]
  /\ \A i \in 1 .. Len(u) : i \in 1 .. Len(y) /\ y[i] = u[i]

LEMMA MiddleOf ==
  ASSUME NEW T, NEW u \in Seq(T), NEW l \in Seq(T), NEW w \in Seq(T)
  PROVE  Middle(u, l, w, u \o (l \o w))
<1> DEFINE y == u \o (l \o w)
<1>1. /\ Len(y) = Len(u) + Len(l) + Len(w)
      /\ Len(u) \in Nat /\ Len(w) \in Nat /\ Len(l) \in Nat
  OBVIOUS
<1>2. \A i \in 1 .. Len(l) : y[Len(u) + i] = l[i]
  OBVIOUS
<1>3. \A i \in 1 .. Len(u) : i \in 1 .. Len(y) /\ y[i] = u[i]
  OBVIOUS
<1> QED BY <1>1, <1>2, <1>3, Zenon DEF Middle

LEMMA StartsAre ==
  ASSUME NEW S, NEW T, NEW L, Plain(L, S, T), NEW b, b.text = TextOf(L)
  PROVE  Starts(b) = Rungs(StartsOf(L), 1, Len(L))
<1> DEFINE f == StartsOf(L)
           m == Len(L)
           y == TextOf(L)
<1>1. /\ Newline \notin S /\ Newline \in T /\ L # <<>>
      /\ L \in Seq(Seq(S)) /\ L \in Seq(Seq(T))
  BY Zenon DEF Plain
<1>2. m \in Nat /\ m >= 1
  BY <1>1
<1>3. \A k \in 1 .. m : f[k] = Start(L, k)
  BY DEF StartsOf
<1>4. \A k \in 1 .. m : f[k] \in Nat
  <2>1. Rises(f, 1, m)
    BY <1>1, StartsRise, Zenon
  <2> QED BY <2>1, Zenon DEF Rises
<1>5. f[1] = 0
  <2>1. Start(L, 1) = 0
    BY <1>1, FirstStart, Zenon
  <2>2. 1 \in 1 .. m
    BY <1>2
  <2> QED BY <1>3, <2>1, <2>2, Zenon
<1> DEFINE Lies(k, u, w) ==
             /\ y = u \o (L[k] \o w) /\ Len(u) = f[k] /\ Len(y) = Len(u) + Len(L[k]) + Len(w)
             /\ \A i \in 1 .. Len(L[k]) : y[Len(u) + i] # Newline
             /\ Len(u) \in Nat /\ Len(w) \in Nat /\ Len(L[k]) \in Nat
             /\ k > 1 => Len(u) \in 1 .. Len(y) /\ y[Len(u)] = Newline
             /\ k = m => Len(w) = 0
<1>6. ASSUME NEW k \in 1 .. m PROVE \E u, w : Lies(k, u, w)
  <2> DEFINE l == L[k]
  <2>1. PICK u, w : Row(L, k, T, u, w)
    BY <1>1, HasRow, Zenon
  <2>2. /\ u \in Seq(T) /\ w \in Seq(T) /\ y = u \o (l \o w) /\ Len(u) = f[k]
        /\ AfterLine(u) /\ (k > 1 => u # <<>>) /\ (k = m => w = <<>>)
    BY <1>3, <2>1, Zenon DEF Row
  <2>3. l \in Seq(S) /\ l \in Seq(T)
    BY <1>1
  <2>4. \A i \in 1 .. Len(l) : l[i] # Newline
    BY <1>1, <2>3
  <2> HIDE DEF l, y, f
  <2>0. Middle(u, l, w, y)
    BY <2>2, <2>3, MiddleOf, Zenon
  <2>5. /\ Len(y) = Len(u) + Len(l) + Len(w)
        /\ Len(u) \in Nat /\ Len(w) \in Nat /\ Len(l) \in Nat
    BY <2>0, Zenon DEF Middle
  <2>6. /\ \A i \in 1 .. Len(l) : y[Len(u) + i] = l[i]
        /\ \A i \in 1 .. Len(u) : i \in 1 .. Len(y) /\ y[i] = u[i]
    BY <2>0, Zenon DEF Middle
  <2>7. ASSUME k > 1 PROVE Len(u) \in 1 .. Len(y) /\ y[Len(u)] = Newline
    <3>1. u # <<>> /\ u[Len(u)] = Newline
      BY <2>2, <2>7, Zenon DEF AfterLine
    <3>2. Len(u) \in 1 .. Len(u)
      BY <2>2, <3>1
    <3> QED BY <2>6, <3>1, <3>2, Zenon
  <2>8. ASSUME k = m PROVE Len(w) = 0
    BY <2>2, <2>8
  <2>9. Lies(k, u, w)
    BY <2>2, <2>4, <2>5, <2>6, <2>7, <2>8, Zenon DEF l, f
  <2> QED BY <2>9, Zenon
<1> HIDE DEF f, m, y
<1>7. ASSUME NEW k \in 1 .. m PROVE f[k] \in Starts(b)
  <2>1. CASE k = 1
    BY <1>5, <2>1 DEF Starts
  <2>2. CASE k # 1
    <3>1. PICK u, w : Lies(k, u, w)
      BY <1>6, Zenon
    <3>2. f[k] \in 1 .. Len(y) /\ y[f[k]] = Newline
      <4>1. k > 1
        BY <1>2, <2>2
      <4> QED BY <3>1, <4>1, Zenon
    <3> QED BY <3>2 DEF Starts, y, LineEnd, Newline
  <2> QED BY <2>1, <2>2
<1>8. ASSUME NEW s \in Starts(b) PROVE \E k \in 1 .. m : s = f[k]
  <2>1. s = 0 \/ (s \in 1 .. Len(y) /\ y[s] = Newline)
    BY DEF Starts, y, LineEnd, Newline
  <2>2. CASE s = 0
    BY <1>2, <1>5, <2>2
  <2>3. CASE s \in 1 .. Len(y) /\ y[s] = Newline
    <3> DEFINE D == {d \in 0 .. m - 1 : f[m - d] <= s}
    <3>1. PICK d \in D : \A z \in D : d <= z
      <4>1. m - 1 \in D
        <5>1. m - (m - 1) = 1 /\ m - 1 \in 0 .. m - 1
          BY <1>2
        <5>2. f[m - (m - 1)] = 0
          BY <1>5, <5>1
        <5>3. 0 <= s
          BY <2>3
        <5> QED BY <5>1, <5>2, <5>3
      <4>2. D \subseteq Nat
        BY <1>2
      <4>3. D # {}
        BY <4>1
      <4> HIDE DEF D
      <4> QED BY <4>2, <4>3, LeastNat, Zenon
    <3> DEFINE k == m - d
    <3>2. k \in 1 .. m /\ f[k] <= s
      BY <1>2, <3>1
    <3>3. k < m => ~(f[k + 1] <= s)
      <4>1. ASSUME k < m, f[k + 1] <= s PROVE FALSE
        <5>1. d - 1 \in 0 .. m - 1 /\ m - (d - 1) = k + 1
          BY <1>2, <3>1, <4>1
        <5>2. d - 1 \in D
          BY <4>1, <5>1
        <5>3. d <= d - 1
          BY <3>1, <5>2
        <5> QED BY <1>2, <5>3
      <4> QED BY <4>1
    <3> HIDE DEF k, D
    <3>4. PICK u, w : Lies(k, u, w)
      BY <1>6, <3>2, Zenon
    <3> DEFINE n == Len(L[k])
    <3>5. /\ f[k] = Len(u) /\ f[k] \in Nat /\ n \in Nat /\ Len(w) \in Nat
          /\ Len(y) = f[k] + n + Len(w) /\ (k = m => Len(w) = 0)
          /\ \A i \in 1 .. n : y[f[k] + i] # Newline
      BY <3>4, Zenon
    <3>6. k < m => f[k + 1] = f[k] + n + 1
      <4>1. ASSUME k < m PROVE f[k + 1] = f[k] + n + 1
        <5>1. k \in 1 .. Len(L) - 1 /\ k + 1 \in 1 .. m
          BY <1>2, <3>2, <4>1 DEF m
        <5>2. Start(L, k + 1) = Start(L, k) + n + 1
          BY <1>1, <5>1, NextStart, Zenon
        <5> QED BY <1>3, <3>2, <5>1, <5>2, Zenon DEF f
      <4> QED BY <4>1
    <3> HIDE DEF n
    <3>7. s = f[k]
      <4>1. SUFFICES ASSUME s # f[k] PROVE FALSE
        OBVIOUS
      <4> DEFINE i == s - f[k]
      <4>2. i \in Nat /\ i >= 1 /\ f[k] + i = s
        BY <2>3, <3>2, <3>5, <4>1
      <4> HIDE DEF i
      <4>3. i \notin 1 .. n
        BY <2>3, <3>5, <4>2
      <4>4. i > n
        BY <3>5, <4>2, <4>3
      <4>5. CASE k < m
        BY <3>3, <3>5, <3>6, <4>2, <4>4, <4>5
      <4>6. CASE k = m
        BY <2>3, <3>5, <4>2, <4>4, <4>6
      <4> QED BY <1>2, <3>2, <4>5, <4>6
    <3> QED BY <3>2, <3>7
  <2> QED BY <2>1, <2>2, <2>3
<1>9. Rungs(f, 1, m) \subseteq Starts(b)
  BY <1>7 DEF Rungs
<1>10. Starts(b) \subseteq Rungs(f, 1, m)
  BY <1>8 DEF Rungs
<1> QED BY <1>9, <1>10 DEF f, m

(* Where the line of a position starts and ends.                           *)
Bounds(b, L, k, x) ==
  /\ StartOf(b, Start(L, k) + x) = Start(L, k)
  /\ EndOf(b, Start(L, k)) = Start(L, k) + Len(L[k])

LEMMA BoundsAre ==
  ASSUME NEW S, NEW T, NEW L, Plain(L, S, T), NEW b, b.text = TextOf(L),
         NEW k \in 1 .. Len(L), NEW x \in 0 .. Len(L[k])
  PROVE  Bounds(b, L, k, x) /\ Start(L, k) \in Nat
<1> DEFINE f == StartsOf(L)
           m == Len(L)
           l == L[k]
           p == Start(L, k) + x
           Q == {s \in Starts(b) : s <= p}
<1>1. /\ Newline \notin S /\ Newline \in T /\ L # <<>>
      /\ L \in Seq(Seq(S)) /\ L \in Seq(Seq(T))
  BY Zenon DEF Plain
<1>2. l \in Seq(S) /\ l \in Seq(T)
  BY <1>1
<1>3. Rises(f, 1, m) /\ Starts(b) = Rungs(f, 1, m)
  BY <1>1, StartsRise, StartsAre, Zenon
<1>4. f[k] = Start(L, k) /\ m \in Nat
  BY <1>1 DEF StartsOf
<1>5. Len(l) \in Nat
  BY <1>2
<1>6. k < m => f[k + 1] = f[k] + Len(l) + 1 /\ k + 1 \in 1 .. m
  <2>1. ASSUME k < m PROVE f[k + 1] = f[k] + Len(l) + 1 /\ k + 1 \in 1 .. m
    <3>1. k \in 1 .. Len(L) - 1 /\ k + 1 \in 1 .. m
      BY <1>4, <2>1
    <3>2. Start(L, k + 1) = Start(L, k) + Len(l) + 1
      BY <1>1, <3>1, NextStart, Zenon
    <3>3. f[k + 1] = Start(L, k + 1)
      BY <3>1 DEF StartsOf
    <3> QED BY <1>4, <3>1, <3>2, <3>3, Zenon
  <2> QED BY <2>1
<1> HIDE DEF f, m, l
<1>7. f[k] \in Nat /\ x \in 0 .. Len(l) /\ k \in 1 .. m
  BY <1>3 DEF Rises, l, m
<1>8. \A s \in Q : s \in Int /\ f[k] >= s
  <2>1. ASSUME NEW s \in Q PROVE s \in Int /\ f[k] >= s
    <3>1. PICK i \in 1 .. m : s = f[i]
      BY <1>3, <2>1 DEF Rungs
    <3>2. f[i] \in Nat /\ f[i] <= f[k] + x
      BY <1>3, <1>4, <2>1, <3>1 DEF Rises
    <3>3. CASE i > k
      <4>1. k < m /\ k + 1 \in 1 .. m
        BY <1>4, <1>6, <1>7, <3>3
      <4>2. f[k + 1] <= f[i]
        <5>1. i = k + 1 \/ k + 1 < i
          BY <1>4, <3>3
        <5>2. k + 1 < i => f[k + 1] < f[i]
          BY <1>3, <4>1 DEF Rises
        <5>3. f[k + 1] \in Nat
          BY <1>3, <4>1 DEF Rises
        <5> QED BY <3>2, <5>1, <5>2, <5>3
      <4> QED BY <1>5, <1>6, <1>7, <3>2, <4>1, <4>2
    <3>4. CASE i <= k
      <4>1. i = k \/ f[i] < f[k]
        BY <1>3, <1>7, <3>4 DEF Rises
      <4> QED BY <1>7, <3>1, <3>2, <4>1
    <3> QED BY <1>7, <3>3, <3>4
  <2> QED BY <2>1
<1>9. f[k] \in Q /\ f[k] \in Int
  BY <1>3, <1>4, <1>7 DEF Rungs
<1> HIDE DEF Q
<1>10. Max(Q) = f[k]
  BY <1>8, <1>9, MaxIs, Zenon
<1>11. StartOf(b, p) = f[k]
  BY <1>10, Zenon DEF StartOf, Q
<1>12. EndOf(b, f[k]) = f[k] + Len(l)
  <2>1. PICK u, w : Row(L, k, T, u, w)
    BY <1>1, HasRow, Zenon
  <2>2. /\ u \in Seq(T) /\ w \in Seq(T) /\ b.text = u \o (l \o w) /\ Len(u) = f[k]
        /\ BeforeLine(w)
    BY <1>4, <2>1, Zenon DEF Row, l
  <2>3. \A i \in 1 .. Len(l) : l[i] # Newline
    BY <1>1, <1>2
  <2> DEFINE c == Buffer(u, l \o w, 0)
  <2>4. EndOf(c, Len(u)) = Len(u) + Len(l)
    BY <1>2, <2>2, <2>3, EndIs
  <2>5. c.text = b.text
    <3>1. c.text = u \o (l \o w)
      BY BufferFields, Zenon
    <3> QED BY <2>2, <3>1, Zenon
  <2> HIDE DEF c
  <2>6. EndOf(b, Len(u)) = EndOf(c, Len(u))
    BY <2>5, Zenon DEF EndOf
  <2> QED BY <2>2, <2>4, <2>6, Zenon
<1> QED BY <1>4, <1>7, <1>11, <1>12, Zenon DEF Bounds, l

(* What is written with the cursor somewhere else in the text.             *)
WrittenAt(e, v, k, x) ==
  Written(At(e, k, x), v) =
    [text |-> TextOf(e.lines), pos |-> Start(e.lines, k) + x, verdict |-> v]

LEMMA WrittenAtIs ==
  ASSUME NEW T, Newline \in T, NEW e, InText(e, T), NEW v,
         NEW k \in 1 .. Len(e.lines), NEW x \in 0 .. Len(e.lines[k])
  PROVE  WrittenAt(e, v, k, x)
<1> DEFINE f == At(e, k, x)
           L == e.lines
           n == <<>>
<1>1. InText(f, T) /\ f.lines = L /\ f.cy = k /\ f.cx = x
  <2>1. InText(f, T)
    BY AtInText, Zenon DEF InText
  <2>2. f.lines = L /\ f.cy = k /\ f.cx = x
    BY DEF InText, Editors, At
  <2> QED BY <2>1, <2>2
<1> HIDE DEF f
<1>2. PICK A, h, t, B : Place(f, T, A, h, t, B)
  BY <1>1, HasPlace, Zenon
<1>3. /\ A \in Seq(Seq(T)) /\ h \in Seq(T) /\ t \in Seq(T) /\ B \in Seq(Seq(T))
      /\ Stands(f, A, h, t, B)
  BY <1>2, Zenon DEF Place
<1>4. SubSeq(L, 1, k - 1) = A /\ SubSeq(Line(f), 1, x) = h
  <2>1. Around(f, T, A, h, t, B)
    BY <1>3, PlaceFields, Zenon
  <2> QED BY <1>1, <2>1, Zenon DEF Around
<1>5. Ahead(f) = InFront(A, h) /\ Len(h) = x
  BY <1>1, <1>3, <1>4, Zenon DEF Ahead, InFront, Stands
<1>6. n \in Seq(T) /\ n \o h = h
  BY <1>3
<1> HIDE DEF n
<1> DEFINE u == InFront(A, n)
<1>7. InFront(A, h) = u \o h
  <2>1. GrowsBy(A, n, h)
    BY <1>3, <1>6, GrownBy, Zenon
  <2> QED BY <1>6, <2>1, Zenon DEF GrowsBy
<1>8. u \in Seq(T)
  BY <1>3, <1>6, FrontIs, Zenon
<1> HIDE DEF u
<1>9. Len(u \o h) = Len(u) + Len(h)
  BY <1>3, <1>8
<1>10. Len(Ahead(f)) = Start(L, k) + x
  BY <1>4, <1>5, <1>7, <1>9, Zenon DEF Start, u, n
<1> QED BY <1>1, <1>10, Zenon DEF WrittenAt, Written, Text, f

(* The cursor in a column of a line, as the two say it.                    *)
Leads(e, v, k, c) ==
  Written(At(e, k, Least(c, Len(e.lines[k]))), v) = Within(Written(e, v), Start(e.lines, k), c)

LEMMA WithinIs ==
  ASSUME NEW S, NEW T, NEW e, Plain(e.lines, S, T), InText(e, T), NEW v,
         NEW k \in 1 .. Len(e.lines), NEW c \in Nat
  PROVE  Leads(e, v, k, c)
<1> DEFINE L == e.lines
           b == Written(e, v)
           s == Start(L, k)
           n == Len(L[k])
           x == Least(c, n)
           q == s + x
<1>1. Newline \in T
  BY Zenon DEF Plain
<1>2. n \in Nat
  BY Fields
<1>3. x \in 0 .. n /\ 0 \in 0 .. n /\ (x = c \/ x = n) /\ x <= c /\ x <= n
  BY <1>2 DEF Least
<1>4. b.text = TextOf(L)
  BY DEF Written, Text
<1>5. s \in Nat /\ EndOf(b, s) = s + n
  <2>1. Bounds(b, L, k, 0) /\ s \in Nat
    BY <1>3, <1>4, BoundsAre, Zenon
  <2> QED BY <2>1, Zenon DEF Bounds
<1>6. WrittenAt(e, v, k, x)
  <2> HIDE DEF x
  <2> QED BY <1>1, <1>3, WrittenAtIs, Zenon
<1> HIDE DEF s, n, x
<1>7. Min({s + c, s + n}) = q
  <2> DEFINE Q == {s + c, s + n}
  <2>1. q \in Q /\ q \in Int /\ \A z \in Q : z \in Int /\ q <= z
    BY <1>2, <1>3, <1>5
  <2> HIDE DEF Q, q
  <2>2. Min(Q) = q
    BY <2>1, MinIs, Zenon
  <2> QED BY <2>2 DEF Q
<1> HIDE DEF q
<1>8. [b EXCEPT !.pos = q] = [text |-> TextOf(L), pos |-> q, verdict |-> v]
  <2> DEFINE r == [b EXCEPT !.pos = q]
             y == TextOf(L)
  <2>1. b = [text |-> y, pos |-> Len(Ahead(e)), verdict |-> v]
    BY DEF Written, Text
  <2> HIDE DEF b, y
  <2>2. r \in [text : {y}, pos : {q}, verdict : {v}]
    BY <2>1
  <2> HIDE DEF r
  <2>3. r = [text |-> y, pos |-> q, verdict |-> v]
    BY <2>2
  <2> QED BY <2>3 DEF r, y
<1> HIDE DEF b
<1>9. Within(b, s, c) = [b EXCEPT !.pos = q]
  BY <1>5, <1>7, Zenon DEF Within
<1>10. Written(At(e, k, x), v) = [text |-> TextOf(L), pos |-> q, verdict |-> v]
  BY <1>6, Zenon DEF WrittenAt, q, s
<1> QED BY <1>8, <1>9, <1>10, Zenon DEF Leads, b, s, n, x

(* Where an editor's cursor is in its text.                                *)
Stays(e, v, b) ==
  /\ b = Written(e, v) /\ b.text = TextOf(e.lines)
  /\ b.pos = Start(e.lines, e.cy) + e.cx /\ StartOf(b, b.pos) = Start(e.lines, e.cy)
  /\ Column(b) = e.cx

LEMMA StaysIs ==
  ASSUME NEW S, NEW T, NEW e, Plain(e.lines, S, T), InText(e, T), NEW v
  PROVE  Stays(e, v, Written(e, v))
<1> DEFINE L == e.lines
           b == Written(e, v)
           k == e.cy
           x == e.cx
<1>1. Newline \in T
  BY Zenon DEF Plain
<1>2. k \in 1 .. Len(L) /\ x \in 0 .. Len(L[k]) /\ x \in Nat
  BY Fields
<1>3. At(e, k, x) = e
  BY DEF At, InText, Editors
<1>4. WrittenAt(e, v, k, x)
  BY <1>1, <1>2, WrittenAtIs, Zenon
<1>5. b = [text |-> TextOf(L), pos |-> Start(L, k) + x, verdict |-> v]
  BY <1>3, <1>4, Zenon DEF WrittenAt
<1> HIDE DEF b
<1>6. b.text = TextOf(L) /\ b.pos = Start(L, k) + x
  BY <1>5
<1> HIDE DEF L, k, x
<1>7. StartOf(b, Start(L, k) + x) = Start(L, k) /\ Start(L, k) \in Nat
  <2>1. Bounds(b, L, k, x) /\ Start(L, k) \in Nat
    BY <1>2, <1>6, BoundsAre, Zenon DEF L
  <2> QED BY <2>1, Zenon DEF Bounds
<1>8. (Start(L, k) + x) - Start(L, k) = x
  BY <1>2, <1>7
<1>9. Column(b) = x
  BY <1>6, <1>7, <1>8, Zenon DEF Column
<1> QED BY <1>6, <1>7, <1>9, Zenon DEF Stays, b, L, k, x

(* n lines up or down.                                                     *)
Climbs(e, v, n) == Written(ToLine(e, e.cy + n), v) = Lines(Written(e, v), n)

LEMMA ToLineIs ==
  ASSUME NEW S, NEW T, NEW e, Plain(e.lines, S, T), InText(e, T), NEW v, NEW n \in Int
  PROVE  Climbs(e, v, n)
<1> DEFINE L == e.lines
           m == Len(L)
           f == StartsOf(L)
           b == Written(e, v)
           y == e.cy
           k == Most(1, Least(y + n, m))
<1>1. Newline \in T /\ L \in Seq(Seq(T)) /\ L # <<>>
  BY Zenon DEF Plain
<1>2. y \in 1 .. m /\ m \in Nat /\ y \in Nat /\ e.cx \in Nat
  BY Fields
<1>3. k \in 1 .. m
  BY <1>2 DEF Most, Least
<1>4. Rises(f, 1, m) /\ Starts(b) = Rungs(f, 1, m)
  <2>1. b.text = TextOf(L)
    BY DEF Written, Text
  <2> QED BY <1>1, <2>1, StartsRise, StartsAre, Zenon
<1>5. \A i \in 1 .. m : f[i] = Start(L, i)
  BY DEF StartsOf
<1>6. StartOf(b, b.pos) = f[y] /\ Column(b) = e.cx
  <2>1. Stays(e, v, b)
    BY StaysIs, Zenon
  <2> QED BY <1>2, <1>5, <2>1, Zenon DEF Stays
<1> DEFINE above == {s \in Starts(b) : s < f[y]}
           below == {s \in Starts(b) : s > f[y]}
<1>7. Lines(b, n) =
        CASE n < 0 /\ above # {} -> Within(b, Kth(above, Max({1, Cardinality(above) + n + 1})), e.cx)
          [] n > 0 /\ below # {} -> Within(b, Kth(below, Min({n, Cardinality(below)})), e.cx)
          [] OTHER -> b
  <2> HIDE DEF b, f, y
  <2> QED BY <1>6, Zenon DEF Lines
<1>8. Written(ToLine(e, y + n), v) = Within(b, f[k], e.cx)
  <2>1. ToLine(e, y + n) = At(e, k, Least(e.cx, Len(L[k])))
    BY Zenon DEF ToLine
  <2> HIDE DEF k
  <2>2. Leads(e, v, k, e.cx)
    BY <1>2, <1>3, WithinIs, Zenon
  <2> QED BY <1>3, <1>5, <2>1, <2>2, Zenon DEF Leads
<1>9. Within(b, f[y], e.cx) = b
  <2>1. Leads(e, v, y, e.cx)
    BY <1>2, WithinIs, Zenon
  <2>2. At(e, y, Least(e.cx, Len(L[y]))) = e
    <3>1. e.cx <= Len(L[y]) /\ Len(L[y]) \in Nat
      BY Fields
    <3>2. Least(e.cx, Len(L[y])) = e.cx
      BY <1>2, <3>1 DEF Least
    <3>3. At(e, y, e.cx) = e
      BY DEF At, InText, Editors
    <3> QED BY <3>2, <3>3, Zenon
  <2> QED BY <1>2, <1>5, <2>1, <2>2, Zenon DEF Leads
<1> HIDE DEF b, f, m
<1>10. above = Rungs(f, 1, y - 1) /\ below = Rungs(f, y + 1, m)
  <2>1. \A i \in 1 .. m : /\ f[i] < f[y] <=> i < y
                          /\ f[i] > f[y] <=> i > y
    BY <1>2, <1>4 DEF Rises
  <2>2. \A i : /\ i \in 1 .. m /\ i < y <=> i \in 1 .. y - 1
               /\ i \in 1 .. m /\ i > y <=> i \in y + 1 .. m
    BY <1>2
  <2> HIDE DEF y
  <2> QED BY <1>4, <2>1, <2>2 DEF Rungs
<1> DEFINE c == y - 1
           d == y + 1
<1>11. /\ c \in Nat /\ d \in Nat /\ 1 <= c + 1 /\ d <= m + 1
       /\ Rises(f, 1, c) /\ Rises(f, d, m) /\ c + 1 - 1 = c /\ m + 1 - d = m - y
       /\ 1 \in Nat /\ y = c + 1
  BY <1>2, <1>4 DEF Rises
<1> HIDE DEF c, d, above, below
<1>12. Cardinality(above) = c /\ Cardinality(below) = m - y
  <2>1. Counts(Rungs(f, 1, c), c + 1 - 1) /\ Counts(Rungs(f, d, m), m + 1 - d)
    BY <1>2, <1>11, RungsCount, Zenon
  <2> QED BY <1>10, <1>11, <2>1, Zenon DEF Counts, c, d
<1>13. CASE n < 0 /\ c # 0
  <2> DEFINE Q == {1, c + n + 1}
  <2>1. k \in 1 .. c /\ k \in Q /\ k \in Int /\ \A z \in Q : z \in Int /\ k >= z
    BY <1>2, <1>11, <1>13 DEF Most, Least
  <2> HIDE DEF k, Q
  <2>2. Max(Q) = k
    BY <2>1, MaxIs, Zenon
  <2>3. k = k + 1 - 1
    BY <2>1
  <2>4. IsKth(Rungs(f, 1, c), k, f[k])
    BY <1>11, <2>1, <2>3, KthIs, Zenon
  <2>5. above # {}
    <3>1. f[k] \in Rungs(f, 1, c)
      BY <2>1 DEF Rungs
    <3> QED BY <1>10, <3>1 DEF c
  <2>6. Lines(b, n) = Within(b, Kth(above, Max({1, Cardinality(above) + n + 1})), e.cx)
    BY <1>7, <1>13, <2>5
  <2>7. Lines(b, n) = Within(b, f[k], e.cx)
    BY <1>10, <1>12, <2>2, <2>4, <2>6, Zenon DEF IsKth, Q, c
  <2> QED BY <1>8, <2>7, Zenon DEF Climbs, b
<1>14. CASE n > 0 /\ y # m
  <2> DEFINE Q == {n, m - y}
             i == k - y
  <2>1. i \in Q /\ i \in Int /\ (\A z \in Q : z \in Int /\ i <= z) /\ k \in d .. m
    BY <1>2, <1>14 DEF Most, Least, d
  <2>2. i = k + 1 - d
    BY <1>2, <1>3 DEF d
  <2> HIDE DEF k, Q, i
  <2>3. Min(Q) = i
    BY <2>1, MinIs, Zenon
  <2>4. IsKth(Rungs(f, d, m), i, f[k])
    BY <1>2, <1>11, <2>1, <2>2, KthIs, Zenon
  <2>5. below # {}
    <3>1. f[k] \in Rungs(f, d, m)
      BY <2>1 DEF Rungs
    <3> QED BY <1>10, <3>1 DEF d
  <2>6. Lines(b, n) = Within(b, Kth(below, Min({n, Cardinality(below)})), e.cx)
    BY <1>7, <1>14, <2>5
  <2>7. Lines(b, n) = Within(b, f[k], e.cx)
    BY <1>10, <1>12, <2>3, <2>4, <2>6, Zenon DEF IsKth, Q, d
  <2> QED BY <1>8, <2>7, Zenon DEF Climbs, b
<1>15. CASE ~(n < 0 /\ c # 0) /\ ~(n > 0 /\ y # m)
  <2>1. k = y
    BY <1>2, <1>11, <1>15 DEF Most, Least
  <2>2. ~(n < 0 /\ above # {}) /\ ~(n > 0 /\ below # {})
    <3>1. c = 0 => above = {}
      BY <1>10, <1>11 DEF c, Rungs
    <3>2. y = m => below = {}
      BY <1>2, <1>10 DEF Rungs
    <3> QED BY <1>15, <3>1, <3>2
  <2>3. Lines(b, n) = b
    BY <1>7, <2>2
  <2> QED BY <1>8, <1>9, <2>1, <2>3, Zenon DEF Climbs, b
<1> QED BY <1>13, <1>14, <1>15

(* A cell of the viewport.                                                 *)
Clicks(e, v, x, y) ==
  Written(Clicked(e, x, y), v) = Cell(Written(e, v), e.top + y, e.left + x)

LEMMA ClickedIs ==
  ASSUME NEW S, NEW T, NEW e, Plain(e.lines, S, T), InText(e, T), NEW v,
         NEW x, NEW y, e.top + y \in Nat, e.left + x \in Nat
  PROVE  Clicks(e, v, x, y)
<1> DEFINE L == e.lines
           m == Len(L)
           f == StartsOf(L)
           b == Written(e, v)
           r == e.top + y
           c == e.left + x
           k == Most(1, Least(r + 1, m))
<1>1. Newline \in T /\ L \in Seq(Seq(T)) /\ L # <<>>
  BY Zenon DEF Plain
<1>2. m \in Nat \ {0} /\ r \in Nat /\ c \in Nat
  BY Fields
<1>3. k \in 1 .. m
  BY <1>2 DEF Most, Least
<1>4. Rises(f, 1, m) /\ Starts(b) = Rungs(f, 1, m)
  <2>1. b.text = TextOf(L)
    BY DEF Written, Text
  <2> QED BY <1>1, <2>1, StartsRise, StartsAre, Zenon
<1>5. f[k] = Start(L, k)
  BY <1>3 DEF StartsOf
<1>6. Clicked(e, x, y) = At(e, k, Least(c, Len(L[k])))
  <2>1. Clicked(e, x, y) = At(e, k, Most(0, Least(c, Len(L[k]))))
    BY Zenon DEF Clicked
  <2>2. Len(L[k]) \in Nat
    BY <1>3, Fields
  <2> HIDE DEF k, c, L
  <2>3. Most(0, Least(c, Len(L[k]))) = Least(c, Len(L[k]))
    BY <1>2, <2>2 DEF Most, Least
  <2> QED BY <2>1, <2>3, Zenon DEF k, c, L
<1> HIDE DEF b, f, k, m, r, c
<1>7. Leads(e, v, k, c)
  BY <1>2, <1>3, WithinIs, Zenon DEF m
<1>8. Cardinality(Rungs(f, 1, m)) = m
  <2>1. 1 \in Nat /\ m \in Nat /\ 1 <= m + 1 /\ m + 1 - 1 = m
    BY <1>2
  <2>2. Counts(Rungs(f, 1, m), m + 1 - 1)
    BY <1>4, <2>1, RungsCount, Zenon
  <2> QED BY <2>1, <2>2, Zenon DEF Counts
<1>9. Min({r + 1, m}) = k
  <2> DEFINE Q == {r + 1, m}
  <2>1. k \in Q /\ k \in Int /\ \A z \in Q : z \in Int /\ k <= z
    BY <1>2 DEF k, Most, Least
  <2> HIDE DEF Q
  <2>2. Min(Q) = k
    BY <2>1, MinIs, Zenon
  <2> QED BY <2>2 DEF Q
<1>10. Kth(Starts(b), k) = f[k]
  <2>1. k = k + 1 - 1 /\ 1 \in Nat /\ m \in Nat
    BY <1>2, <1>3
  <2>2. IsKth(Rungs(f, 1, m), k, f[k])
    BY <1>3, <1>4, <2>1, KthIs, Zenon
  <2> QED BY <1>4, <2>2, Zenon DEF IsKth
<1>11. Cell(b, r, c) = Within(b, f[k], c)
  BY <1>4, <1>8, <1>9, <1>10, Zenon DEF Cell
<1> QED BY <1>5, <1>6, <1>7, <1>11, Zenon DEF Clicks, Leads, b, r, c

-----------------------------------------------------------------------------
(* The editor is a text buffer.  On lines without line ends every          *)
(* operation of editor.go does to the text and to the place of the cursor  *)
(* in it what it means for a text that knows no lines: joining, splitting  *)
(* and clamping, line by line, amount to one character put or erased, one  *)
(* passed over, the start or the end of the line, the same column of       *)
(* another line as far as there is one.                                    *)
THEOREM EditorIsTextBuffer ==
  ASSUME NEW S, Newline \notin S, NEW e, InText(e, S), NEW v,
         NEW t, t = Written(e, v)
  PROVE  /\ \A c \in S : Written(Insert(e, c), v) = Put(t, c)
         /\ Written(Split(e), v) = Put(t, LineEnd)
         /\ Written(Backspace(e), v) = EraseBehind(t)
         /\ Written(Delete(e), v) = EraseAhead(t)
         /\ Written(MoveLeft(e), v) = To(t, t.pos - 1)
         /\ Written(MoveRight(e), v) = To(t, t.pos + 1)
         /\ Written(Home(e), v) = To(t, StartOf(t, t.pos))
         /\ Written(End(e), v) = To(t, EndOf(t, t.pos))
         /\ \A n \in Int : Written(ToLine(e, e.cy + n), v) = Lines(t, n)
         /\ \A x, y : e.top + y \in Nat /\ e.left + x \in Nat =>
              Written(Clicked(e, x, y), v) = Cell(t, e.top + y, e.left + x)
<1> DEFINE T == S \cup {Newline}
<1>1. S \subseteq T /\ Newline \in T
  BY Zenon
<1> HIDE DEF T
<1>2. InText(e, T)
  BY <1>1, InTextOfMore, Zenon
<1>3. Plain(e.lines, S, T)
  <2>1. /\ e.lines \in Seq(Seq(S)) /\ e.lines \in Seq(Seq(T)) /\ Len(e.lines) \in Nat \ {0}
    BY <1>2, Fields, Zenon
  <2>2. e.lines # <<>>
    BY <2>1
  <2> QED BY <1>1, <2>1, <2>2, Zenon DEF Plain
<1>4. \A c \in S : Written(Insert(e, c), v) = Put(t, c)
  <2> SUFFICES ASSUME NEW c \in S
               PROVE  Written(Insert(e, c), v) = Put(t, c)
    OBVIOUS
  <2>1. c \in T
    BY <1>1, Zenon
  <2>2. Puts(e, Insert(e, c), v, c)
    BY <1>1, <1>2, <2>1, InsertIsPut, Zenon
  <2> QED BY <2>2, Zenon DEF Puts
<1>5. Written(Split(e), v) = Put(t, LineEnd)
  BY <1>1, <1>2, SplitIsPut, Zenon DEF Puts
<1>6. Written(Backspace(e), v) = EraseBehind(t) /\ Written(MoveLeft(e), v) = To(t, t.pos - 1)
  BY <1>1, <1>2, BackspaceIsErase, Zenon DEF Erases
<1>7. Written(Delete(e), v) = EraseAhead(t) /\ Written(MoveRight(e), v) = To(t, t.pos + 1)
  BY <1>1, <1>2, DeleteIsErase, Zenon DEF ErasesAhead
<1>8. /\ Written(Home(e), v) = To(t, StartOf(t, t.pos))
      /\ Written(End(e), v) = To(t, EndOf(t, t.pos))
  BY HomeIsTo, EndIsTo, Zenon DEF Goes
<1>9. \A n \in Int : Written(ToLine(e, e.cy + n), v) = Lines(t, n)
  <2> SUFFICES ASSUME NEW n \in Int
               PROVE  Written(ToLine(e, e.cy + n), v) = Lines(t, n)
    OBVIOUS
  <2>1. Climbs(e, v, n)
    BY <1>2, <1>3, ToLineIs, Zenon
  <2> QED BY <2>1, Zenon DEF Climbs
<1>10. \A x, y : e.top + y \in Nat /\ e.left + x \in Nat =>
              Written(Clicked(e, x, y), v) = Cell(t, e.top + y, e.left + x)
  BY <1>2, <1>3, ClickedIs, Zenon DEF Clicks
<1> QED BY <1>4, <1>5, <1>6, <1>7, <1>8, <1>9, <1>10, Zenon

-----------------------------------------------------------------------------
(***************************************************************************)
(* Part three.  The UI does what the keys mean.                            *)
(***************************************************************************)

(* An edit leaves what is scrolled away alone.                             *)
SameView(e, f) == f.top = e.top /\ f.left = e.left

LEMMA AtView ==
  ASSUME NEW S, NEW e \in Editors(S), NEW y, NEW x
  PROVE  SameView(e, At(e, y, x))
BY DEF SameView, At, Editors

LEMMA LinesView ==
  ASSUME NEW S, NEW e \in Editors(S), NEW l
  PROVE  SameView(e, [e EXCEPT !.lines = l])
BY DEF SameView, Editors

LEMMA LineView ==
  ASSUME NEW S, NEW e \in Editors(S), NEW l, NEW x
  PROVE  SameView(e, WithLine(e, l, x))
BY DEF SameView, WithLine, Editors

LEMMA BothView ==
  ASSUME NEW S, NEW e \in Editors(S), NEW l, NEW y, NEW x
  PROVE  SameView(e, At([e EXCEPT !.lines = l], y, x))
BY DEF SameView, At, Editors

LEMMA MovesView ==
  ASSUME NEW S, NEW e \in Editors(S), NEW x, NEW y
  PROVE  /\ SameView(e, e) /\ SameView(e, MoveLeft(e)) /\ SameView(e, MoveRight(e))
         /\ SameView(e, Home(e)) /\ SameView(e, End(e))
         /\ SameView(e, ToLine(e, y)) /\ SameView(e, Clicked(e, x, y))
<1>1. SameView(e, e)
  BY Zenon DEF SameView
<1>2. SameView(e, MoveLeft(e)) /\ SameView(e, MoveRight(e))
  BY <1>1, AtView, Zenon DEF MoveLeft, MoveRight
<1>3. SameView(e, Home(e)) /\ SameView(e, End(e))
  BY AtView, Zenon DEF Home, End
<1>4. SameView(e, ToLine(e, y)) /\ SameView(e, Clicked(e, x, y))
  BY AtView, Zenon DEF ToLine, Clicked
<1> QED BY <1>1, <1>2, <1>3, <1>4, Zenon

LEMMA EditsView ==
  ASSUME NEW S, NEW e \in Editors(S), NEW c
  PROVE  /\ SameView(e, Insert(e, c)) /\ SameView(e, Split(e))
         /\ SameView(e, Backspace(e)) /\ SameView(e, Delete(e))
<1>1. SameView(e, e)
  BY Zenon DEF SameView
<1>2. SameView(e, Insert(e, c))
  <2>1. Insert(e, c) = WithLine(e, InsertAt(e.lines[e.cy], e.cx + 1, c), e.cx + 1)
    BY Zenon DEF Insert, WithLine, Exchanged
  <2> QED BY <2>1, LineView, Zenon
<1>3. SameView(e, Split(e))
  <2> DEFINE h == SubSeq(Line(e), 1, e.cx)
             t == SubSeq(Line(e), e.cx + 1, Len(Line(e)))
             l == InsertAt([e.lines EXCEPT ![e.cy] = h], e.cy + 1, t)
  <2>1. Split(e) = At([e EXCEPT !.lines = l], e.cy + 1, 0)
    BY Zenon DEF Split
  <2> HIDE DEF l
  <2> QED BY <2>1, BothView, Zenon
<1>4. SameView(e, Backspace(e))
  <2> DEFINE l == Joined(e.lines, e.cy - 1)
             y == e.cy - 1
             x == Len(e.lines[e.cy - 1])
  <2>1. \/ Backspace(e) = e
        \/ Backspace(e) = At([e EXCEPT !.lines = l], y, x)
        \/ Backspace(e) = WithLine(e, RemoveAt(e.lines[e.cy], e.cx), e.cx - 1)
    BY Zenon DEF Backspace, WithLine, Exchanged
  <2> HIDE DEF l, y, x
  <2> QED BY <1>1, <2>1, LineView, BothView, Zenon
<1>5. SameView(e, Delete(e))
  <2> DEFINE l == Joined(e.lines, e.cy)
             m == Exchanged(e.lines, e.cy, RemoveAt(e.lines[e.cy], e.cx + 1))
  <2>1. \/ Delete(e) = e
        \/ Delete(e) = [e EXCEPT !.lines = l]
        \/ Delete(e) = [e EXCEPT !.lines = m]
    BY Zenon DEF Delete, Exchanged
  <2> HIDE DEF l, m
  <2> QED BY <1>1, <2>1, LinesView, Zenon
<1> QED BY <1>2, <1>3, <1>4, <1>5, Zenon

-----------------------------------------------------------------------------
(* A text of plain lines, of which no more is scrolled away than there is. *)
Plainly == Nat \ {Newline}
Good(e) == InText(e, Plainly) /\ e.top \in Nat /\ e.left \in Nat

LEMMA GoodIsPlain ==
  ASSUME NEW e, Good(e)
  PROVE  Plain(e.lines, Plainly, Nat) /\ InText(e, Nat) /\ InText(e, Plainly)
<1>1. Plainly \subseteq Nat /\ Newline \notin Plainly /\ Newline \in Nat
  BY DEF Plainly, Newline
<1> HIDE DEF Plainly
<1>2. InText(e, Plainly) /\ InText(e, Nat)
  BY <1>1, InTextOfMore, Zenon DEF Good
<1>3. e.lines \in Seq(Seq(Plainly)) /\ e.lines \in Seq(Seq(Nat)) /\ e.lines # <<>>
  <2>1. e.lines \in Seq(Seq(Plainly)) /\ e.lines \in Seq(Seq(Nat)) /\ Len(e.lines) \in Nat \ {0}
    BY <1>2, Fields, Zenon
  <2>2. e.lines # <<>>
    BY <2>1
  <2> QED BY <2>1, <2>2
<1> QED BY <1>1, <1>2, <1>3, Zenon DEF Plain

LEMMA ViewIsGood ==
  ASSUME NEW e, Good(e), NEW f, InText(f, Plainly), SameView(e, f)
  PROVE  Good(f)
BY Zenon DEF Good, SameView

(* It is drawn: the same text, with the cursor where it was.               *)
LEMMA DrawnIsGood ==
  ASSUME NEW e, Good(e), NEW v
  PROVE  Good(Drawn(e)) /\ Written(Drawn(e), v) = Written(e, v)
<1> DEFINE w == Columns
           h == Rows
           f == EnsureVisible(e, w, h)
           top == IF e.cy - 1 < e.top THEN e.cy - 1
                  ELSE IF e.cy - 1 >= e.top + h THEN e.cy - h ELSE e.top
           left == IF e.cx < e.left THEN e.cx
                   ELSE IF e.cx >= e.left + w THEN e.cx - w + 1 ELSE e.left
<1>1. w \in Nat \ {0} /\ h \in Nat \ {0}
  BY TerminalAssumption, Zenon
<1>2. InText(e, Plainly) /\ e.top \in Nat /\ e.left \in Nat
  BY Zenon DEF Good
<1>3. e.cy \in Nat /\ e.cy # 0 /\ e.cx \in Nat
  <2>1. e.cy \in Nat /\ e.cy \in 1 .. Len(e.lines) /\ e.cx \in Nat
    BY <1>2, Fields, Zenon
  <2> QED BY <2>1
<1> HIDE DEF w, h
<1>4. top \in Nat /\ left \in Nat
  BY <1>1, <1>2, <1>3
<1>5. f = [e EXCEPT !.top = top, !.left = left]
  BY Zenon DEF EnsureVisible
<1> HIDE DEF top, left
<1>6. /\ f.lines = e.lines /\ f.cy = e.cy /\ f.cx = e.cx
      /\ f.top = top /\ f.left = left
  BY <1>2, <1>5 DEF InText, Editors
<1>7. InText(f, Plainly)
  BY <1>1, <1>2, EnsureVisibleInText, Zenon
<1>8. Drawn(e) = f
  BY Zenon DEF Drawn, w, h
<1> HIDE DEF f
<1>9. Good(f)
  BY <1>4, <1>6, <1>7, Zenon DEF Good
<1>10. Written(f, v) = Written(e, v)
  BY <1>6, Zenon DEF Written, Text, Ahead, Line
<1> QED BY <1>8, <1>9, <1>10, Zenon

-----------------------------------------------------------------------------
(* A key does what it is meant to do.                                      *)
Unjudged(u) == [u EXCEPT !.verdict = "none"]

LEMMA WrittenUnjudged ==
  ASSUME NEW e, NEW v
  PROVE  Unjudged(Written(e, v)) = Written(e, "none")
BY DEF Unjudged, Written

Typing == {"x", "alt-x", "e acute", "enter", "tab", "backspace", "delete"}
Moving == {"left", "right", "ctrl-right", "home", "end", "up", "down", "pgup", "pgdn"}
Pointing == {"wheel", "click", "old click"}
Leaving == {"esc", "send"}
Rest == Typing \cup Moving \cup Pointing \cup Leaving

(* What is meant, m, of the text t.                                        *)
MeantTyping(key, t, m) ==
  /\ key \in {"x", "alt-x"} => m = Put(t, 120)
  /\ key = "e acute" => m = Put(t, 233)
  /\ key = "enter" => m = Put(t, LineEnd)
  /\ key = "tab" => m = Put(Put(t, 32), 32)
  /\ key = "backspace" => m = EraseBehind(t)
  /\ key = "delete" => m = EraseAhead(t)

MeantMoving(key, t, m) ==
  /\ key = "left" => m = To(t, t.pos - 1)
  /\ key \in {"right", "ctrl-right"} => m = To(t, t.pos + 1)
  /\ key = "home" => m = To(t, StartOf(t, t.pos))
  /\ key = "end" => m = To(t, EndOf(t, t.pos))
  /\ key = "up" => m = Lines(t, -1)
  /\ key = "down" => m = Lines(t, 1)
  /\ key = "pgdn" => m = Lines(t, Rows)
  /\ key = "pgup" => m = Lines(t, -Rows)

MeantPointing(key, e, t, m) ==
  /\ key = "wheel" => m = Lines(t, 3)
  /\ key \in {"click", "old click"} => m = Cell(t, e.top, e.left + 1)

LEMMA MeansTyping ==
  ASSUME NEW e, NEW u, NEW key
  PROVE  MeantTyping(key, Unjudged(u), Means(e, u, key))
BY DEF Means, Unjudged, MeantTyping

LEMMA MeansMoving ==
  ASSUME NEW e, NEW u, NEW key
  PROVE  MeantMoving(key, Unjudged(u), Means(e, u, key))
BY DEF Means, Unjudged, MeantMoving

LEMMA MeansPointing ==
  ASSUME NEW e, NEW u, NEW key
  PROVE  MeantPointing(key, e, Unjudged(u), Means(e, u, key))
BY DEF Means, Unjudged, MeantPointing

LEMMA MeansLeaving ==
  ASSUME NEW e, NEW u, NEW key \in Leaving
  PROVE  Means(e, u, key) = [text |-> Text(Opened), pos |-> 0,
                             verdict |-> IF key = "esc" THEN "dropped" ELSE "sent"]
BY DEF Means, Leaving

LEMMA MeansNothing ==
  ASSUME NEW e, NEW u, NEW key, key \notin Rest
  PROVE  Means(e, u, key) = Unjudged(u)
BY DEF Means, Unjudged, Rest, Typing, Moving, Pointing, Leaving

(* The events the keys are told as.                                        *)
Ignored(ev) == \/ ev.kind = "mouse" /\ ev.does \notin {"wheel", "press"}
               \/ ev.kind = "key" /\ ev.name = "unknown" /\ ev.rune = 0

ToldTyping(key, ev) ==
  /\ ev.kind = "key"
  /\ key \in {"x", "alt-x"} => Types(ev, 120)
  /\ key = "e acute" => Types(ev, 233)
  /\ key \notin {"x", "alt-x", "e acute"} => ev.name = key

ToldMoving(key, ev) ==
  /\ ev.kind = "key"
  /\ ev.name = IF key = "ctrl-right" THEN "right" ELSE key

ToldPointing(key, ev) ==
  /\ ev.kind = "mouse"
  /\ key = "wheel" => ev.does = "wheel" /\ ev.wheel = 1
  /\ key # "wheel" => /\ ev.does = "press" /\ ev.x \in 1 .. Columns + 9
                      /\ CellX(ev) = 1 /\ CellY(ev) = 0

LEMMA TellsWhat ==
  ASSUME NEW key, NEW ev, Tells(key, ev)
  PROVE  /\ key \in Typing => ToldTyping(key, ev)
         /\ key \in Moving => ToldMoving(key, ev)
         /\ key \in Pointing => ToldPointing(key, ev)
         /\ key = "esc" => Drops(ev) /\ ~Sends(ev)
         /\ key = "send" => Sends(ev) /\ ~Drops(ev)
         /\ key \notin Rest => Ignored(ev)
<1>1. key \in Typing => ToldTyping(key, ev)
  BY DEF Tells, Types, Names, Typing, ToldTyping
<1>2. key \in Moving => ToldMoving(key, ev)
  BY DEF Tells, Names, Moving, ToldMoving
<1>3. key \in Pointing => ToldPointing(key, ev)
  BY DEF Tells, Pointing, ToldPointing
<1>4. key = "esc" => Drops(ev) /\ ~Sends(ev)
  BY DEF Tells, Names, Drops, Sends
<1>5. key = "send" => Sends(ev) /\ ~Drops(ev)
  BY DEF Tells, Drops, Sends
<1>6. key \notin Rest => Ignored(ev)
  BY DEF Tells, Ignored, Rest, Typing, Moving, Pointing, Leaving
<1> QED BY <1>1, <1>2, <1>3, <1>4, <1>5, <1>6, Zenon

(* What the handlers make of them.                                         *)
Handled(ev, e, h) ==
  /\ ev.name = "up"        => h = ToLine(e, e.cy - 1)
  /\ ev.name = "down"      => h = ToLine(e, e.cy + 1)
  /\ ev.name = "left"      => h = MoveLeft(e)
  /\ ev.name = "right"     => h = MoveRight(e)
  /\ ev.name = "home"      => h = Home(e)
  /\ ev.name = "end"       => h = End(e)
  /\ ev.name = "pgup"      => h = ToLine(e, e.cy - Rows)
  /\ ev.name = "pgdn"      => h = ToLine(e, e.cy + Rows)
  /\ ev.name = "enter"     => h = Split(e)
  /\ ev.name = "tab"       => h = Insert(Insert(e, 32), 32)
  /\ ev.name = "backspace" => h = Backspace(e)
  /\ ev.name = "delete"    => h = Delete(e)
  /\ ev.name = "unknown" /\ ev.rune = 0 => h = e

LEMMA HandlesNamed ==
  ASSUME NEW e, NEW ev
  PROVE  Handled(ev, e, HandleKey(e, ev))
BY DEF HandleKey, Handled

LEMMA HandlesTyped ==
  ASSUME NEW e, NEW ev, NEW c \in {120, 233}, Types(ev, c)
  PROVE  HandleKey(e, ev) = Insert(e, c)
<1>1. ev.name = "" /\ ev.rune = c /\ ~ev.ctrl
  BY Zenon DEF Types
<1>2. c # 0
  OBVIOUS
<1> DEFINE i == IF ev.rune # 0 /\ ~ev.ctrl THEN Insert(e, ev.rune) ELSE e
<1>3. HandleKey(e, ev) = i
  BY <1>1 DEF HandleKey
<1> QED BY <1>1, <1>2, <1>3, Zenon

LEMMA HandlesPointed ==
  ASSUME NEW e, NEW ev
  PROVE  /\ ev.does = "wheel" /\ ev.wheel = 1 => HandleMouse(e, ev) = ToLine(e, e.cy + 3)
         /\ ev.does = "press" /\ ev.x \in 1 .. Columns + 9 /\ CellX(ev) = 1 /\ CellY(ev) = 0
              => HandleMouse(e, ev) = Clicked(e, 1, 0)
         /\ ev.does \notin {"wheel", "press"} => HandleMouse(e, ev) = e
<1>1. ev.does = "wheel" /\ ev.wheel = 1 => HandleMouse(e, ev) = ToLine(e, e.cy + 3)
  BY DEF HandleMouse
<1>2. ASSUME ev.does = "press", ev.x \in 1 .. Columns + 9, CellX(ev) = 1, CellY(ev) = 0
      PROVE  HandleMouse(e, ev) = Clicked(e, 1, 0)
  <2>1. 0 \in 0 .. Rows - 1
    BY TerminalAssumption
  <2> QED BY <1>2, <2>1 DEF HandleMouse
<1>3. ev.does \notin {"wheel", "press"} => HandleMouse(e, ev) = e
  BY DEF HandleMouse
<1> QED BY <1>1, <1>2, <1>3, Zenon

-----------------------------------------------------------------------------
(* The editor a key leaves, as drawn: what it shows is what was meant.     *)
Becomes(f, w, u) == Good(f) /\ Written(f, w) = u

LEMMA EditBecomes ==
  ASSUME NEW e, Good(e), NEW f, InText(f, Plainly), SameView(e, f), NEW u,
         Written(f, "none") = u
  PROVE  Becomes(Drawn(f), "none", u)
<1>1. Good(f)
  BY ViewIsGood, Zenon
<1> QED BY <1>1, DrawnIsGood DEF Becomes

LEMMA InEditors ==
  ASSUME NEW e, Good(e)
  PROVE  /\ InText(e, Plainly) /\ InText(e, Nat) /\ e \in Editors(Plainly)
         /\ Plain(e.lines, Plainly, Nat)
         /\ Newline \in Nat /\ Newline \notin Plainly
<1>1. Newline \in Nat /\ Newline \notin Plainly
  BY DEF Plainly, Newline
<1> QED BY <1>1, GoodIsPlain, Zenon DEF InText

(* Inserting.                                                              *)
LEMMA InsertBecomes ==
  ASSUME NEW e, Good(e), NEW c \in Plainly
  PROVE  /\ Becomes(Drawn(Insert(e, c)), "none", Put(Written(e, "none"), c))
         /\ Good(Insert(e, c)) /\ Written(Insert(e, c), "none") = Put(Written(e, "none"), c)
<1>1. InText(e, Plainly) /\ InText(e, Nat) /\ e \in Editors(Plainly) /\ Newline \in Nat
  BY InEditors, Zenon
<1>2. c \in Nat
  BY DEF Plainly
<1>3. InText(Insert(e, c), Plainly)
  BY <1>1, InsertInText, Zenon
<1>4. SameView(e, Insert(e, c))
  BY <1>1, EditsView, Zenon
<1>5. Written(Insert(e, c), "none") = Put(Written(e, "none"), c)
  <2>1. Puts(e, Insert(e, c), "none", c)
    BY <1>1, <1>2, InsertIsPut, Zenon
  <2> QED BY <2>1, Zenon DEF Puts
<1> QED BY <1>3, <1>4, <1>5, EditBecomes, ViewIsGood, Zenon

LEMMA TypingBecomes ==
  ASSUME NEW e, Good(e), NEW v, NEW key \in Typing, NEW ev, Tells(key, ev)
  PROVE  Becomes(Drawn(HandleKey(e, ev)), "none", Means(e, Written(e, v), key))
<1> DEFINE t == Written(e, "none")
           h == HandleKey(e, ev)
           m == Means(e, Written(e, v), key)
<1> SUFFICES Becomes(Drawn(h), "none", m)
  OBVIOUS
<1>1. InText(e, Plainly) /\ InText(e, Nat) /\ e \in Editors(Plainly) /\ Newline \in Nat
  BY InEditors, Zenon
<1>2. MeantTyping(key, t, m)
  BY MeansTyping, WrittenUnjudged
<1>3. Handled(ev, e, h)
  BY HandlesNamed, Zenon
<1>4. ToldTyping(key, ev)
  BY TellsWhat, Zenon
<1>5. \A c \in {120, 233} : Types(ev, c) => h = Insert(e, c)
  BY HandlesTyped, Zenon
<1>6. \A c \in {120, 233, 32} : c \in Plainly
  BY DEF Plainly, Newline
<1> HIDE DEF t, h, m
<1>7. CASE key \in {"x", "alt-x", "e acute"}
  <2>1. PICK c \in {120, 233} : h = Insert(e, c) /\ m = Put(t, c)
    <3>1. key \in {"x", "alt-x"} => h = Insert(e, 120) /\ m = Put(t, 120)
      BY <1>2, <1>4, <1>5 DEF MeantTyping, ToldTyping
    <3>2. key = "e acute" => h = Insert(e, 233) /\ m = Put(t, 233)
      BY <1>2, <1>4, <1>5 DEF MeantTyping, ToldTyping
    <3> QED BY <1>7, <3>1, <3>2, Zenon
  <2>2. Becomes(Drawn(Insert(e, c)), "none", Put(t, c))
    <3>1. c \in Plainly
      BY <1>6
    <3> QED BY <3>1, InsertBecomes, Zenon DEF t
  <2> QED BY <2>1, <2>2
<1>8. CASE key = "tab"
  <2> DEFINE f == Insert(e, 32)
  <2>1. h = Insert(f, 32) /\ m = Put(Put(t, 32), 32)
    BY <1>2, <1>3, <1>4, <1>8 DEF MeantTyping, Handled, ToldTyping
  <2>2. Good(f) /\ Written(f, "none") = Put(t, 32)
    BY <1>6, InsertBecomes, Zenon DEF t
  <2> HIDE DEF f
  <2>3. Becomes(Drawn(Insert(f, 32)), "none", Put(Written(f, "none"), 32))
    BY <1>6, <2>2, InsertBecomes, Zenon
  <2> QED BY <2>1, <2>2, <2>3
<1>9. CASE key = "enter"
  <2>1. h = Split(e) /\ m = Put(t, LineEnd)
    BY <1>2, <1>3, <1>4, <1>9 DEF MeantTyping, Handled, ToldTyping
  <2>2. Puts(e, Split(e), "none", LineEnd)
    BY <1>1, SplitIsPut, Zenon
  <2>3. InText(Split(e), Plainly) /\ SameView(e, Split(e))
    BY <1>1, SplitInText, EditsView, Zenon
  <2>4. Written(Split(e), "none") = m
    BY <2>1, <2>2, Zenon DEF Puts, t
  <2> QED BY <2>1, <2>3, <2>4, EditBecomes, Zenon
<1>10. CASE key = "backspace"
  <2>1. h = Backspace(e) /\ m = EraseBehind(t)
    BY <1>2, <1>3, <1>4, <1>10 DEF MeantTyping, Handled, ToldTyping
  <2>2. Erases(e, Backspace(e), MoveLeft(e), "none")
    BY <1>1, BackspaceIsErase, Zenon
  <2>3. InText(Backspace(e), Plainly) /\ SameView(e, Backspace(e))
    BY <1>1, BackspaceInText, EditsView, Zenon
  <2>4. Written(Backspace(e), "none") = m
    BY <2>1, <2>2, Zenon DEF Erases, t
  <2> QED BY <2>1, <2>3, <2>4, EditBecomes, Zenon
<1>11. CASE key = "delete"
  <2>1. h = Delete(e) /\ m = EraseAhead(t)
    BY <1>2, <1>3, <1>4, <1>11 DEF MeantTyping, Handled, ToldTyping
  <2>2. ErasesAhead(e, Delete(e), MoveRight(e), "none")
    BY <1>1, DeleteIsErase, Zenon
  <2>3. InText(Delete(e), Plainly) /\ SameView(e, Delete(e))
    BY <1>1, DeleteInText, EditsView, Zenon
  <2>4. Written(Delete(e), "none") = m
    BY <2>1, <2>2, Zenon DEF ErasesAhead, t
  <2> QED BY <2>1, <2>3, <2>4, EditBecomes, Zenon
<1> QED BY <1>7, <1>8, <1>9, <1>10, <1>11, Zenon DEF Typing

LEMMA LinesBecomes ==
  ASSUME NEW e, Good(e), NEW n \in Int
  PROVE  Becomes(Drawn(ToLine(e, e.cy + n)), "none", Lines(Written(e, "none"), n))
<1>1. InText(e, Plainly) /\ InText(e, Nat) /\ e \in Editors(Plainly) /\ Plain(e.lines, Plainly, Nat)
  BY InEditors, Zenon
<1>2. e.cy + n \in Int
  BY <1>1, Fields
<1> DEFINE f == ToLine(e, e.cy + n)
<1>3. InText(f, Plainly) /\ SameView(e, f)
  BY <1>1, <1>2, ToLineInText, MovesView, Zenon
<1>4. Climbs(e, "none", n)
  BY <1>1, ToLineIs, Zenon
<1>5. Written(f, "none") = Lines(Written(e, "none"), n)
  BY <1>4, Zenon DEF Climbs
<1> QED BY <1>3, <1>5, EditBecomes, Zenon

LEMMA MovingBecomes ==
  ASSUME NEW e, Good(e), NEW v, NEW key \in Moving, NEW ev, Tells(key, ev)
  PROVE  Becomes(Drawn(HandleKey(e, ev)), "none", Means(e, Written(e, v), key))
<1> DEFINE t == Written(e, "none")
           h == HandleKey(e, ev)
           m == Means(e, Written(e, v), key)
<1> SUFFICES Becomes(Drawn(h), "none", m)
  OBVIOUS
<1>1. InText(e, Plainly) /\ InText(e, Nat) /\ e \in Editors(Plainly)
      /\ Newline \in Nat /\ Newline \notin Plainly
  BY InEditors, Zenon
<1>2. MeantMoving(key, t, m)
  BY MeansMoving, WrittenUnjudged
<1>3. Handled(ev, e, h)
  BY HandlesNamed, Zenon
<1>4. ToldMoving(key, ev)
  BY TellsWhat, Zenon
<1>6. Rows \in Int /\ e.cy \in Int
  BY <1>1, TerminalAssumption DEF Editors
<1>7. \A n \in Int : Becomes(Drawn(ToLine(e, e.cy + n)), "none", Lines(t, n))
  BY LinesBecomes, Zenon
<1> HIDE DEF t, h, m
<1>8. CASE key = "left"
  <2>1. h = MoveLeft(e) /\ m = To(t, t.pos - 1)
    BY <1>2, <1>3, <1>4, <1>8 DEF MeantMoving, Handled, ToldMoving
  <2>2. Erases(e, Backspace(e), MoveLeft(e), "none")
    BY <1>1, BackspaceIsErase, Zenon
  <2>3. InText(MoveLeft(e), Plainly) /\ SameView(e, MoveLeft(e))
    BY <1>1, MoveLeftInText, MovesView, Zenon
  <2>4. Written(MoveLeft(e), "none") = m
    BY <2>1, <2>2, Zenon DEF Erases, t
  <2> QED BY <2>1, <2>3, <2>4, EditBecomes, Zenon
<1>9. CASE key \in {"right", "ctrl-right"}
  <2>1. h = MoveRight(e) /\ m = To(t, t.pos + 1)
    BY <1>2, <1>3, <1>4, <1>9 DEF MeantMoving, Handled, ToldMoving
  <2>2. ErasesAhead(e, Delete(e), MoveRight(e), "none")
    BY <1>1, DeleteIsErase, Zenon
  <2>3. InText(MoveRight(e), Plainly) /\ SameView(e, MoveRight(e))
    BY <1>1, MoveRightInText, MovesView, Zenon
  <2>4. Written(MoveRight(e), "none") = m
    BY <2>1, <2>2, Zenon DEF ErasesAhead, t
  <2> QED BY <2>1, <2>3, <2>4, EditBecomes, Zenon
<1>10. CASE key = "home"
  <2>1. h = Home(e) /\ m = To(t, StartOf(t, t.pos))
    BY <1>2, <1>3, <1>4, <1>10 DEF MeantMoving, Handled, ToldMoving
  <2>2. Goes(e, Home(e), "none", StartOf(Written(e, "none"), Written(e, "none").pos))
    BY <1>1, HomeIsTo, Zenon
  <2>3. InText(Home(e), Plainly) /\ SameView(e, Home(e))
    BY <1>1, HomeInText, MovesView, Zenon
  <2>4. Written(Home(e), "none") = m
    BY <2>1, <2>2, Zenon DEF Goes, t
  <2> QED BY <2>1, <2>3, <2>4, EditBecomes, Zenon
<1>11. CASE key = "end"
  <2>1. h = End(e) /\ m = To(t, EndOf(t, t.pos))
    BY <1>2, <1>3, <1>4, <1>11 DEF MeantMoving, Handled, ToldMoving
  <2>2. Goes(e, End(e), "none", EndOf(Written(e, "none"), Written(e, "none").pos))
    BY <1>1, EndIsTo, Zenon
  <2>3. InText(End(e), Plainly) /\ SameView(e, End(e))
    BY <1>1, EndInText, MovesView, Zenon
  <2>4. Written(End(e), "none") = m
    BY <2>1, <2>2, Zenon DEF Goes, t
  <2> QED BY <2>1, <2>3, <2>4, EditBecomes, Zenon
<1>12. CASE key = "up"
  <2>1. h = ToLine(e, e.cy + (-1)) /\ m = Lines(t, -1)
    BY <1>2, <1>3, <1>4, <1>6, <1>12 DEF MeantMoving, Handled, ToldMoving
  <2> QED BY <1>6, <1>7, <2>1
<1>13. CASE key = "down"
  <2>1. h = ToLine(e, e.cy + (1)) /\ m = Lines(t, 1)
    BY <1>2, <1>3, <1>4, <1>6, <1>13 DEF MeantMoving, Handled, ToldMoving
  <2> QED BY <1>6, <1>7, <2>1
<1>14. CASE key = "pgup"
  <2>1. h = ToLine(e, e.cy + (-Rows)) /\ m = Lines(t, -Rows)
    BY <1>2, <1>3, <1>4, <1>6, <1>14 DEF MeantMoving, Handled, ToldMoving
  <2> QED BY <1>6, <1>7, <2>1
<1>15. CASE key = "pgdn"
  <2>1. h = ToLine(e, e.cy + (Rows)) /\ m = Lines(t, Rows)
    BY <1>2, <1>3, <1>4, <1>6, <1>15 DEF MeantMoving, Handled, ToldMoving
  <2> QED BY <1>6, <1>7, <2>1
<1> QED BY <1>8, <1>9, <1>10, <1>11, <1>12, <1>13, <1>14, <1>15, Zenon DEF Moving

LEMMA PointingBecomes ==
  ASSUME NEW e, Good(e), NEW v, NEW key \in Pointing, NEW ev, Tells(key, ev)
  PROVE  Becomes(Drawn(HandleMouse(e, ev)), "none", Means(e, Written(e, v), key))
<1> DEFINE t == Written(e, "none")
           h == HandleMouse(e, ev)
           m == Means(e, Written(e, v), key)
<1> SUFFICES Becomes(Drawn(h), "none", m)
  OBVIOUS
<1>1. InText(e, Plainly) /\ InText(e, Nat) /\ e \in Editors(Plainly)
      /\ Plain(e.lines, Plainly, Nat)
  BY InEditors, Zenon
<1>2. MeantPointing(key, e, t, m)
  BY MeansPointing, WrittenUnjudged
<1>3. /\ ev.does = "wheel" /\ ev.wheel = 1 => h = ToLine(e, e.cy + 3)
      /\ ev.does = "press" /\ ev.x \in 1 .. Columns + 9 /\ CellX(ev) = 1 /\ CellY(ev) = 0
           => h = Clicked(e, 1, 0)
  BY HandlesPointed, Zenon
<1>4. ToldPointing(key, ev)
  BY TellsWhat, Zenon
<1>5. CASE key = "wheel"
  <2>1. h = ToLine(e, e.cy + 3) /\ m = Lines(t, 3)
    <3> HIDE DEF t, h, m
    <3> QED BY <1>2, <1>3, <1>4, <1>5 DEF MeantPointing, ToldPointing
  <2>2. 3 \in Int
    OBVIOUS
  <2> HIDE DEF h, m
  <2>3. Becomes(Drawn(ToLine(e, e.cy + 3)), "none", Lines(t, 3))
    BY <2>2, LinesBecomes, Zenon
  <2> HIDE DEF t
  <2> QED BY <2>1, <2>3
<1>6. CASE key # "wheel"
  <2>1. h = Clicked(e, 1, 0) /\ m = Cell(t, e.top, e.left + 1)
    <3> HIDE DEF t, h, m
    <3> QED BY <1>2, <1>3, <1>4, <1>6, Zenon DEF MeantPointing, ToldPointing, Pointing
  <2>2. e.top + 0 \in Nat /\ e.left + 1 \in Nat /\ e.top + 0 = e.top /\ 0 \in Int /\ 1 \in Int
    BY DEF Good
  <2>3. Clicks(e, "none", 1, 0)
    BY <1>1, <2>2, ClickedIs, Zenon
  <2>4. InText(Clicked(e, 1, 0), Plainly) /\ SameView(e, Clicked(e, 1, 0))
    BY <1>1, <2>2, ClickedInText, MovesView, Zenon
  <2> HIDE DEF h, m
  <2>5. Written(Clicked(e, 1, 0), "none") = m
    BY <2>1, <2>2, <2>3, Zenon DEF Clicks
  <2> QED BY <2>1, <2>4, <2>5, EditBecomes, Zenon
<1> QED BY <1>5, <1>6, Zenon

(* A key the editor does not know.                                         *)
LEMMA NothingBecomes ==
  ASSUME NEW e, Good(e), NEW v, NEW key, key \notin Rest, NEW ev, Tells(key, ev)
  PROVE  /\ ev.kind = "mouse" =>
              Becomes(Drawn(HandleMouse(e, ev)), "none", Means(e, Written(e, v), key))
         /\ ev.kind = "key" =>
              Becomes(Drawn(HandleKey(e, ev)), "none", Means(e, Written(e, v), key))
<1>1. Means(e, Written(e, v), key) = Written(e, "none")
  BY MeansNothing, WrittenUnjudged
<1>2. Becomes(Drawn(e), "none", Written(e, "none"))
  <2>1. InText(e, Plainly) /\ e \in Editors(Plainly)
    BY InEditors, Zenon
  <2> QED BY <2>1, MovesView, EditBecomes, Zenon
<1>3. Ignored(ev)
  BY TellsWhat, Zenon
<1>4. ev.kind = "mouse" => HandleMouse(e, ev) = e
  <2>1. ev.kind = "mouse" => ev.does \notin {"wheel", "press"}
    BY <1>3 DEF Ignored
  <2> QED BY <2>1, HandlesPointed, Zenon
<1>5. ev.kind = "key" => HandleKey(e, ev) = e
  <2>1. ev.kind = "key" => ev.name = "unknown" /\ ev.rune = 0
    BY <1>3 DEF Ignored
  <2>2. Handled(ev, e, HandleKey(e, ev))
    BY HandlesNamed, Zenon
  <2> QED BY <2>1, <2>2, Zenon DEF Handled
<1> QED BY <1>1, <1>2, <1>4, <1>5

(* A message is opened as it came, with the cursor in front of it.         *)
LEMMA OpenedBecomes ==
  ASSUME NEW w
  PROVE  Becomes(Opened, w, [text |-> Text(Opened), pos |-> 0, verdict |-> w])
<1> DEFINE n == NewEditor(Message)
           h == SubSeq(Message[1], 1, 0)
<1>1. Message \in Seq(Seq(Plainly)) /\ Message # <<>>
  BY TerminalAssumption, Zenon DEF Plainly
<1>2. n.lines = Message /\ n.cy = 1 /\ n.cx = 0 /\ n.top = 0 /\ n.left = 0
  BY DEF NewEditor
<1>3. InText(n, Plainly)
  BY <1>1, NewEditorInText, Zenon
<1>4. Good(n)
  BY <1>2, <1>3 DEF Good
<1>5. Good(Opened) /\ Written(Opened, w) = Written(n, w)
  BY <1>4, DrawnIsGood, Zenon DEF Opened
<1> HIDE DEF n
<1>6. Ahead(n) = TextOf(<<h>>) /\ h = <<>>
  <2>1. SubSeq(Message, 1, 0) = <<>> /\ Append(<<>>, h) = <<h>> /\ h = <<>>
    BY <1>1
  <2>2. Ahead(n) = TextOf(Append(SubSeq(Message, 1, 0), h))
    <3>1. n.cy - 1 = 0
      BY <1>2
    <3> QED BY <1>2, <3>1, Zenon DEF Ahead, Line
  <2> QED BY <2>1, <2>2, Zenon
<1>7. Len(Ahead(n)) = 0
  <2>1. h \in Seq(Plainly)
    BY <1>6
  <2> HIDE DEF h
  <2>2. TextOf(<<h>>) = h
    BY <2>1, TextOne
  <2> QED BY <1>6, <2>2
<1>8. Written(n, w) = [text |-> Text(n), pos |-> 0, verdict |-> w]
  BY <1>7, Zenon DEF Written
<1>9. Text(Opened) = Text(n)
  <2>1. Written(Opened, w).text = Text(Opened) /\ Written(n, w).text = Text(n)
    BY DEF Written
  <2> QED BY <1>5, <2>1, Zenon
<1> QED BY <1>5, <1>8, <1>9, Zenon DEF Becomes

(* What the UI makes of an event: f and the verdict w.                     *)
Took(e, ev, f, w) ==
  \/ ev.kind = "mouse" /\ f = Drawn(HandleMouse(e, ev)) /\ w = "none"
  \/ /\ Drops(ev) \/ Sends(ev)
     /\ f = Opened /\ w = IF Drops(ev) THEN "dropped" ELSE "sent"
  \/ /\ ev.kind = "key" /\ ~Drops(ev) /\ ~Sends(ev)
     /\ f = Drawn(HandleKey(e, ev)) /\ w = "none"

(* Whatever key it is, the UI makes of it what it is meant to do.          *)
LEMMA HandledAsMeant ==
  ASSUME NEW e, Good(e), NEW v, NEW key, NEW ev, Tells(key, ev),
         NEW f, NEW w, Took(e, ev, f, w)
  PROVE  Becomes(f, w, Means(e, Written(e, v), key))
<1> DEFINE m == Means(e, Written(e, v), key)
           k == Drawn(HandleKey(e, ev))
           p == Drawn(HandleMouse(e, ev))
<1>1. /\ key \in Typing => ToldTyping(key, ev)
      /\ key \in Moving => ToldMoving(key, ev)
      /\ key \in Pointing => ToldPointing(key, ev)
      /\ key = "esc" => Drops(ev) /\ ~Sends(ev)
      /\ key = "send" => Sends(ev) /\ ~Drops(ev)
      /\ key \notin Rest => Ignored(ev)
  BY TellsWhat, Zenon
<1>2. CASE key \in Typing
  <2>1. Becomes(k, "none", m)
    BY <1>2, TypingBecomes, Zenon
  <2>2. ev.kind = "key" /\ ~Drops(ev) /\ ~Sends(ev)
    BY <1>1, <1>2 DEF ToldTyping, Types, Typing, Drops, Sends
  <2> HIDE DEF m, k
  <2>3. f = k /\ w = "none"
    BY <2>2 DEF Took, k
  <2> QED BY <2>1, <2>3, Zenon DEF m
<1>3. CASE key \in Moving
  <2>1. Becomes(k, "none", m)
    BY <1>3, MovingBecomes, Zenon
  <2>2. ev.kind = "key" /\ ~Drops(ev) /\ ~Sends(ev)
    BY <1>1, <1>3 DEF ToldMoving, Moving, Drops, Sends
  <2> HIDE DEF m, k
  <2>3. f = k /\ w = "none"
    BY <2>2 DEF Took, k
  <2> QED BY <2>1, <2>3, Zenon DEF m
<1>4. CASE key \in Pointing
  <2>1. Becomes(p, "none", m)
    BY <1>4, PointingBecomes, Zenon
  <2>2. ev.kind = "mouse" /\ ~Drops(ev) /\ ~Sends(ev)
    BY <1>1, <1>4 DEF ToldPointing, Drops, Sends
  <2> HIDE DEF m, p
  <2>3. f = p /\ w = "none"
    BY <2>2 DEF Took, p
  <2> QED BY <2>1, <2>3, Zenon DEF m
<1>5. CASE key \in Leaving
  <2> DEFINE verd == IF key = "esc" THEN "dropped" ELSE "sent"
  <2>1. m = [text |-> Text(Opened), pos |-> 0, verdict |-> verd]
    BY <1>5, MeansLeaving, Zenon
  <2>2. Becomes(Opened, verd, m)
    BY <2>1, OpenedBecomes
  <2> HIDE DEF m
  <2>3. f = Opened /\ w = verd
    BY <1>1, <1>5 DEF Leaving, Took, Drops, Sends
  <2> QED BY <2>2, <2>3, Zenon DEF m
<1>6. CASE key \notin Rest
  <2>1. /\ ev.kind = "mouse" => Becomes(p, "none", m)
        /\ ev.kind = "key" => Becomes(k, "none", m)
    BY <1>6, NothingBecomes, Zenon
  <2>2. ~Drops(ev) /\ ~Sends(ev)
    BY <1>1, <1>6 DEF Ignored, Drops, Sends
  <2> HIDE DEF m, k, p
  <2>3. \/ ev.kind = "mouse" /\ f = p /\ w = "none"
        \/ ev.kind = "key" /\ f = k /\ w = "none"
    BY <2>2, Zenon DEF Took, k, p
  <2> QED BY <2>1, <2>3, Zenon DEF m
<1> QED BY <1>2, <1>3, <1>4, <1>5, <1>6, Zenon DEF Rest

-----------------------------------------------------------------------------
(***************************************************************************)
(* Part four.  The keys are handled as they were typed.                    *)
(***************************************************************************)

(* The bytes X are those of the keys ks behind the first d of them: F[i]   *)
(* are those of the ith key and all that follow.                           *)
Spelled(F, ks, d, X) ==
  /\ \A i \in d + 1 .. Len(ks) + 1 : F[i] \in Seq(Byte)
  /\ F[d + 1] = X /\ F[Len(ks) + 1] = <<>>
  /\ \A i \in d + 1 .. Len(ks) : F[i] = Bytes[ks[i]] \o F[i + 1]
Spells(ks, d, X) == \E F : Spelled(F, ks, d, X)

LEMMA KeyBytes ==
  ASSUME NEW k \in Keys
  PROVE  /\ Bytes[k] \in Seq(Byte) /\ Bytes[k] # <<>>
         /\ Len(Bytes[k]) \in Nat \ {0}
<1>1. Bytes[k] \in Seq(Byte) \ {<<>>}
  BY TerminalAssumption DEF Byte
<1> QED BY <1>1

LEMMA SpellsNothing == Spells(<<>>, 0, <<>>)
<1> DEFINE n == <<>>
           F == [i \in Nat |-> n]
<1>1. n \in Seq(Byte) /\ Len(n) = 0
  OBVIOUS
<1>2. \A i \in Nat : F[i] = n
  OBVIOUS
<1> HIDE DEF n, F
<1>3. Spelled(F, n, 0, n)
  <2>1. /\ 0 + 1 .. Len(n) + 1 = {1} /\ 0 + 1 .. Len(n) = {} /\ 1 \in Nat
        /\ 0 + 1 = 1 /\ Len(n) + 1 = 1
    BY <1>1
  <2>2. F[1] = n /\ \A i \in 0 + 1 .. Len(n) + 1 : i = 1
    BY <1>2, <2>1
  <2>3. n = <<>>
    BY DEF n
  <2> QED BY <1>1, <2>1, <2>2, <2>3, Zenon DEF Spelled
<1> QED BY <1>3, Zenon DEF Spells, n

(* No bytes are those of no keys.                                          *)
LEMMA SpellsNone ==
  ASSUME NEW ks \in Seq(Keys), NEW d \in 0 .. Len(ks), Spells(ks, d, <<>>)
  PROVE  d = Len(ks)
<1> DEFINE X == <<>>
<1>1. PICK F : Spelled(F, ks, d, X)
  BY Zenon DEF Spells
<1> SUFFICES ASSUME d # Len(ks) PROVE FALSE
  OBVIOUS
<1>2. d + 1 \in d + 1 .. Len(ks) /\ d + 1 + 1 \in d + 1 .. Len(ks) + 1 /\ ks[d + 1] \in Keys
  OBVIOUS
<1> DEFINE s == Bytes[ks[d + 1]]
           Y == F[d + 1 + 1]
<1>3. s \in Seq(Byte) /\ Len(s) \in Nat \ {0} /\ Y \in Seq(Byte) /\ X = s \o Y
  BY <1>1, <1>2, KeyBytes DEF Spelled
<1> HIDE DEF s, Y
<1>4. Len(s \o Y) = Len(s) + Len(Y) /\ Len(Y) \in Nat
  BY <1>3
<1>5. Len(X) = 0
  OBVIOUS
<1> HIDE DEF X
<1> QED BY <1>3, <1>4, <1>5

(* The next key.                                                           *)
LEMMA SpellsNext ==
  ASSUME NEW ks \in Seq(Keys), NEW d \in 0 .. Len(ks), NEW X, Spells(ks, d, X), X # <<>>
  PROVE  /\ d + 1 \in 1 .. Len(ks) /\ ks[d + 1] \in Keys
         /\ \E Y \in Seq(Byte) : X = Bytes[ks[d + 1]] \o Y /\ Spells(ks, d + 1, Y)
<1>1. PICK F : Spelled(F, ks, d, X)
  BY Zenon DEF Spells
<1>2. d # Len(ks)
  BY <1>1 DEF Spelled
<1>3. /\ d + 1 \in 1 .. Len(ks) /\ ks[d + 1] \in Keys
      /\ d + 1 \in d + 1 .. Len(ks) /\ d + 1 + 1 \in d + 1 .. Len(ks) + 1
  BY <1>2
<1> DEFINE Y == F[d + 1 + 1]
<1>4. Y \in Seq(Byte) /\ X = Bytes[ks[d + 1]] \o Y
  BY <1>1, <1>3 DEF Spelled
<1>5. Spelled(F, ks, d + 1, Y)
  <2>1. /\ \A i \in d + 1 + 1 .. Len(ks) + 1 : i \in d + 1 .. Len(ks) + 1
        /\ \A i \in d + 1 + 1 .. Len(ks) : i \in d + 1 .. Len(ks)
    OBVIOUS
  <2> QED BY <1>1, <2>1, Zenon DEF Spelled
<1> QED BY <1>3, <1>4, <1>5, Zenon DEF Spells

(* One more key is pressed.                                                *)
LEMMA SpellsMore ==
  ASSUME NEW ks \in Seq(Keys), NEW d \in 0 .. Len(ks), NEW X, Spells(ks, d, X),
         NEW k \in Keys
  PROVE  Spells(Append(ks, k), d, X \o Bytes[k])
<1>1. PICK F : Spelled(F, ks, d, X)
  BY Zenon DEF Spells
<1> DEFINE B == Bytes[k]
           n == Len(ks)
           js == Append(ks, k)
           e == <<>>
           G == [i \in Nat |-> IF i = n + 2 THEN e ELSE F[i] \o B]
<1>2. B \in Seq(Byte) /\ n \in Nat /\ e \in Seq(Byte)
  BY KeyBytes
<1>3. Len(js) = n + 1 /\ js[n + 1] = k /\ \A i \in 1 .. n : js[i] = ks[i]
  OBVIOUS
<1>4. /\ \A i \in d + 1 .. n + 1 : F[i] \in Seq(Byte)
      /\ F[d + 1] = X /\ F[n + 1] = e
      /\ \A i \in d + 1 .. n : F[i] = Bytes[ks[i]] \o F[i + 1]
  BY <1>1, Zenon DEF Spelled
<1>5. /\ d \in Nat /\ d <= n
      /\ G[n + 2] = e /\ \A i \in d + 1 .. n + 1 : G[i] = F[i] \o B
  <2>1. d \in Nat /\ d <= n /\ n + 2 \in Nat
        /\ \A i \in d + 1 .. n + 1 : i \in Nat /\ i # n + 2
    OBVIOUS
  <2> HIDE DEF B, e, n
  <2> QED BY <2>1
<1>6. e \o B = B /\ B \o e = B
  BY <1>2
<1> HIDE DEF G, js, n, e, B
<1>7. Spelled(G, js, d, X \o B)
  <2>1. \A i \in d + 1 .. Len(js) + 1 : G[i] \in Seq(Byte)
    <3> SUFFICES ASSUME NEW i \in d + 1 .. n + 2 PROVE G[i] \in Seq(Byte)
      BY <1>2, <1>3
    <3>1. i = n + 2 \/ i \in d + 1 .. n + 1
      BY <1>2, <1>5
    <3>2. CASE i \in d + 1 .. n + 1
      <4>1. F[i] \in Seq(Byte) /\ G[i] = F[i] \o B
        BY <1>4, <1>5, <3>2
      <4> QED BY <1>2, <4>1
    <3> QED BY <1>2, <1>5, <3>1, <3>2
  <2>2. G[d + 1] = X \o B
    <3>1. d + 1 \in d + 1 .. n + 1
      BY <1>2, <1>5
    <3> QED BY <1>4, <1>5, <3>1, Zenon
  <2>3. G[Len(js) + 1] = e
    BY <1>2, <1>3, <1>5
  <2>4. ASSUME NEW i \in d + 1 .. Len(js) PROVE G[i] = Bytes[js[i]] \o G[i + 1]
    <3>1. CASE i = n + 1
      <4>1. G[i] = e \o B /\ G[i + 1] = e /\ js[i] = k
        <5>1. n + 1 \in d + 1 .. n + 1 /\ i + 1 = n + 2
          BY <1>2, <1>5, <3>1
        <5> QED BY <1>3, <1>4, <1>5, <3>1, <5>1
      <4> QED BY <1>6, <4>1 DEF B
    <3>2. CASE i # n + 1
      <4>1. /\ i \in d + 1 .. n /\ i \in 1 .. n
            /\ i \in d + 1 .. n + 1 /\ i + 1 \in d + 1 .. n + 1
        BY <1>2, <1>3, <3>2
      <4>2. /\ G[i] = F[i] \o B /\ G[i + 1] = F[i + 1] \o B /\ js[i] = ks[i]
            /\ F[i] = Bytes[ks[i]] \o F[i + 1] /\ F[i + 1] \in Seq(Byte)
        BY <1>3, <1>4, <1>5, <4>1
      <4>3. Bytes[ks[i]] \in Seq(Byte)
        BY <4>1, KeyBytes DEF n
      <4> DEFINE a == Bytes[ks[i]]
                 b == F[i + 1]
      <4>5. a \in Seq(Byte) /\ b \in Seq(Byte)
        BY <4>2, <4>3
      <4> HIDE DEF a, b
      <4>4. (a \o b) \o B = a \o (b \o B)
        BY <1>2, <4>5, Assoc
      <4> QED BY <4>2, <4>4 DEF a, b
    <3> QED BY <3>1, <3>2
  <2> QED BY <2>1, <2>2, <2>3, <2>4, Zenon DEF Spelled, e
<1> QED BY <1>7, Zenon DEF Spells, js, B

(* The first of them is done with.                                         *)
LEMMA SpellsTail ==
  ASSUME NEW ks \in Seq(Keys), NEW d \in 1 .. Len(ks), NEW X, Spells(ks, d, X)
  PROVE  Spells(Tail(ks), d - 1, X)
<1>1. PICK F : Spelled(F, ks, d, X)
  BY Zenon DEF Spells
<1> DEFINE n == Len(ks)
           js == Tail(ks)
           G == [i \in Nat |-> F[i + 1]]
<1>2. n \in Nat /\ n # 0 /\ Len(js) = n - 1 /\ \A i \in 1 .. n - 1 : js[i] = ks[i + 1]
  OBVIOUS
<1>3. \A i \in Nat : G[i] = F[i + 1]
  OBVIOUS
<1> HIDE DEF G, js
<1>4. Spelled(G, js, d - 1, X)
  <2>0. d \in Nat /\ d # 0 /\ d <= n /\ d - 1 + 1 = d
    BY DEF n
  <2>1. \A i \in d - 1 + 1 .. Len(js) + 1 : G[i] \in Seq(Byte)
    <3> SUFFICES ASSUME NEW i \in d .. n PROVE G[i] \in Seq(Byte)
      BY <1>2, <2>0
    <3>1. i + 1 \in d + 1 .. Len(ks) + 1 /\ i \in Nat
      BY <1>2, <2>0 DEF n
    <3> QED BY <1>1, <1>3, <3>1, Zenon DEF Spelled
  <2>2. G[d - 1 + 1] = X /\ G[Len(js) + 1] = <<>>
    <3>1. Len(js) + 1 = n /\ G[d] = F[d + 1] /\ G[n] = F[n + 1]
      BY <1>2, <1>3, <2>0
    <3> QED BY <1>1, <2>0, <3>1, Zenon DEF Spelled, n
  <2>3. ASSUME NEW i \in d - 1 + 1 .. Len(js) PROVE G[i] = Bytes[js[i]] \o G[i + 1]
    <3>1. i + 1 \in d + 1 .. Len(ks) /\ i \in Nat /\ i + 1 \in Nat /\ js[i] = ks[i + 1]
      BY <1>2
    <3>2. F[i + 1] = Bytes[ks[i + 1]] \o F[i + 1 + 1]
      BY <1>1, <3>1, Zenon DEF Spelled
    <3> QED BY <1>3, <3>1, <3>2
  <2> QED BY <2>1, <2>2, <2>3, Zenon DEF Spelled
<1> QED BY <1>4, Zenon DEF Spells, js

-----------------------------------------------------------------------------
(* The keys ks lead from what editor e shows to m: M[i] is what is left    *)
(* when all but the keys from the ith on are handled.  Only the first of   *)
(* them is a click.                                                        *)
Clicking == {"click", "old click"}

Leading(M, e, v, ks, m) ==
  /\ M[1] = Written(e, v) /\ M[Len(ks) + 1] = m
  /\ \A i \in 1 .. Len(ks) : M[i + 1] = Means(e, M[i], ks[i])
LeadsTo(e, v, ks, m) ==
  /\ \A i \in 2 .. Len(ks) : ks[i] \notin Clicking
  /\ \E M : Leading(M, e, v, ks, m)

LEMMA LeadsNowhere ==
  ASSUME NEW e, NEW v, NEW m
  PROVE  LeadsTo(e, v, <<>>, m) <=> Written(e, v) = m
<1> DEFINE n == <<>>
           M == [i \in {1} |-> Written(e, v)]
<1>1. Len(n) = 0 /\ Len(n) + 1 = 1 /\ 1 .. Len(n) = {} /\ 2 .. Len(n) = {}
  OBVIOUS
<1>2. M[1] = Written(e, v)
  OBVIOUS
<1> HIDE DEF M, n
<1>3. LeadsTo(e, v, n, m) => Written(e, v) = m
  BY <1>1, Zenon DEF LeadsTo, Leading
<1>4. Written(e, v) = m => Leading(M, e, v, n, m)
  BY <1>1, <1>2, Zenon DEF Leading
<1>5. Written(e, v) = m => LeadsTo(e, v, n, m)
  BY <1>1, <1>4, Zenon DEF LeadsTo
<1> QED BY <1>3, <1>5, Zenon DEF n

(* One more key is pressed.                                                *)
LEMMA LeadsOn ==
  ASSUME NEW ks \in Seq(Keys), NEW e, NEW v, NEW m, LeadsTo(e, v, ks, m), NEW k \in Keys,
         k \in Clicking => ks = <<>>
  PROVE  LeadsTo(e, v, Append(ks, k), Means(e, m, k))
<1>1. PICK M : Leading(M, e, v, ks, m)
  BY Zenon DEF LeadsTo
<1> DEFINE n == Len(ks)
           js == Append(ks, k)
           w == Means(e, m, k)
           G == [i \in Nat |-> IF i = n + 2 THEN w ELSE M[i]]
<1>2. /\ n \in Nat /\ Len(js) = n + 1 /\ js[n + 1] = k
      /\ \A i \in 1 .. n : js[i] = ks[i]
      /\ n # 0 => k \notin Clicking
  OBVIOUS
<1>3. \A i \in 2 .. Len(js) : js[i] \notin Clicking
  <2> SUFFICES ASSUME NEW i \in 2 .. n + 1 PROVE js[i] \notin Clicking
    BY <1>2
  <2>1. CASE i = n + 1
    <3>1. n # 0
      BY <2>1
    <3> QED BY <1>2, <2>1, <3>1
  <2>2. CASE i # n + 1
    <3>1. i \in 2 .. Len(ks) /\ i \in 1 .. n
      BY <1>2, <2>2
    <3> QED BY <1>2, <3>1, Zenon DEF LeadsTo
  <2> QED BY <2>1, <2>2
<1>4. G[n + 2] = w /\ \A i \in 1 .. n + 1 : G[i] = M[i]
  <2>1. n + 2 \in Nat /\ \A i \in 1 .. n + 1 : i \in Nat /\ i # n + 2
    BY <1>2
  <2> HIDE DEF n, w
  <2> QED BY <2>1
<1> HIDE DEF G, js, w
<1>5. Leading(G, e, v, js, w)
  <2>1. G[1] = Written(e, v)
    <3>1. 1 \in 1 .. n + 1
      BY <1>2
    <3> QED BY <1>1, <1>4, <3>1, Zenon DEF Leading
  <2>2. G[Len(js) + 1] = w
    <3>1. Len(js) + 1 = n + 2
      BY <1>2
    <3> QED BY <1>4, <3>1, Zenon
  <2>3. ASSUME NEW i \in 1 .. Len(js) PROVE G[i + 1] = Means(e, G[i], js[i])
    <3>1. CASE i = n + 1
      <4>1. i + 1 = n + 2 /\ i \in 1 .. n + 1
        BY <1>2, <3>1
      <4>2. G[i] = m
        BY <1>1, <1>4, <3>1, <4>1, Zenon DEF Leading, n
      <4> QED BY <1>2, <1>4, <3>1, <4>1, <4>2, Zenon DEF w
    <3>2. CASE i # n + 1
      <4>1. i \in 1 .. n /\ i \in 1 .. n + 1 /\ i + 1 \in 1 .. n + 1
        BY <1>2, <3>2
      <4>2. M[i + 1] = Means(e, M[i], ks[i])
        BY <1>1, <4>1, Zenon DEF Leading, n
      <4> QED BY <1>2, <1>4, <4>1, <4>2, Zenon
    <3> QED BY <3>1, <3>2
  <2> QED BY <2>1, <2>2, <2>3, Zenon DEF Leading
<1> QED BY <1>3, <1>5, Zenon DEF LeadsTo, js, w

(* Only of a click does it matter what has been scrolled away.             *)
LEMMA MeansSame ==
  ASSUME NEW e, NEW f, NEW u, NEW key, key \notin Clicking
  PROVE  Means(e, u, key) = Means(f, u, key)
<1>1. CASE key \in Typing
  <2>1. MeantTyping(key, Unjudged(u), Means(e, u, key)) /\ MeantTyping(key, Unjudged(u), Means(f, u, key))
    BY MeansTyping, Zenon
  <2> QED BY <1>1, <2>1 DEF MeantTyping, Typing
<1>2. CASE key \in Moving
  <2>1. MeantMoving(key, Unjudged(u), Means(e, u, key)) /\ MeantMoving(key, Unjudged(u), Means(f, u, key))
    BY MeansMoving, Zenon
  <2> QED BY <1>2, <2>1 DEF MeantMoving, Moving
<1>3. CASE key \in Pointing
  <2>1. MeantPointing(key, e, Unjudged(u), Means(e, u, key)) /\ MeantPointing(key, f, Unjudged(u), Means(f, u, key))
    BY MeansPointing, Zenon
  <2> QED BY <1>3, <2>1 DEF MeantPointing, Pointing, Clicking
<1>4. CASE key \in Leaving
  BY <1>4, MeansLeaving
<1>5. CASE key \notin Rest
  BY <1>5, MeansNothing
<1> QED BY <1>1, <1>2, <1>3, <1>4, <1>5, Zenon DEF Rest

(* The first of them is handled.                                           *)
LEMMA LeadsOff ==
  ASSUME NEW ks \in Seq(Keys), ks # <<>>, NEW e, NEW v, NEW m, LeadsTo(e, v, ks, m),
         NEW f, NEW w, Written(f, w) = Means(e, Written(e, v), ks[1])
  PROVE  LeadsTo(f, w, Tail(ks), m)
<1>1. PICK M : Leading(M, e, v, ks, m)
  BY Zenon DEF LeadsTo
<1> DEFINE n == Len(ks)
           js == Tail(ks)
           G == [i \in Nat |-> M[i + 1]]
<1>2. n \in Nat /\ n # 0 /\ Len(js) = n - 1 /\ \A i \in 1 .. n - 1 : js[i] = ks[i + 1]
  OBVIOUS
<1>3. \A i \in Nat : G[i] = M[i + 1]
  OBVIOUS
<1> HIDE DEF G, js
<1>4. \A i \in 1 .. Len(js) : js[i] \notin Clicking
  <2> SUFFICES ASSUME NEW i \in 1 .. n - 1 PROVE js[i] \notin Clicking
    BY <1>2
  <2>1. i + 1 \in 2 .. Len(ks) /\ js[i] = ks[i + 1]
    BY <1>2
  <2> QED BY <2>1, Zenon DEF LeadsTo
<1>5. Leading(G, f, w, js, m)
  <2>1. G[1] = Written(f, w)
    <3>1. 1 \in 1 .. n /\ 1 \in Nat /\ 1 + 1 = 2
      BY <1>2
    <3>2. M[1] = Written(e, v) /\ M[1 + 1] = Means(e, M[1], ks[1])
      BY <1>1, <3>1, Zenon DEF Leading, n
    <3>3. G[1] = M[1 + 1]
      BY <1>3, <3>1, Zenon
    <3> QED BY <3>2, <3>3
  <2>2. G[Len(js) + 1] = m
    <3>1. Len(js) + 1 = n
      BY <1>2
    <3>2. G[n] = M[n + 1]
      BY <1>2, <1>3, Zenon
    <3> QED BY <1>1, <3>1, <3>2, Zenon DEF Leading, n
  <2>3. ASSUME NEW i \in 1 .. Len(js) PROVE G[i + 1] = Means(f, G[i], js[i])
    <3>1. i + 1 \in 1 .. Len(ks) /\ i \in Nat /\ i + 1 \in Nat /\ js[i] = ks[i + 1]
      BY <1>2
    <3>2. M[i + 1 + 1] = Means(e, M[i + 1], ks[i + 1])
      BY <1>1, <3>1, Zenon DEF Leading
    <3>3. js[i] \notin Clicking
      BY <1>4
    <3> DEFINE u == M[i + 1]
               k == ks[i + 1]
    <3> HIDE DEF u, k
    <3>4. Means(e, u, k) = Means(f, u, k)
      BY <3>1, <3>3, MeansSame DEF k
    <3>5. G[i] = u /\ G[i + 1] = Means(e, u, k) /\ js[i] = k
      BY <1>3, <3>1, <3>2, Zenon DEF u, k
    <3> QED BY <3>4, <3>5
  <2> QED BY <2>1, <2>2, <2>3, Zenon DEF Leading
<1>6. \A i \in 2 .. Len(js) : js[i] \notin Clicking
  <2>1. \A i \in 2 .. Len(js) : i \in 1 .. Len(js)
    BY <1>2
  <2> QED BY <1>4, <2>1, Zenon
<1> QED BY <1>5, <1>6, Zenon DEF LeadsTo, js

-----------------------------------------------------------------------------
(* What the bytes of a key and those behind it begin with.                 *)
LEMMA SameSeq ==
  ASSUME NEW T, NEW r \in Seq(T), NEW y \in Seq(T), Len(r) = Len(y),
         \A i \in 1 .. Len(r) : r[i] = y[i]
  PROVE  r = y
OBVIOUS

Begins(s, r, b, y) ==
  /\ s = SubSeq(b, 1, Len(s)) /\ \A i \in 1 .. Len(s) : s[i] = b[i]
  /\ Len(s) = Len(b) => s = b /\ r = y

LEMMA Prefixed ==
  ASSUME NEW T, NEW s \in Seq(T), NEW r \in Seq(T), NEW b \in Seq(T), NEW y \in Seq(T),
         s \o r = b \o y, Len(s) <= Len(b)
  PROVE  Begins(s, r, b, y)
<1> DEFINE x == s \o r
<1>1. /\ Len(x) = Len(s) + Len(r) /\ Len(x) = Len(b) + Len(y)
      /\ Len(s) \in Nat /\ Len(b) \in Nat /\ Len(r) \in Nat /\ Len(y) \in Nat
  OBVIOUS
<1>2. \A i \in 1 .. Len(s) : x[i] = s[i]
  OBVIOUS
<1>3. \A i \in 1 .. Len(b) : x[i] = b[i]
  OBVIOUS
<1>4. \A i \in 1 .. Len(s) : s[i] = b[i]
  <2> HIDE DEF x
  <2> QED BY <1>1, <1>2, <1>3
<1>5. s = SubSeq(b, 1, Len(s))
  BY <1>1, <1>4
<1>6. ASSUME Len(s) = Len(b) PROVE s = b /\ r = y
  <2>1. s = b
    BY <1>4, <1>6
  <2>2. Len(r) = Len(y) /\ \A i \in 1 .. Len(r) : Len(s) + i \in 1 .. Len(x)
    BY <1>1, <1>6
  <2>3. \A i \in 1 .. Len(r) : x[Len(s) + i] = r[i]
    OBVIOUS
  <2>4. \A i \in 1 .. Len(y) : x[Len(b) + i] = y[i]
    OBVIOUS
  <2> HIDE DEF x
  <2>5. \A i \in 1 .. Len(r) : r[i] = y[i]
    BY <1>6, <2>2, <2>3, <2>4
  <2>6. r = y
    BY <2>2, <2>5, SameSeq, Zenon
  <2> QED BY <2>1, <2>6
<1> QED BY <1>4, <1>5, <1>6, Zenon DEF Begins

Passes(s, b, w) == Append(s, Head(b)) \o (Tail(b) \o w) = s \o (b \o w)

LEMMA ByteOn ==
  ASSUME NEW T, NEW s \in Seq(T), NEW b \in Seq(T), b # <<>>, NEW w \in Seq(T)
  PROVE  /\ Passes(s, b, w)
         /\ Append(s, Head(b)) \in Seq(T) /\ Tail(b) \o w \in Seq(T) /\ s \o (b \o w) \in Seq(T)
<1> DEFINE h == <<Head(b)>>
           t == Tail(b)
<1>1. /\ h \in Seq(T) /\ t \in Seq(T) /\ h \o t = b /\ Append(s, Head(b)) = s \o h
      /\ Append(s, Head(b)) \in Seq(T) /\ Tail(b) \o w \in Seq(T) /\ b \o w \in Seq(T)
  OBVIOUS
<1> HIDE DEF h, t
<1>2. t \o w \in Seq(T) /\ s \o (b \o w) \in Seq(T)
  BY <1>1
<1>3. (s \o h) \o (t \o w) = s \o (h \o (t \o w))
  <2>1. Either(s, h, t \o w)
    BY <1>1, <1>2, Assoc, Zenon
  <2> QED BY <2>1, Zenon DEF Either
<1>4. (h \o t) \o w = h \o (t \o w)
  <2>1. Either(h, t, w)
    BY <1>1, Assoc, Zenon
  <2> QED BY <2>1, Zenon DEF Either
<1> QED BY <1>1, <1>2, <1>3, <1>4 DEF t, Passes

-----------------------------------------------------------------------------
(* As long as nothing has gone wrong: the events are those of the first    *)
(* keys that are owed, and the bytes on their way those of the others.     *)
Telling(ks, evs) ==
  /\ ks \in Seq(Keys) /\ Len(evs) \in 0 .. Len(ks)
  /\ \A i \in 1 .. Len(evs) : evs[i] = Decode(Bytes[ks[i]])

(* How the parser stands with the first of those.                          *)
Gathers(b, p, s) ==
  \/ p = "escape" /\ Len(s) \in 1 .. Len(b) /\ s[1] = Escape
  \/ p = "rune" /\ Len(s) \in 1 .. Len(b) - 1 /\ s[1] # Escape
  \/ p = "emits" /\ Len(s) = Len(b)

Parsing(ks, d, p, s) ==
  \/ p = "idle" /\ s = <<>>
  \/ d + 1 \in 1 .. Len(ks) /\ Gathers(Bytes[ks[d + 1]], p, s)

LEMMA SizeIs ==
  ASSUME NEW b
  PROVE  Size(b) \in {1, 2, 3, 4}
BY DEF Size

LEMMA StartsKey ==
  ASSUME NEW b \in Seq(Byte), Len(b) # 0, Whole(b), NEW s, Len(s) = 1, s[1] = b[1],
         NEW h, h = b[1]
  PROVE  Gathers(b, IF h = Escape THEN "escape" ELSE IF Size(h) > 1 THEN "rune" ELSE "emits", s)
<1>1. Len(b) \in Nat \ {0}
  OBVIOUS
<1>2. CASE h = Escape
  BY <1>1, <1>2 DEF Gathers
<1>3. CASE h # Escape
  <2>1. Len(b) = Size(h)
    BY <1>3, Zenon DEF Whole
  <2> QED BY <1>1, <1>3, <2>1, SizeIs DEF Gathers
<1> QED BY <1>2, <1>3

(* The next byte of an escape sequence.                                    *)
LEMMA EscapesKey ==
  ASSUME NEW b \in Seq(Byte), Whole(b), NEW n \in Nat, n # 0, n < Len(b),
         NEW s, s = SubSeq(b, 1, n + 1), b[1] = Escape
  PROVE  Gathers(b, IF Len(s) > MaxSeq \/ SeqComplete(s) THEN "emits" ELSE "escape", s)
<1>1. Len(b) \in Nat /\ Len(s) = n + 1 /\ s[1] = b[1]
  OBVIOUS
<1>2. MaxSeq \in Nat
  BY TerminalAssumption, Zenon
<1>3. CASE n + 1 = Len(b)
  BY <1>1, <1>3 DEF Gathers
<1>4. CASE n + 1 # Len(b)
  <2>1. n + 1 \in 2 .. Len(b) - 1 /\ n + 1 \in 1 .. Len(b)
    BY <1>1, <1>4
  <2>2. n + 1 <= MaxSeq /\ ~SeqComplete(SubSeq(b, 1, n + 1))
    BY <2>1, Zenon DEF Whole
  <2>3. ~(Len(s) > MaxSeq \/ SeqComplete(s))
    BY <1>1, <1>2, <2>2
  <2> QED BY <1>1, <2>1, <2>3 DEF Gathers
<1> QED BY <1>3, <1>4

(* The next byte of a character.                                           *)
LEMMA GathersKey ==
  ASSUME NEW b \in Seq(Byte), Whole(b), NEW n \in Nat, n # 0, n < Len(b),
         NEW s, s = SubSeq(b, 1, n + 1), b[1] # Escape
  PROVE  Gathers(b, IF Len(s) < Size(s[1]) THEN "rune" ELSE "emits", s)
<1>1. Len(b) \in Nat /\ Len(s) = n + 1 /\ s[1] = b[1]
  OBVIOUS
<1>2. Len(b) = Size(s[1])
  BY <1>1, Zenon DEF Whole
<1> QED BY <1>1, <1>2 DEF Gathers

-----------------------------------------------------------------------------
(* As long as nothing has gone wrong, the keys that are owed are on their  *)
(* way, and lead from what the editor shows to what was meant.             *)
OnTheWay == seq \o (bytes \o wire)

Faithful ==
  /\ Good(editor) /\ LeadsTo(editor, verdict, owed, meant)
  /\ Telling(owed, events)
  /\ Spells(owed, Len(events), OnTheWay)
  /\ Parsing(owed, Len(events), phase, seq)

History ==
  /\ disturbed => owed = <<>> /\ meant = Fresh
  /\ ~disturbed /\ ~closed => Faithful

LEMMA HistoryIs == History => DecodesAsTyped
<1> SUFFICES ASSUME History, Quiet, ~disturbed, ~closed
             PROVE  owed = <<>> /\ Written(editor, verdict) = meant
  BY Zenon DEF DecodesAsTyped
<1>1. wire = <<>> /\ bytes = <<>> /\ phase = "idle" /\ events = <<>>
  BY Zenon DEF Quiet
<1>2. Faithful
  BY Zenon DEF History
<1>3. seq = <<>>
  BY <1>1, <1>2 DEF Faithful, Parsing, Gathers
<1>4. OnTheWay = <<>> /\ Len(events) = 0
  BY <1>1, <1>3 DEF OnTheWay
<1>5. owed \in Seq(Keys) /\ Spells(owed, 0, <<>>) /\ LeadsTo(editor, verdict, owed, meant)
  BY <1>2, <1>4, Zenon DEF Faithful, Telling
<1>6. Len(owed) \in Nat /\ 0 \in 0 .. Len(owed)
  BY <1>5
<1>7. Len(owed) = 0
  BY <1>5, <1>6, SpellsNone
<1>8. owed = <<>>
  BY <1>5, <1>7
<1> QED BY <1>5, <1>8, LeadsNowhere, Zenon

LEMMA BytesAre ==
  ASSUME IInv
  PROVE  /\ wire \in Seq(Byte) /\ bytes \in Seq(Byte) /\ seq \in Seq(Byte)
         /\ bytes \o wire \in Seq(Byte) /\ OnTheWay \in Seq(Byte)
<1>1. wire \in Seq(Byte) /\ bytes \in Seq(Byte) /\ seq \in Seq(Byte)
  BY Zenon DEF IInv, ReaderOK
<1>2. bytes \o wire \in Seq(Byte)
  BY <1>1
<1>3. OnTheWay \in Seq(Byte)
  BY <1>1, <1>2 DEF OnTheWay
<1> QED BY <1>1, <1>2, <1>3

(* The key whose bytes the parser has or takes next.                       *)
Awaits(Y) ==
  /\ Len(events) + 1 \in 1 .. Len(owed) /\ owed[Len(events) + 1] \in Keys
  /\ Taken \in Seq(Byte) /\ Len(Taken) \in Nat \ {0} /\ Whole(Taken)
  /\ Y \in Seq(Byte) /\ OnTheWay = Taken \o Y
  /\ Spells(owed, Len(events) + 1, Y)

LEMMA TakesKey ==
  ASSUME Legible, IInv, Faithful, OnTheWay # <<>>
  PROVE  \E Y : Awaits(Y)
<1> DEFINE d == Len(events)
<1>1. owed \in Seq(Keys) /\ d \in 0 .. Len(owed) /\ Spells(owed, d, OnTheWay)
  BY Zenon DEF Faithful, Telling
<1>2. /\ d + 1 \in 1 .. Len(owed) /\ owed[d + 1] \in Keys
      /\ \E Y \in Seq(Byte) : OnTheWay = Bytes[owed[d + 1]] \o Y /\ Spells(owed, d + 1, Y)
  <2> HIDE DEF d
  <2> QED BY <1>1, SpellsNext, Zenon
<1>3. Taken = Bytes[owed[d + 1]]
  BY DEF Taken
<1>4. Taken \in Seq(Byte) /\ Len(Taken) \in Nat \ {0} /\ Whole(Taken)
  BY <1>2, <1>3, KeyBytes, Zenon DEF Legible
<1> QED BY <1>2, <1>3, <1>4, Zenon DEF Awaits

(* Nothing but how the bytes are split up has changed.                     *)
LEMMA SplitUp ==
  ASSUME Faithful, UNCHANGED <<editor, verdict, owed, meant, events>>,
         OnTheWay' = OnTheWay, Parsing(owed, Len(events), phase', seq')
  PROVE  Faithful'
BY Zenon DEF Faithful

LEMMA UndisturbedHistory ==
  ASSUME History, Faithful => Faithful', UNCHANGED <<closed, owed, meant, disturbed>>
  PROVE  History'
<1>1. Fresh' = Fresh
  BY Zenon
<1> QED BY <1>1, Zenon DEF History

LEMMA DisturbedHistory ==
  ASSUME Disturbs
  PROVE  History'
<1>1. Fresh' = Fresh
  BY Zenon
<1> QED BY <1>1, Zenon DEF History, Disturbs

-----------------------------------------------------------------------------
(* Steps that leave it to the others.                                      *)

LEMMA ReadsHistory ==
  ASSUME IInv, History, Reads \/ ReadEnds
  PROVE  History'
<1>1. CASE Reads
  <2>1. /\ wire # <<>> /\ bytes' = Append(bytes, Head(wire)) /\ wire' = Tail(wire)
        /\ UNCHANGED <<phase, seq, events, closed, editor, verdict, owed, meant, disturbed>>
    BY <1>1, Zenon DEF Reads, parser, ui, told
  <2>2. bytes' \o wire' = bytes \o wire
    <3>1. wire \in Seq(Byte) /\ bytes \in Seq(Byte)
      BY BytesAre, Zenon
    <3> DEFINE n == <<>>
    <3>2. n \in Seq(Byte) /\ Tail(wire) \o n = Tail(wire) /\ wire \o n = wire
      BY <2>1, <3>1
    <3> HIDE DEF n
    <3>3. Passes(bytes, wire, n)
      BY <2>1, <3>1, <3>2, ByteOn, Zenon
    <3> QED BY <2>1, <3>2, <3>3 DEF Passes
  <2>3. OnTheWay' = OnTheWay
    BY <2>1, <2>2 DEF OnTheWay
  <2>4. Faithful => Faithful'
    BY <2>1, <2>3, SplitUp, Zenon DEF Faithful
  <2> QED BY <2>1, <2>4, UndisturbedHistory, Zenon
<1>2. CASE ReadEnds
  <2>1. UNCHANGED <<wire, bytes, phase, seq, events, closed, editor, verdict, owed, meant,
                    disturbed>>
    BY <1>2, Zenon DEF ReadEnds, parser, ui, told
  <2>2. OnTheWay' = OnTheWay
    BY <2>1 DEF OnTheWay
  <2>3. Faithful => Faithful'
    BY <2>1, <2>2, SplitUp, Zenon DEF Faithful
  <2> QED BY <2>1, <2>3, UndisturbedHistory, Zenon
<1> QED BY <1>1, <1>2

LEMMA ClosesHistory ==
  ASSUME History, Closes
  PROVE  History'
<1>1. closed' = TRUE /\ UNCHANGED <<owed, meant, disturbed>>
  BY Zenon DEF Closes, told
<1>2. Fresh' = Fresh
  BY Zenon
<1> QED BY <1>1, <1>2, Zenon DEF History

LEMMA StutterHistory ==
  ASSUME History, UNCHANGED vars
  PROVE  History'
<1>1. UNCHANGED <<wire, bytes, phase, seq, events, closed, editor, verdict, owed, meant,
                  disturbed>>
  BY Zenon DEF vars
<1>2. OnTheWay' = OnTheWay
  BY <1>1 DEF OnTheWay
<1>3. Faithful => Faithful'
  BY <1>1, <1>2, SplitUp, Zenon DEF Faithful
<1> QED BY <1>1, <1>3, UndisturbedHistory, Zenon

-----------------------------------------------------------------------------
(* The parser's steps.                                                     *)

LEMMA ClosedHistory ==
  ASSUME History, closed \/ disturbed, UNCHANGED <<closed, owed, meant, disturbed>>
  PROVE  History'
<1>1. Fresh' = Fresh
  BY Zenon
<1> QED BY <1>1, Zenon DEF History

(* The parser has taken the next byte.                                     *)
LEMMA ByteTaken ==
  ASSUME IInv, Faithful, NEW p, Receives(p, Append(seq, Head(bytes))),
         UNCHANGED <<owed, meant>>,
         Parsing(owed, Len(events), p, Append(seq, Head(bytes)))
  PROVE  Faithful'
<1>1. /\ bytes # <<>> /\ bytes' = Tail(bytes) /\ seq' = Append(seq, Head(bytes)) /\ phase' = p
      /\ UNCHANGED <<wire, events, closed, editor, verdict>>
  BY Zenon DEF Receives, ui
<1>2. Passes(seq, bytes, wire)
  BY <1>1, BytesAre, ByteOn, Zenon
<1>3. OnTheWay' = OnTheWay
  BY <1>1, <1>2, Zenon DEF OnTheWay, Passes
<1> QED BY <1>1, <1>3, SplitUp, Zenon

(* What the parser has then, as long as it is of one key.                  *)
LEMMA ByteOfKey ==
  ASSUME IInv, NEW Y, Awaits(Y), bytes # <<>>, Len(seq) <= Len(Taken)
  PROVE  /\ Len(seq) \in Nat /\ \A i \in 1 .. Len(seq) : seq[i] = Taken[i]
         /\ Len(seq) = Len(Taken) => seq = Taken
         /\ Len(seq) < Len(Taken) =>
              Append(seq, Head(bytes)) = SubSeq(Taken, 1, Len(seq) + 1)
<1> DEFINE b == Taken
           r == bytes \o wire
           s == Append(seq, Head(bytes))
           q == Tail(bytes) \o wire
<1>1. /\ seq \in Seq(Byte) /\ bytes \in Seq(Byte) /\ wire \in Seq(Byte) /\ r \in Seq(Byte)
      /\ b \in Seq(Byte) /\ Y \in Seq(Byte) /\ seq \o r = b \o Y
  BY BytesAre, Zenon DEF Awaits, OnTheWay
<1>2. s \o q = b \o Y /\ s \in Seq(Byte) /\ q \in Seq(Byte)
  <2>1. Passes(seq, bytes, wire) /\ s \in Seq(Byte) /\ q \in Seq(Byte)
    BY <1>1, ByteOn, Zenon
  <2> QED BY <1>1, <2>1, Zenon DEF Passes
<1>3. Len(s) = Len(seq) + 1 /\ Len(seq) \in Nat /\ Len(b) \in Nat
  BY <1>1
<1> HIDE DEF b, r, s, q
<1>4. /\ \A i \in 1 .. Len(seq) : seq[i] = b[i]
      /\ Len(seq) = Len(b) => seq = b
  <2>1. Len(seq) <= Len(b)
    BY Zenon DEF b
  <2>2. Begins(seq, r, b, Y)
    BY <1>1, <2>1, Prefixed, Zenon
  <2> QED BY <2>2, Zenon DEF Begins
<1>5. Len(seq) < Len(b) => s = SubSeq(b, 1, Len(seq) + 1)
  <2>1. Len(seq) < Len(b) => Len(s) <= Len(b)
    BY <1>3
  <2>2. Len(seq) < Len(b) => Begins(s, q, b, Y)
    BY <1>1, <1>2, <2>1, Prefixed, Zenon
  <2> QED BY <1>3, <2>2, Zenon DEF Begins
<1> QED BY <1>3, <1>4, <1>5, Zenon DEF b, s

LEMMA AwaitsParsing ==
  ASSUME NEW Y, Awaits(Y), NEW p, NEW s, Gathers(Taken, p, s)
  PROVE  Parsing(owed, Len(events), p, s)
BY Zenon DEF Awaits, Parsing, Taken

LEMMA StartingHistory ==
  ASSUME Legible, IInv, History, Starting
  PROVE  History'
<1> DEFINE h == Head(bytes)
           p == IF h = Escape THEN "escape" ELSE IF Size(h) > 1 THEN "rune" ELSE "emits"
           s == <<h>>
<1>1. phase = "idle" /\ Receives(p, s) /\ UNCHANGED <<owed, meant, disturbed>>
  BY Zenon DEF Starting, told
<1>2. bytes # <<>> /\ UNCHANGED closed
  BY <1>1, Zenon DEF Receives
<1>3. ASSUME Faithful PROVE Faithful'
  <2>1. seq = <<>> /\ s = Append(seq, h)
    <3>1. seq = <<>>
      BY <1>1, <1>3 DEF Faithful, Parsing, Gathers
    <3> QED BY <3>1
  <2>2. seq \in Seq(Byte) /\ bytes \in Seq(Byte) /\ wire \in Seq(Byte)
    BY BytesAre, Zenon
  <2>3. OnTheWay # <<>>
    <3>1. OnTheWay = bytes \o wire
      BY <2>1, <2>2 DEF OnTheWay
    <3> QED BY <1>2, <2>2, <3>1
  <2>4. PICK Y : Awaits(Y)
    BY <1>3, <2>3, TakesKey, Zenon
  <2>5. Taken \in Seq(Byte) /\ Len(Taken) \in Nat \ {0} /\ Whole(Taken)
    BY <2>4, Zenon DEF Awaits
  <2>6. s = SubSeq(Taken, 1, 1)
    <3>1. Len(seq) = 0
      BY <2>1
    <3>2. Len(seq) <= Len(Taken) /\ Len(seq) < Len(Taken) /\ Len(seq) + 1 = 1
      BY <2>5, <3>1
    <3> QED BY <1>2, <2>1, <2>4, <3>2, ByteOfKey, Zenon
  <2>7. Len(s) = 1 /\ s[1] = Taken[1] /\ h = Taken[1] /\ Len(Taken) # 0
    BY <2>5, <2>6
  <2> HIDE DEF s, h
  <2>8. Gathers(Taken, p, s)
    BY <2>5, <2>7, StartsKey, Zenon
  <2>9. Parsing(owed, Len(events), p, s)
    BY <2>4, <2>8, AwaitsParsing, Zenon
  <2> HIDE DEF p
  <2> QED BY <1>1, <1>3, <2>1, <2>9, ByteTaken DEF h
<1> QED BY <1>1, <1>2, <1>3, UndisturbedHistory, Zenon

(* What the parser has of a key when it takes one byte more.               *)
LEMMA Continuing ==
  ASSUME Legible, IInv, Faithful, phase \in {"escape", "rune"}
  PROVE  \E Y : /\ Awaits(Y) /\ Gathers(Taken, phase, seq)
                /\ Len(seq) \in Nat \ {0} /\ Len(seq) <= Len(Taken)
<1>1. seq \in Seq(Byte) /\ bytes \o wire \in Seq(Byte)
  BY BytesAre, Zenon
<1>2. Parsing(owed, Len(events), phase, seq)
  BY Zenon DEF Faithful
<1>3. Gathers(Taken, phase, seq)
  BY <1>2 DEF Parsing, Taken
<1>4. Len(seq) \in Nat \ {0}
  BY <1>1, <1>3 DEF Gathers
<1>5. OnTheWay # <<>>
  BY <1>1, <1>4 DEF OnTheWay
<1>6. PICK Y : Awaits(Y)
  BY <1>5, TakesKey, Zenon
<1>7. Len(Taken) \in Nat
  BY <1>6 DEF Awaits
<1>8. Len(seq) <= Len(Taken)
  BY <1>3, <1>4, <1>7 DEF Gathers
<1> QED BY <1>3, <1>4, <1>6, <1>8, Zenon

LEMMA EscapingHistory ==
  ASSUME Legible, IInv, History, Escaping
  PROVE  History'
<1> DEFINE s == Append(seq, Head(bytes))
           p == IF Len(s) > MaxSeq \/ SeqComplete(s) THEN "emits" ELSE "escape"
<1>1. phase = "escape" /\ Receives(p, s) /\ Interrupted
  BY Zenon DEF Escaping
<1>2. bytes # <<>> /\ UNCHANGED closed
  BY <1>1, Zenon DEF Receives
<1> HIDE DEF p
<1>3. CASE Disturbs
  BY <1>3, DisturbedHistory
<1>4. CASE UNCHANGED told /\ (disturbed \/ seq # Taken)
  <2>1. UNCHANGED <<owed, meant, disturbed>>
    BY <1>4, Zenon DEF told
  <2>2. CASE closed \/ disturbed
    BY <1>2, <2>1, <2>2, ClosedHistory, Zenon
  <2>3. ASSUME ~disturbed, Faithful PROVE Faithful'
    <3>1. seq # Taken
      BY <1>4, <2>3
    <3>2. phase \in {"escape", "rune"}
      BY <1>1
    <3>3. PICK Y : /\ Awaits(Y) /\ Gathers(Taken, phase, seq)
                   /\ Len(seq) \in Nat \ {0} /\ Len(seq) <= Len(Taken)
      BY <2>3, <3>2, Continuing, Zenon
    <3>4. Taken \in Seq(Byte) /\ Len(Taken) \in Nat \ {0} /\ Whole(Taken)
      BY <3>3, Zenon DEF Awaits
    <3>5. /\ \A i \in 1 .. Len(seq) : seq[i] = Taken[i]
          /\ Len(seq) = Len(Taken) => seq = Taken
          /\ Len(seq) < Len(Taken) => s = SubSeq(Taken, 1, Len(seq) + 1)
      BY <1>2, <3>3, ByteOfKey, Zenon
    <3>6. Len(seq) < Len(Taken) /\ 1 \in 1 .. Len(seq)
      BY <3>1, <3>3, <3>4, <3>5
    <3>7. Taken[1] = Escape
      <4>1. seq[1] = Escape
        BY <1>1, <3>3 DEF Gathers
      <4> QED BY <3>5, <3>6, <4>1
    <3> DEFINE n == Len(seq)
    <3>8. s = SubSeq(Taken, 1, n + 1) /\ n \in Nat /\ n # 0 /\ n < Len(Taken)
      BY <3>3, <3>5, <3>6
    <3> HIDE DEF s, n
    <3>9. Gathers(Taken, p, s)
      BY <3>4, <3>7, <3>8, EscapesKey, Zenon DEF p
    <3>10. Parsing(owed, Len(events), p, s)
      BY <3>3, <3>9, AwaitsParsing, Zenon
    <3> QED BY <1>1, <2>1, <2>3, <3>10, ByteTaken, Zenon DEF s
  <2> QED BY <1>2, <2>1, <2>2, <2>3, UndisturbedHistory, Zenon DEF History
<1> QED BY <1>1, <1>3, <1>4, Zenon DEF Interrupted

LEMMA GatheringHistory ==
  ASSUME Legible, IInv, History, Gathering
  PROVE  History'
<1> DEFINE s == Append(seq, Head(bytes))
           p == IF Len(s) < Size(s[1]) THEN "rune" ELSE "emits"
<1>1. phase = "rune" /\ Receives(p, s) /\ UNCHANGED <<owed, meant, disturbed>>
  BY Zenon DEF Gathering, told
<1>2. bytes # <<>> /\ UNCHANGED closed
  BY <1>1, Zenon DEF Receives
<1> HIDE DEF p
<1>3. ASSUME Faithful PROVE Faithful'
  <2>1. phase \in {"escape", "rune"}
    BY <1>1
  <2>2. PICK Y : /\ Awaits(Y) /\ Gathers(Taken, phase, seq)
                 /\ Len(seq) \in Nat \ {0} /\ Len(seq) <= Len(Taken)
    BY <1>3, <2>1, Continuing, Zenon
  <2>3. Taken \in Seq(Byte) /\ Len(Taken) \in Nat \ {0} /\ Whole(Taken)
    BY <2>2, Zenon DEF Awaits
  <2>4. /\ \A i \in 1 .. Len(seq) : seq[i] = Taken[i]
        /\ Len(seq) < Len(Taken) => s = SubSeq(Taken, 1, Len(seq) + 1)
    BY <1>2, <2>2, ByteOfKey, Zenon
  <2>5. Len(seq) < Len(Taken) /\ seq[1] # Escape /\ 1 \in 1 .. Len(seq)
    BY <1>1, <2>2, <2>3 DEF Gathers
  <2>6. Taken[1] # Escape
    BY <2>4, <2>5
  <2> DEFINE n == Len(seq)
  <2>7. s = SubSeq(Taken, 1, n + 1) /\ n \in Nat /\ n # 0 /\ n < Len(Taken)
    BY <2>2, <2>4, <2>5
  <2> HIDE DEF s, n
  <2>8. Gathers(Taken, p, s)
    BY <2>3, <2>6, <2>7, GathersKey, Zenon DEF p
  <2>9. Parsing(owed, Len(events), p, s)
    BY <2>2, <2>8, AwaitsParsing, Zenon
  <2> QED BY <1>1, <1>3, <2>9, ByteTaken, Zenon DEF s
<1> QED BY <1>1, <1>2, <1>3, UndisturbedHistory, Zenon

LEMMA TimesOutHistory ==
  ASSUME Legible, IInv, History, TimesOut
  PROVE  History'
<1>1. /\ phase \in {"escape", "rune"} /\ phase' = "emits" /\ Cut
      /\ UNCHANGED <<wire, bytes, seq, events, closed, editor, verdict>>
  BY Zenon DEF TimesOut, ui
<1>2. CASE Disturbs
  BY <1>2, DisturbedHistory
<1>3. CASE (disturbed \/ seq = Taken) /\ UNCHANGED told
  <2>1. UNCHANGED <<owed, meant, disturbed>>
    BY <1>3, Zenon DEF told
  <2>2. CASE disturbed
    BY <1>1, <2>1, <2>2, ClosedHistory, Zenon
  <2>3. ASSUME ~disturbed, Faithful PROVE Faithful'
    <3>1. seq = Taken
      BY <1>3, <2>3
    <3>2. PICK Y : Awaits(Y)
      BY <1>1, <2>3, Continuing, Zenon
    <3>3. Gathers(Taken, "emits", seq)
      BY <3>1 DEF Gathers
    <3>4. Parsing(owed, Len(events), "emits", seq)
      BY <3>2, <3>3, AwaitsParsing, Zenon
    <3>5. OnTheWay' = OnTheWay
      BY <1>1 DEF OnTheWay
    <3> QED BY <1>1, <2>1, <2>3, <3>4, <3>5, SplitUp
  <2> QED BY <1>1, <2>1, <2>2, <2>3, UndisturbedHistory, Zenon
<1> QED BY <1>1, <1>2, <1>3, Zenon DEF Cut

LEMMA AppendTells ==
  ASSUME NEW ks, NEW evs, AreEvents(evs), Telling(ks, evs),
         Len(evs) + 1 \in 1 .. Len(ks), NEW ev, ev = Decode(Bytes[ks[Len(evs) + 1]])
  PROVE  Telling(ks, Append(evs, ev)) /\ Len(Append(evs, ev)) = Len(evs) + 1
<1>1. PICK T : evs \in Seq(T)
  BY Zenon DEF AreEvents
<1> DEFINE n == Len(evs)
           q == Append(evs, ev)
<1>2. /\ n \in Nat /\ Len(q) = n + 1 /\ q[n + 1] = ev
      /\ \A i \in 1 .. n : q[i] = evs[i]
  BY <1>1
<1>3. ks \in Seq(Keys) /\ n + 1 \in 0 .. Len(ks) /\ \A i \in 1 .. n : evs[i] = Decode(Bytes[ks[i]])
  BY DEF Telling
<1> HIDE DEF q
<1>4. ASSUME NEW i \in 1 .. n + 1 PROVE q[i] = Decode(Bytes[ks[i]])
  <2>1. CASE i = n + 1
    BY <1>2, <2>1, Zenon DEF n
  <2>2. CASE i # n + 1
    <3>1. i \in 1 .. n
      BY <1>2, <2>2
    <3> QED BY <1>2, <1>3, <3>1, Zenon
  <2> QED BY <2>1, <2>2
<1> QED BY <1>2, <1>3, <1>4, Zenon DEF Telling, q

LEMMA EmitsHistory ==
  ASSUME Legible, IInv, History, Emits
  PROVE  History'
<1>1. /\ phase = "emits" /\ phase' = "idle" /\ seq' = <<>>
      /\ events' = Append(events, Decode(seq)) \/ closed
      /\ UNCHANGED <<wire, bytes, closed, editor, verdict, owed, meant, disturbed>>
  BY Zenon DEF Emits, ui, told
<1>2. CASE closed
  BY <1>1, <1>2, ClosedHistory, Zenon
<1>3. ASSUME ~closed, Faithful PROVE Faithful'
  <2>1. Parsing(owed, Len(events), phase, seq) /\ Telling(owed, events)
    BY <1>3, Zenon DEF Faithful
  <2>2. Gathers(Taken, "emits", seq)
    BY <1>1, <2>1 DEF Parsing, Taken
  <2>3. seq \in Seq(Byte) /\ bytes \o wire \in Seq(Byte) /\ OnTheWay = seq \o (bytes \o wire)
    BY BytesAre, Zenon DEF OnTheWay
  <2>4. seq # <<>>
    BY <1>1 DEF IInv, ReaderOK
  <2>5. OnTheWay # <<>>
    BY <2>3, <2>4
  <2>6. PICK Y : Awaits(Y)
    BY <1>3, <2>5, TakesKey, Zenon
  <2> DEFINE r == bytes \o wire
  <2>7. seq = Taken /\ r = Y
    <3>1. Taken \in Seq(Byte) /\ Y \in Seq(Byte) /\ seq \o r = Taken \o Y
      BY <2>3, <2>6, Zenon DEF Awaits
    <3>2. Len(seq) = Len(Taken) /\ Len(seq) <= Len(Taken)
      BY <2>2, <2>3 DEF Gathers
    <3> HIDE DEF r
    <3>3. Begins(seq, r, Taken, Y)
      BY <2>3, <3>1, <3>2, Prefixed, Zenon DEF r
    <3> QED BY <3>2, <3>3, Zenon DEF Begins
  <2>8. OnTheWay' = r
    <3>1. OnTheWay' = <<>> \o r
      BY <1>1 DEF OnTheWay
    <3> QED BY <2>3, <3>1
  <2>9. events' = Append(events, Decode(Bytes[owed[Len(events) + 1]]))
    BY <1>1, <1>3, <2>7, Zenon DEF Taken
  <2>10. Telling(owed, events') /\ Len(events') = Len(events) + 1
    <3>1. Len(events) + 1 \in 1 .. Len(owed) /\ AreEvents(events)
      BY <2>6, Zenon DEF Awaits, IInv
    <3> QED BY <2>1, <2>9, <3>1, AppendTells, Zenon
  <2>11. Spells(owed, Len(events'), OnTheWay')
    BY <2>6, <2>7, <2>8, <2>10, Zenon DEF Awaits
  <2>12. Parsing(owed, Len(events'), phase', seq')
    BY <1>1, Zenon DEF Parsing
  <2>13. Good(editor') /\ LeadsTo(editor', verdict', owed', meant')
    BY <1>1, <1>3, Zenon DEF Faithful
  <2> QED BY <1>1, <2>10, <2>11, <2>12, <2>13, Zenon DEF Faithful
<1> QED BY <1>1, <1>2, <1>3, UndisturbedHistory, Zenon

LEMMA ParsesHistory ==
  ASSUME Legible, IInv, History, Parses
  PROVE  History'
<1>1. CASE SeesClosed
  <2>1. closed /\ UNCHANGED <<closed, owed, meant, disturbed>>
    BY <1>1, Zenon DEF SeesClosed, told
  <2> QED BY <2>1, ClosedHistory, Zenon
<1> QED BY <1>1, StartingHistory, EscapingHistory, GatheringHistory, TimesOutHistory,
           EmitsHistory, Zenon DEF Parses

-----------------------------------------------------------------------------
(* The operator's steps.                                                   *)

LEMMA PressesHistory ==
  ASSUME IInv, History, NEW key \in Keys, Presses(key)
  PROVE  History'
<1>1. /\ ~disturbed /\ ~closed /\ wire' = wire \o Bytes[key]
      /\ key \in Clicking => owed = <<>>
      /\ owed' = Append(owed, key) /\ meant' = Means(editor, meant, key)
      /\ UNCHANGED <<bytes, phase, seq, events, closed, editor, verdict, disturbed>>
  BY Zenon DEF Presses, parser, ui, Clicking
<1>2. Faithful
  BY <1>1, Zenon DEF History
<1> DEFINE d == Len(events)
           B == Bytes[key]
<1>3. /\ owed \in Seq(Keys) /\ d \in 0 .. Len(owed) /\ Telling(owed, events)
      /\ Spells(owed, d, OnTheWay) /\ LeadsTo(editor, verdict, owed, meant)
      /\ Parsing(owed, d, phase, seq) /\ Good(editor)
  BY <1>2, Zenon DEF Faithful, Telling
<1>4. /\ owed' \in Seq(Keys) /\ Len(owed') = Len(owed) + 1 /\ Len(owed) \in Nat /\ d \in Nat
      /\ \A i \in 1 .. Len(owed) : owed'[i] = owed[i]
  <2> HIDE DEF d
  <2> QED BY <1>1, <1>3
<1>5. OnTheWay' = OnTheWay \o B
  <2>1. /\ seq \in Seq(Byte) /\ bytes \in Seq(Byte) /\ wire \in Seq(Byte) /\ bytes \o wire \in Seq(Byte)
        /\ B \in Seq(Byte)
    BY BytesAre, KeyBytes, Zenon
  <2> HIDE DEF B
  <2>2. Either(bytes, wire, B) /\ Either(seq, bytes \o wire, B)
    BY <2>1, Assoc, Zenon
  <2>3. OnTheWay' = seq \o (bytes \o (wire \o B))
    BY <1>1, Zenon DEF OnTheWay, B
  <2> QED BY <2>2, <2>3, Zenon DEF OnTheWay, Either
<1> HIDE DEF B
<1>6. Spells(owed', d, OnTheWay')
  <2>1. Spells(Append(owed, key), d, OnTheWay \o Bytes[key])
    <3> HIDE DEF d
    <3> QED BY <1>3, SpellsMore, Zenon
  <2> QED BY <1>1, <1>5, <2>1, Zenon DEF B
<1>7. LeadsTo(editor, verdict, owed', meant')
  <2>1. LeadsTo(editor, verdict, Append(owed, key), Means(editor, meant, key))
    BY <1>1, <1>3, LeadsOn, Zenon
  <2> QED BY <1>1, <2>1, Zenon
<1>8. Telling(owed', events)
  <2>1. /\ d \in 0 .. Len(owed') /\ \A i \in 1 .. d : i \in 1 .. Len(owed)
        /\ \A i \in 1 .. d : owed'[i] = owed[i]
    BY <1>3, <1>4
  <2> QED BY <1>3, <1>4, <2>1, Zenon DEF Telling
<1>9. Parsing(owed', d, phase, seq)
  <2>1. d + 1 \in 1 .. Len(owed) => d + 1 \in 1 .. Len(owed') /\ owed'[d + 1] = owed[d + 1]
    BY <1>4
  <2> HIDE DEF d
  <2> QED BY <1>3, <2>1, Zenon DEF Parsing
<1>10. Faithful'
  BY <1>1, <1>3, <1>6, <1>7, <1>8, <1>9, Zenon DEF Faithful
<1> QED BY <1>1, <1>10, Zenon DEF History

(* With the next message all is as meant.                                  *)
LEMMA FreshIsFaithful ==
  ASSUME Good(editor), Written(editor, verdict) = meant, owed = <<>>, events = <<>>,
         wire = <<>>, bytes = <<>>, seq = <<>>, phase = "idle"
  PROVE  Faithful
<1>1. Len(events) = 0 /\ owed \in Seq(Keys) /\ Len(owed) = 0 /\ OnTheWay = <<>>
  BY DEF OnTheWay
<1>2. Telling(owed, events)
  BY <1>1 DEF Telling
<1>3. Spells(owed, Len(events), OnTheWay)
  BY <1>1, SpellsNothing, Zenon
<1>4. LeadsTo(editor, verdict, owed, meant)
  BY LeadsNowhere, Zenon
<1> QED BY <1>2, <1>3, <1>4, Zenon DEF Faithful, Parsing

LEMMA OpenedIsFresh == Good(Opened) /\ Written(Opened, "none") = Fresh
BY OpenedBecomes, Zenon DEF Becomes, Fresh

LEMMA InitHistory == Init => History
<1> SUFFICES ASSUME Init PROVE History
  OBVIOUS
<1>1. /\ wire = <<>> /\ bytes = <<>> /\ phase = "idle" /\ seq = <<>> /\ events = <<>>
      /\ editor = Opened /\ verdict = "none" /\ owed = <<>> /\ meant = Fresh
      /\ disturbed = FALSE
  BY Zenon DEF Init
<1>2. Faithful
  BY <1>1, OpenedIsFresh, FreshIsFaithful
<1> QED BY <1>1, <1>2, Zenon DEF History

LEMMA StartsAnewHistory ==
  ASSUME IInv, History, StartsAnew
  PROVE  History'
<1>1. /\ disturbed /\ wire = <<>> /\ bytes = <<>> /\ phase = "idle" /\ events = <<>>
      /\ editor' = Opened /\ verdict' = "none" /\ disturbed' = FALSE
      /\ UNCHANGED <<owed, meant, wire, bytes, phase, seq, events, closed>>
  BY Zenon DEF StartsAnew, Quiet, parser
<1>2. owed = <<>> /\ meant = Fresh
  BY <1>1, Zenon DEF History
<1>3. seq = <<>>
  BY <1>1 DEF IInv, ReaderOK
<1> DEFINE n == <<>>
<1>4. Good(editor') /\ Written(editor', verdict') = meant'
  BY <1>1, <1>2, OpenedIsFresh
<1>5. Telling(n, n) /\ Spells(n, 0, n) /\ Len(n) = 0 /\ n \o (n \o n) = n
  BY SpellsNothing DEF Telling
<1>6. LeadsTo(editor', verdict', n, meant')
  BY <1>4, LeadsNowhere, Zenon
<1>7. /\ owed' = n /\ events' = n /\ wire' = n /\ bytes' = n /\ seq' = n /\ phase' = "idle"
  BY <1>1, <1>2, <1>3
<1> HIDE DEF n
<1>8. OnTheWay' = n
  BY <1>5, <1>7, Zenon DEF OnTheWay
<1>9. Parsing(owed', Len(events'), phase', seq')
  BY <1>7, Zenon DEF Parsing, n
<1>10. Faithful'
  BY <1>4, <1>5, <1>6, <1>7, <1>8, <1>9, Zenon DEF Faithful
<1> QED BY <1>1, <1>10, Zenon DEF History

-----------------------------------------------------------------------------
(* The UI takes the first event.                                           *)

LEMMA TailTells ==
  ASSUME NEW ks, NEW evs, AreEvents(evs), evs # <<>>, Telling(ks, evs)
  PROVE  /\ Telling(Tail(ks), Tail(evs)) /\ Len(Tail(evs)) = Len(evs) - 1
         /\ Len(evs) \in 1 .. Len(ks)
         /\ ks # <<>> /\ ks[1] \in Keys /\ Head(evs) = Decode(Bytes[ks[1]])
<1>1. PICK T : evs \in Seq(T)
  BY Zenon DEF AreEvents
<1> DEFINE n == Len(evs)
           q == Tail(evs)
           js == Tail(ks)
<1>2. /\ n \in Nat /\ n # 0 /\ Len(q) = n - 1 /\ Head(evs) = evs[1]
      /\ \A i \in 1 .. n - 1 : q[i] = evs[i + 1]
  BY <1>1
<1>3. ks \in Seq(Keys) /\ n \in 0 .. Len(ks) /\ \A i \in 1 .. n : evs[i] = Decode(Bytes[ks[i]])
  BY Zenon DEF Telling
<1> HIDE DEF q, n
<1>4. Len(ks) \in Nat \ {0} /\ n \in 1 .. Len(ks) /\ 1 \in 1 .. n
  BY <1>2, <1>3
<1>5. ks # <<>> /\ ks[1] \in Keys
  BY <1>3, <1>4
<1>6. /\ js \in Seq(Keys) /\ Len(js) = Len(ks) - 1
      /\ \A i \in 1 .. Len(ks) - 1 : js[i] = ks[i + 1]
  BY <1>3, <1>4
<1> HIDE DEF js
<1>7. ASSUME NEW i \in 1 .. n - 1 PROVE q[i] = Decode(Bytes[js[i]])
  <2>1. i + 1 \in 1 .. n /\ i \in 1 .. Len(ks) - 1
    BY <1>2, <1>4
  <2>2. q[i] = evs[i + 1] /\ js[i] = ks[i + 1]
    BY <1>2, <1>6, <2>1
  <2> QED BY <1>3, <2>1, <2>2, Zenon
<1>8. n - 1 \in 0 .. Len(js)
  BY <1>2, <1>4, <1>6
<1>9. Telling(js, q)
  BY <1>2, <1>6, <1>7, <1>8, Zenon DEF Telling
<1> QED BY <1>2, <1>3, <1>4, <1>5, <1>9, Zenon DEF q, js, n

LEMMA TailParses ==
  ASSUME NEW ks \in Seq(Keys), NEW d \in 1 .. Len(ks), NEW p, NEW s, Parsing(ks, d, p, s)
  PROVE  Parsing(Tail(ks), d - 1, p, s)
<1> DEFINE js == Tail(ks)
<1>1. /\ Len(ks) \in Nat \ {0} /\ d \in Nat \ {0} /\ Len(js) = Len(ks) - 1
      /\ \A i \in 1 .. Len(ks) - 1 : js[i] = ks[i + 1]
  OBVIOUS
<1> HIDE DEF js
<1>2. d + 1 \in 1 .. Len(ks) => d - 1 + 1 \in 1 .. Len(js) /\ js[d - 1 + 1] = ks[d + 1]
  BY <1>1
<1>3. Parsing(js, d - 1, p, s)
  BY <1>2, Zenon DEF Parsing
<1> QED BY <1>3, Zenon DEF js

LEMMA HandlesHistory ==
  ASSUME Legible, IInv, History, Handles
  PROVE  History'
<1>1. /\ ~closed /\ events # <<>> /\ events' = Tail(events)
      /\ Took(editor, Head(events), editor', verdict')
      /\ owed' = IF disturbed THEN owed ELSE Tail(owed)
      /\ UNCHANGED <<wire, bytes, phase, seq, closed, meant, disturbed>>
  BY Zenon DEF Handles, Took, Edits, parser
<1>2. CASE disturbed
  <2>1. UNCHANGED <<closed, owed, meant, disturbed>>
    BY <1>1, <1>2, Zenon
  <2> QED BY <1>2, <2>1, ClosedHistory, Zenon
<1>3. CASE ~disturbed
  <2> DEFINE d == Len(events)
             k == owed[1]
  <2>1. Faithful
    BY <1>1, <1>3, Zenon DEF History
  <2>2. /\ Good(editor) /\ LeadsTo(editor, verdict, owed, meant) /\ Telling(owed, events)
        /\ Spells(owed, d, OnTheWay) /\ Parsing(owed, d, phase, seq) /\ owed \in Seq(Keys)
    BY <2>1, Zenon DEF Faithful, Telling
  <2>3. /\ Telling(Tail(owed), Tail(events)) /\ Len(Tail(events)) = d - 1
        /\ d \in 1 .. Len(owed)
        /\ owed # <<>> /\ k \in Keys /\ Head(events) = Decode(Bytes[k])
    <3>1. AreEvents(events)
      BY Zenon DEF IInv
    <3> QED BY <1>1, <2>2, <3>1, TailTells, Zenon
  <2>4. Tells(k, Head(events))
    BY <2>3, Zenon DEF Legible
  <2> HIDE DEF k, d
  <2>5. Becomes(editor', verdict', Means(editor, Written(editor, verdict), k))
    BY <1>1, <2>2, <2>4, HandledAsMeant, Zenon
  <2>6. LeadsTo(editor', verdict', Tail(owed), meant)
    BY <2>2, <2>3, <2>5, LeadsOff, Zenon DEF Becomes, k
  <2>7. Spells(Tail(owed), d - 1, OnTheWay)
    BY <2>2, <2>3, SpellsTail, Zenon
  <2>8. Parsing(Tail(owed), d - 1, phase, seq)
    BY <2>2, <2>3, TailParses, Zenon
  <2>9. OnTheWay' = OnTheWay /\ owed' = Tail(owed)
    BY <1>1, <1>3 DEF OnTheWay
  <2>10. Good(editor')
    BY <2>5, Zenon DEF Becomes
  <2>11. Faithful'
    BY <1>1, <2>3, <2>6, <2>7, <2>8, <2>9, <2>10, Zenon DEF Faithful
  <2> QED BY <1>1, <1>3, <2>11, Zenon DEF History
<1> QED BY <1>2, <1>3

LEMMA NextHistory ==
  ASSUME Legible, IInv, History, [Next]_vars
  PROVE  History'
<1>1. CASE \E key \in Keys : Presses(key)
  BY <1>1, PressesHistory, Zenon
<1>2. CASE StartsAnew
  BY <1>2, StartsAnewHistory, Zenon
<1>3. CASE Reads \/ ReadEnds
  BY <1>3, ReadsHistory, Zenon
<1>4. CASE Parses
  BY <1>4, ParsesHistory, Zenon
<1>5. CASE Handles
  BY <1>5, HandlesHistory, Zenon
<1>6. CASE Closes
  BY <1>6, ClosesHistory, Zenon
<1>7. CASE UNCHANGED vars
  BY <1>7, StutterHistory, Zenon
<1> QED BY <1>1, <1>2, <1>3, <1>4, <1>5, <1>6, <1>7, Zenon DEF Next

(* If the reader can tell the bytes of every key from the others', then,   *)
(* however they are split up and however full the channels are, every key  *)
(* that has been handled has done to the message what it was meant to do.  *)
THEOREM DecodesAsTypedAlways == ASSUME Legible PROVE Spec => []DecodesAsTyped
<1>1. Init => IInv /\ History
  BY InitInv, InitHistory, Zenon
<1>2. (IInv /\ History) /\ [Next]_vars => (IInv /\ History)'
  BY NextInv, NextHistory, Zenon
<1>3. IInv /\ History => DecodesAsTyped
  BY HistoryIs, Zenon
<1> QED BY <1>1, <1>2, <1>3, PTL DEF Spec
=============================================================================
