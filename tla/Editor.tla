------------------------------- MODULE Editor -------------------------------
(***************************************************************************)
(* The text editor a held message is edited in: internal/tui/editor.go.    *)
(*                                                                         *)
(* An editor is a record: its lines (never none), the cursor in front of   *)
(* which cx characters of line cy stand, and the lines and columns that    *)
(* are scrolled away.  Lines count from one, columns and scrolling from    *)
(* zero.  Every operation returns the editor it leaves.                    *)
(***************************************************************************)
EXTENDS Integers, Sequences, SequencesExt

Newline == 10

(* NewEditor, of the lines of a message.                                   *)
NewEditor(lines) == [lines |-> lines, cy |-> 1, cx |-> 0, top |-> 0, left |-> 0]

(* Text, of the lines that are written out one after the other.            *)
TextOf(lines) ==
  LET upTo[n \in 0 .. Len(lines)] ==
        IF n = 0 THEN <<>> ELSE IF n = 1 THEN lines[1]
        ELSE upTo[n - 1] \o <<Newline>> \o lines[n]
  IN upTo[Len(lines)]

Text(e) == TextOf(e.lines)

Line(e) == e.lines[e.cy]

At(e, cy, cx) == [e EXCEPT !.cy = cy, !.cx = cx]

Insert(e, c) ==
  [e EXCEPT !.lines[e.cy] = InsertAt(@, e.cx + 1, c), !.cx = @ + 1]

Split(e) ==
  LET head == SubSeq(Line(e), 1, e.cx)
      tail == SubSeq(Line(e), e.cx + 1, Len(Line(e)))
  IN At([e EXCEPT !.lines = InsertAt([@ EXCEPT ![e.cy] = head], e.cy + 1, tail)],
        e.cy + 1, 0)

(* Line k takes in the one after it.                                       *)
Joined(lines, k) ==
  RemoveAt([lines EXCEPT ![k] = @ \o lines[k + 1]], k + 1)

(* Variant: joining with the line above leaves the column as it is.        *)
BackspaceKeepsColumn(e) ==
  IF e.cx > 0
  THEN [e EXCEPT !.lines[e.cy] = RemoveAt(@, e.cx), !.cx = @ - 1]
  ELSE IF e.cy > 1
  THEN [e EXCEPT !.lines = Joined(@, e.cy - 1), !.cy = @ - 1]
  ELSE e

Backspace(e) ==
  IF e.cx > 0
  THEN [e EXCEPT !.lines[e.cy] = RemoveAt(@, e.cx), !.cx = @ - 1]
  ELSE IF e.cy > 1
  THEN At([e EXCEPT !.lines = Joined(@, e.cy - 1)], e.cy - 1, Len(e.lines[e.cy - 1]))
  ELSE e

Delete(e) ==
  IF e.cx < Len(Line(e)) THEN [e EXCEPT !.lines[e.cy] = RemoveAt(@, e.cx + 1)]
  ELSE IF e.cy < Len(e.lines) THEN [e EXCEPT !.lines = Joined(@, e.cy)]
  ELSE e

MoveLeft(e) ==
  IF e.cx > 0 THEN At(e, e.cy, e.cx - 1)
  ELSE IF e.cy > 1 THEN At(e, e.cy - 1, Len(e.lines[e.cy - 1])) ELSE e

MoveRight(e) ==
  IF e.cx < Len(Line(e)) THEN At(e, e.cy, e.cx + 1)
  ELSE IF e.cy < Len(e.lines) THEN At(e, e.cy + 1, 0) ELSE e

Home(e) == At(e, e.cy, 0)
End(e)  == At(e, e.cy, Len(Line(e)))

Least(a, b) == IF a < b THEN a ELSE b
Most(a, b)  == IF a < b THEN b ELSE a

(* MoveUp, MoveDown, PageUp, PageDown with clamp.                          *)
ToLine(e, k) ==
  LET cy == Most(1, Least(k, Len(e.lines)))
  IN At(e, cy, Least(e.cx, Len(e.lines[cy])))

(* SetCursorFromClick, of a cell of the viewport.                          *)
Clicked(e, x, y) ==
  LET cy == Most(1, Least(e.top + y + 1, Len(e.lines)))
  IN At(e, cy, Most(0, Least(e.left + x, Len(e.lines[cy]))))

(* Variant: the last row counts as visible when it is scrolled out.        *)
EnsureVisibleLate(e, w, h) ==
  [e EXCEPT !.top = IF e.cy - 1 < @ THEN e.cy - 1
                    ELSE IF e.cy - 1 > @ + h THEN e.cy - h ELSE @,
            !.left = IF e.cx < @ THEN e.cx
                     ELSE IF e.cx >= @ + w THEN e.cx - w + 1 ELSE @]

(* EnsureVisible, in a viewport of w columns and h rows.                   *)
EnsureVisible(e, w, h) ==
  [e EXCEPT !.top = IF e.cy - 1 < @ THEN e.cy - 1
                    ELSE IF e.cy - 1 >= @ + h THEN e.cy - h ELSE @,
            !.left = IF e.cx < @ THEN e.cx
                     ELSE IF e.cx >= @ + w THEN e.cx - w + 1 ELSE @]
=============================================================================
