------------------------------ MODULE Terminal ------------------------------
(***************************************************************************)
(* From the keys an operator presses to the message being edited: the      *)
(* reader of internal/term/input.go, which takes the terminal's bytes      *)
(* apart, and the part of internal/tui/app.go that hands its events to the *)
(* editor.                                                                 *)
(*                                                                         *)
(* A key is one byte or several.  Two goroutines pass them on: one reads   *)
(* the terminal into a channel of bytes, the other collects the bytes of   *)
(* an escape sequence or of a character and sends an event.  It tells the  *)
(* Esc key from the start of a sequence by waiting for 25 ms, and so takes *)
(* a sequence that arrives in pieces apart.                                *)
(***************************************************************************)
EXTENDS Editor, TextBuffer, TLC

CONSTANTS
  Keys,      \* the keys, and other things a terminal reports
  Hasty,     \* those that are pressed before another one is handled
  Bytes,     \* what the terminal sends for each
  Columns,   \* columns of the editor's viewport
  Rows,      \* its rows
  Message,   \* the lines of a message that is held
  ByteCap,   \* capacity of Reader.bytes
  EventCap,  \* capacity of Reader.events
  MaxSeq,    \* the longest sequence waited for
  MaxOwed,   \* bound on the keys whose effect is not on the screen yet
  MaxText    \* bound on the text, as far as it is typed by the operator

ASSUME TerminalAssumption ==
  /\ Hasty \subseteq Keys
  /\ Bytes \in [Keys -> Seq(0 .. 255) \ {<<>>}]
  /\ Columns \in Nat \ {0} /\ Rows \in Nat \ {0}
  /\ Message \in Seq(Seq(Nat \ {Newline})) \ {<<>>}
  /\ ByteCap \in Nat \ {0} /\ EventCap \in Nat \ {0} /\ MaxSeq \in Nat \ {0}

VARIABLES
  wire,       \* bytes the terminal has and readLoop has not passed on
  bytes,      \* Reader.bytes
  phase,      \* parseLoop: idle, collecting an escape or a rune, emitting, ended
  seq,        \* the bytes it has collected
  events,     \* Reader.events
  reading,    \* readLoop has not returned
  closed,     \* Reader.closed
  editor,     \* App.editor
  verdict,    \* what the last key handled made of the message: none, dropped, sent
  owed,       \* history: the keys pressed and not handled yet
  meant,      \* history: the text and the verdict they were meant to lead to
  disturbed   \* history: a sequence came in pieces, or a key on top of Esc

vars == <<wire, bytes, phase, seq, events, reading, closed, editor, verdict,
          owed, meant, disturbed>>

parser == <<phase, seq>>
ui     == <<editor, verdict>>
told   == <<owed, meant, disturbed>>

-----------------------------------------------------------------------------
(* Decoding, on the bytes as they are.                                     *)

Escape == 27
Bad    == 65533   \* the replacement character

Key(name, rune, ctrl, alt) ==
  [kind |-> "key", name |-> name, rune |-> rune, ctrl |-> ctrl, alt |-> alt]
Named(name) == Key(name, 0, FALSE, FALSE)

Continues(b) == b \in 128 .. 191

(* The number of bytes a character has that starts with b.                 *)
Size(b) == IF b \in 192 .. 223 THEN 2 ELSE IF b \in 224 .. 239 THEN 3
           ELSE IF b \in 240 .. 247 THEN 4 ELSE 1

DecodeRune(s) ==
  LET n == Size(s[1])
      value == FoldLeft(LAMBDA v, b : v * 64 + (b % 64),
                        s[1] % (2 ^ (7 - n)), SubSeq(s, 2, n))
  IN IF s[1] < 128 THEN s[1]
     ELSE IF n = 1 \/ Len(s) < n \/ \E k \in 2 .. n : ~Continues(s[k]) THEN Bad
     ELSE value

FullRune(s) ==
  Len(s) >= Size(s[1]) \/ \E k \in 2 .. Len(s) : ~Continues(s[k])

(* Letters of control keys: only Ctrl-S means something to the editor.     *)
Control(b) == Key(IF b = 19 THEN "s" ELSE "letter", 0, TRUE, FALSE)

(* decodeByte, of a byte or of a character's bytes.                        *)
DecodeBytes(s) ==
  LET b == s[1]
  IN CASE b \in {10, 13} -> Named("enter")
       [] b = 9          -> Named("tab")
       [] b \in {8, 127} -> Named("backspace")
       [] b = 0          -> Key("space", 0, TRUE, FALSE)
       [] b \in (1 .. 31) \ {8, 9, 10, 13} -> Control(b)
       [] OTHER -> Key("", DecodeRune(s), FALSE, FALSE)

SeqComplete(s) ==
  /\ Len(s) >= 2
  /\ CASE s[2] = 91 -> IF Len(s) >= 3 /\ s[3] = 77 THEN Len(s) >= 6
                       ELSE \E k \in 3 .. Len(s) : s[k] \in 64 .. 126
       [] s[2] = 79 -> Len(s) >= 3
       [] s[2] >= 128 -> FullRune(Tail(s))
       [] OTHER -> TRUE

(* splitNums: the numbers between the semicolons, as far as they are       *)
(* numbers.                                                                *)
Nums(s) ==
  LET step(acc, b) ==
        IF acc.bad THEN acc
        ELSE CASE b = 59 -> [acc EXCEPT !.out = Append(@, acc.n), !.n = 0]
               [] b \in 48 .. 57 -> [acc EXCEPT !.n = @ * 10 + b - 48]
               [] OTHER -> [acc EXCEPT !.bad = TRUE]
      end == FoldLeft(step, [out |-> <<>>, n |-> 0, bad |-> FALSE], s)
  IN IF s = <<>> THEN <<>> ELSE IF end.bad THEN end.out ELSE Append(end.out, end.n)

Bit(n, k) == (n \div k) % 2 = 1

Mouse(x, y, does, wheel) ==
  [kind |-> "mouse", x |-> x, y |-> y, does |-> does, wheel |-> wheel]

(* decodeSGRMouse and, of one byte each, decodeX10Mouse.                   *)
DecodeMouse(code, x, y, final) ==
  CASE Bit(code, 64) -> Mouse(x, y, "wheel", IF code % 4 = 0 THEN -1 ELSE 1)
    [] ~Bit(code, 64) /\ Bit(code, 32) -> Mouse(x, y, "motion", 0)
    [] OTHER ->
       Mouse(x, y, IF final = 109 \/ code % 4 = 3 THEN "release" ELSE "press", 0)

DecodeX10(s) ==
  IF Len(s) < 6 THEN Mouse(0, 0, "none", 0)
  ELSE DecodeMouse(s[4] - 32, s[5] - 33, s[6] - 33, 77)

Letters == 65 :> "up" @@ 66 :> "down" @@ 67 :> "right" @@ 68 :> "left"
           @@ 72 :> "home" @@ 70 :> "end"
Tildes == 1 :> "home" @@ 7 :> "home" @@ 3 :> "delete" @@ 4 :> "end" @@ 8 :> "end"
          @@ 5 :> "pgup" @@ 6 :> "pgdn" @@ 21 :> "f10"

Ss3Key(b) == Named(IF b \in DOMAIN Letters THEN Letters[b] ELSE "unknown")

ParseCSI(s) ==
  LET body == SubSeq(s, 3, Len(s))
      final == IF body = <<>> THEN 0 ELSE Last(body)
      params == IF body = <<>> THEN <<>> ELSE Front(body)
      nums == Nums(params)
      mods == IF Len(nums) >= 2 THEN Last(nums) - 1 ELSE 0
      number == IF nums = <<>> THEN 0 ELSE Head(nums)
      name == CASE final \in DOMAIN Letters -> Letters[final]
                [] final = 126 /\ number \in DOMAIN Tildes -> Tildes[number]
                [] OTHER -> "unknown"
      report == Nums(Tail(params))
  IN IF params # <<>> /\ Head(params) = 60
     THEN IF Len(report) >= 3
          THEN DecodeMouse(report[1], report[2] - 1, report[3] - 1, final)
          ELSE Named("unknown")
     ELSE Key(name, 0, Bit(mods, 4), Bit(mods, 2))

ParseEscape(s) ==
  CASE Len(s) = 1 -> Named("esc")
    [] Len(s) >= 2 /\ s[2] = 91 ->
         IF Len(s) >= 3 /\ s[3] = 77 THEN DecodeX10(s) ELSE ParseCSI(s)
    [] Len(s) >= 2 /\ s[2] = 79 -> IF Len(s) >= 3 THEN Ss3Key(s[3]) ELSE Named("esc")
    [] OTHER -> LET r == DecodeRune(Tail(s))
                IN IF r = Escape THEN Named("esc") ELSE Key("", r, FALSE, TRUE)

Decode(s) == IF s[1] = Escape THEN ParseEscape(s) ELSE DecodeBytes(s)

-----------------------------------------------------------------------------
(* The editor's keys: what they do to it, and what they are for.  Each key *)
(* is followed by a frame, which scrolls to the cursor.                    *)

Gutter == 5   \* columns before the first one of the text
Above  == 2   \* rows of the screen above the editor's box

Drawn(e) == EnsureVisible(e, Columns, Rows)

Opened == Drawn(NewEditor(Message))

(* The cell of the viewport a click is taken for.                          *)
CellX(ev) == ev.x - 1 - 1 - Gutter
CellY(ev) == ev.y - Above - 1

HandleMouse(e, ev) ==
  CASE ev.does = "wheel" -> ToLine(e, e.cy + 3 * ev.wheel)
    [] ev.does = "press" /\ CellY(ev) \in 0 .. Rows - 1 /\ ev.x \in 1 .. Columns + 9 ->
         Clicked(e, CellX(ev), CellY(ev))
    [] OTHER -> e

HandleKey(e, ev) ==
  CASE ev.name = "up"        -> ToLine(e, e.cy - 1)
    [] ev.name = "down"      -> ToLine(e, e.cy + 1)
    [] ev.name = "left"      -> MoveLeft(e)
    [] ev.name = "right"     -> MoveRight(e)
    [] ev.name = "home"      -> Home(e)
    [] ev.name = "end"       -> End(e)
    [] ev.name = "pgup"      -> ToLine(e, e.cy - Rows)
    [] ev.name = "pgdn"      -> ToLine(e, e.cy + Rows)
    [] ev.name = "enter"     -> Split(e)
    [] ev.name = "tab"       -> Insert(Insert(e, 32), 32)
    [] ev.name = "backspace" -> Backspace(e)
    [] ev.name = "delete"    -> Delete(e)
    [] OTHER -> IF ev.rune # 0 /\ ~ev.ctrl THEN Insert(e, ev.rune) ELSE e

Drops(ev) == ev.kind = "key" /\ ev.name = "esc"
Sends(ev) == ev.kind = "key" /\ (ev.name = "f10" \/ (ev.name = "s" /\ ev.ctrl))

(* What each key is meant to do to the text that editor e shows.  A click  *)
(* is taken for the column the code makes of it, one to the right of the   *)
(* cell that was clicked (app.go:1671 counts from the border, views.go:1587*)
(* draws two cells from it).                                               *)
Means(e, u, key) ==
  LET t == [u EXCEPT !.verdict = "none"]
  IN CASE key = "x"         -> Put(t, 120)
       [] key = "alt-x"     -> Put(t, 120)
       [] key = "e acute"   -> Put(t, 233)
       [] key = "enter"     -> Put(t, LineEnd)
       [] key = "tab"       -> Put(Put(t, 32), 32)
       [] key = "backspace" -> EraseBehind(t)
       [] key = "delete"    -> EraseAhead(t)
       [] key = "left"      -> To(t, t.pos - 1)
       [] key \in {"right", "ctrl-right"} -> To(t, t.pos + 1)
       [] key = "home"      -> To(t, StartOf(t, t.pos))
       [] key = "end"       -> To(t, EndOf(t, t.pos))
       [] key = "up"        -> Lines(t, -1)
       [] key = "down"      -> Lines(t, 1)
       [] key = "pgdn"      -> Lines(t, Rows)
       [] key = "pgup"      -> Lines(t, -Rows)
       [] key = "wheel"     -> Lines(t, 3)
       [] key \in {"click", "old click"} -> Cell(t, e.top, e.left + 1)
       [] key \in {"esc", "send"} ->
            [text |-> Text(Opened), pos |-> 0,
             verdict |-> IF key = "esc" THEN "dropped" ELSE "sent"]
       [] OTHER -> t

(* The events the keys are to be told as.                                  *)
Types(ev, rune) == ev.kind = "key" /\ ev.name = "" /\ ev.rune = rune /\ ~ev.ctrl
Names(ev, name) == ev.kind = "key" /\ ev.name = name

Tells(key, ev) ==
  CASE key \in {"x", "alt-x"} -> Types(ev, 120)
    [] key = "e acute"        -> Types(ev, 233)
    [] key \in {"enter", "tab", "backspace", "delete", "left", "right", "home",
                "end", "up", "down", "pgup", "pgdn", "esc"} -> Names(ev, key)
    [] key = "ctrl-right"     -> Names(ev, "right")
    [] key = "send"           -> ev.kind = "key" /\ Sends(ev)
    [] key = "wheel" ->
         ev.kind = "mouse" /\ ev.does = "wheel" /\ ev.wheel = 1
    [] key \in {"click", "old click"} ->
         /\ ev.kind = "mouse" /\ ev.does = "press"
         /\ ev.x \in 1 .. Columns + 9 /\ CellX(ev) = 1 /\ CellY(ev) = 0
    [] OTHER -> \/ ev.kind = "mouse" /\ ev.does \notin {"wheel", "press"}
                \/ ev.kind = "key" /\ ev.name = "unknown" /\ ev.rune = 0

(* Bytes that are collected to their end, and no further.                  *)
Whole(s) ==
  IF s[1] = Escape
  THEN \A n \in 2 .. Len(s) - 1 : n <= MaxSeq /\ ~SeqComplete(SubSeq(s, 1, n))
  ELSE Len(s) = Size(s[1])

(* A terminal whose keys the reader can tell, as long as the bytes of each *)
(* come together.                                                          *)
Legible == \A key \in Keys : Whole(Bytes[key]) /\ Tells(key, Decode(Bytes[key]))

(* The text in front of the cursor.                                        *)
Ahead(e) == TextOf(Append(SubSeq(e.lines, 1, e.cy - 1), SubSeq(Line(e), 1, e.cx)))

Written(e, v) == [text |-> Text(e), pos |-> Len(Ahead(e)), verdict |-> v]

-----------------------------------------------------------------------------
Fresh == Written(Opened, "none")

Quiet == /\ wire = <<>> /\ bytes = <<>> /\ phase = "idle" /\ events = <<>>

Init ==
  /\ wire = <<>> /\ bytes = <<>> /\ phase = "idle" /\ seq = <<>> /\ events = <<>>
  /\ reading = TRUE /\ closed = FALSE
  /\ editor = Opened /\ verdict = "none"
  /\ owed = <<>> /\ meant = Fresh /\ disturbed = FALSE

(* The operator.  What is clicked on is what is on the screen.  Bound: the *)
(* terminal's own buffer holds one key at a time.                          *)
Presses(key) ==
  /\ reading /\ ~closed /\ ~disturbed /\ Len(owed) < MaxOwed
  /\ wire = <<>> /\ (owed # <<>> => key \in Hasty)
  /\ Len(Means(editor, meant, key).text) <= MaxText
  /\ key \in {"click", "old click"} => owed = <<>> /\ Quiet
  /\ wire' = wire \o Bytes[key]
  /\ owed' = Append(owed, key)
  /\ meant' = Means(editor, meant, key)
  /\ UNCHANGED <<bytes, parser, events, reading, closed, ui, disturbed>>

(* After a disturbance the operator looks at the message, drops it and     *)
(* starts with the next one.                                               *)
StartsAnew ==
  /\ disturbed /\ Quiet
  /\ editor' = Opened /\ verdict' = "none"
  /\ disturbed' = FALSE
  /\ UNCHANGED <<owed, meant, wire, bytes, parser, events, reading, closed>>

-----------------------------------------------------------------------------
(* readLoop.                                                               *)
Reads ==
  /\ reading /\ wire # <<>> /\ Len(bytes) < ByteCap
  /\ bytes' = Append(bytes, Head(wire)) /\ wire' = Tail(wire)
  /\ UNCHANGED <<parser, events, reading, closed, ui, told>>

(* It sees the reader closed while the channel is full, or the terminal    *)
(* reports its end.                                                        *)
ReadEnds ==
  /\ reading
  /\ \/ closed /\ wire # <<>> /\ Len(bytes) = ByteCap
     \/ wire = <<>>
  /\ reading' = FALSE
  /\ UNCHANGED <<wire, bytes, parser, events, closed, ui, told>>

-----------------------------------------------------------------------------
(* parseLoop.                                                              *)

(* The bytes of the key being taken apart, as long as nothing has gone     *)
(* wrong.                                                                  *)
Taken == Bytes[owed[Len(events) + 1]]

Disturbs == disturbed' = TRUE /\ owed' = <<>> /\ meant' = Fresh

Interrupted == IF ~disturbed /\ phase = "escape" /\ seq = Taken THEN Disturbs
               ELSE UNCHANGED told

(* Bound: the key that is cut is the last one that was pressed.            *)
Cut == IF disturbed \/ seq = Taken THEN UNCHANGED told
       ELSE Len(events) + 1 = Len(owed) /\ Disturbs

Receives(p, s) ==
  /\ bytes # <<>> /\ bytes' = Tail(bytes)
  /\ seq' = s /\ phase' = p
  /\ UNCHANGED <<wire, events, reading, closed, ui>>

(* next(0), and what follows from the first byte.                          *)
Starting ==
  /\ phase = "idle"
  /\ Receives(IF Head(bytes) = Escape THEN "escape"
              ELSE IF Size(Head(bytes)) > 1 THEN "rune" ELSE "emits",
              <<Head(bytes)>>)
  /\ UNCHANGED told

(* The next byte of an escape sequence, in time.                           *)
Escaping ==
  /\ phase = "escape"
  /\ LET s == Append(seq, Head(bytes))
     IN Receives(IF Len(s) > MaxSeq \/ SeqComplete(s) THEN "emits" ELSE "escape", s)
  /\ Interrupted

(* The next byte of a character, in time.                                  *)
Gathering ==
  /\ phase = "rune"
  /\ LET s == Append(seq, Head(bytes))
     IN Receives(IF Len(s) < Size(s[1]) THEN "rune" ELSE "emits", s)
  /\ UNCHANGED told

(* Variant: only escape sequences are given up after a time.               *)
TimesOutOnEscape ==
  /\ phase = "escape" /\ phase' = "emits" /\ Cut
  /\ UNCHANGED <<wire, bytes, seq, events, reading, closed, ui>>

(* 25 ms pass: what has been collected is all there is.                    *)
TimesOut ==
  /\ phase \in {"escape", "rune"} /\ phase' = "emits" /\ Cut
  /\ UNCHANGED <<wire, bytes, seq, events, reading, closed, ui>>

Emits ==
  /\ phase = "emits"
  /\ \/ Len(events) < EventCap /\ events' = Append(events, Decode(seq))
     \/ closed /\ UNCHANGED events
  /\ phase' = "idle" /\ seq' = <<>>
  /\ UNCHANGED <<wire, bytes, reading, closed, ui, told>>

(* Closed while waiting: a sequence is given up, then the loop.            *)
SeesClosed ==
  /\ closed
  /\ \/ phase = "idle" /\ phase' = "ended"
     \/ phase \in {"escape", "rune"} /\ phase' = "emits"
  /\ UNCHANGED <<wire, bytes, seq, events, reading, closed, ui, told>>

-----------------------------------------------------------------------------
Edits(e) == editor' = Drawn(e)

(* The UI takes an event.                                                  *)
Handles ==
  /\ ~closed /\ events # <<>> /\ events' = Tail(events)
  /\ LET ev == Head(events)
     IN \/ /\ ev.kind = "mouse" /\ Edits(HandleMouse(editor, ev))
           /\ verdict' = "none"
        \/ /\ Drops(ev) \/ Sends(ev)
           /\ editor' = Opened
           /\ verdict' = IF Drops(ev) THEN "dropped" ELSE "sent"
        \/ /\ ev.kind = "key" /\ ~Drops(ev) /\ ~Sends(ev)
           /\ Edits(HandleKey(editor, ev))
           /\ verdict' = "none"
  /\ owed' = IF disturbed THEN owed ELSE Tail(owed)
  /\ UNCHANGED <<wire, bytes, parser, reading, closed, meant, disturbed>>

(* The program leaves: Run's deferred Close.                               *)
Closes ==
  /\ ~closed /\ closed' = TRUE
  /\ UNCHANGED <<wire, bytes, parser, events, reading, ui, told>>

-----------------------------------------------------------------------------
Parses == Starting \/ Escaping \/ Gathering \/ TimesOut \/ Emits \/ SeesClosed

Next == \/ \E key \in Keys : Presses(key)
        \/ StartsAnew \/ Reads \/ ReadEnds \/ Parses \/ Handles \/ Closes

(* The goroutine of the parser runs and its timer fires; the UI handles    *)
(* its events.                                                             *)
Fairness == WF_vars(Parses) /\ WF_vars(Handles)

Spec == Init /\ [][Next]_vars /\ Fairness

-----------------------------------------------------------------------------
(* Every variable keeps its type: the editor always has a line, and its    *)
(* cursor is in the text.                                                  *)
TypeOK ==
  /\ wire \in Seq(0 .. 255) /\ bytes \in Seq(0 .. 255) /\ seq \in Seq(0 .. 255)
  /\ phase \in {"idle", "escape", "rune", "emits", "ended"}
  /\ phase \in {"idle", "ended"} <=> seq = <<>>
  /\ Len(bytes) <= ByteCap /\ Len(events) <= EventCap
  /\ reading \in BOOLEAN /\ closed \in BOOLEAN /\ disturbed \in BOOLEAN
  /\ verdict \in {"none", "dropped", "sent"}
  /\ editor.cy \in 1 .. Len(editor.lines) /\ editor.cx \in 0 .. Len(Line(editor))

(* However the bytes are split up and however full the channels are: when  *)
(* every key has been handled, the message, the cursor and what became of  *)
(* it are what the keys were meant to do.  Two things excepted, which the  *)
(* reader cannot tell: bytes of one key that come more than 25 ms apart,   *)
(* and a key that follows Esc within 25 ms.                                *)
DecodesAsTyped ==
  Quiet /\ ~disturbed /\ ~closed => owed = <<>> /\ Written(editor, verdict) = meant

(* The cursor is in the viewport, in every frame.                          *)
CursorIsVisible ==
  /\ editor.cy - 1 \in editor.top .. editor.top + Rows - 1
  /\ editor.cx \in editor.left .. editor.left + Columns - 1

(* After every event the cursor is in the text, and where it can be seen.  *)
ScreenInv == TypeOK /\ CursorIsVisible

(* No byte is waited for without end: Esc is told, and a character that    *)
(* stops in the middle is given up.                                        *)
SequencesEnd == (phase \in {"escape", "rune"}) ~> (phase = "idle" \/ closed)

(* Once the reader is closed its parser ends, also if nobody takes the     *)
(* event it holds.                                                         *)
CloseEndsParser == closed ~> (phase = "ended")

(* The parser never waits without end, neither for a byte nor for somebody *)
(* to take its event.                                                      *)
WaitsEnd == SequencesEnd /\ CloseEndsParser
=============================================================================
