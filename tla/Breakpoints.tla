----------------------------- MODULE Breakpoints -----------------------------
(***************************************************************************)
(* The breakpoint queue (core/breakpoint.go) between the proxy goroutines  *)
(* that pause an exchange in Hold and the terminal UI that shows a paused  *)
(* exchange in its editor and answers it (tui/app.go).                     *)
(*                                                                         *)
(* A breakpoint is its ID.  Hold numbers and appends a breakpoint under    *)
(* one lock, so the queue is always in ID order: it is modelled as a set   *)
(* of IDs whose head is the smallest one.                                  *)
(***************************************************************************)
EXTENDS Naturals, FiniteSets

CONSTANTS
  Exchanges,  \* proxy goroutines
  MaxID,      \* bound: breakpoints created in a behaviour
  ClickAway   \* may the operator leave an open editor by clicking a tab

ASSUME BreakpointsAssumption == MaxID \in Nat /\ ClickAway \in BOOLEAN

VARIABLES
  pending,   \* Breaker.pending
  nextID,    \* Breaker.nextID
  notify,    \* Breaker.notify holds its one token
  answer,    \* Breakpoint.ch of every breakpoint: a verdict or nothing
  hold,      \* the breakpoint an exchange is paused at
  step,      \* where an exchange is in Hold
  view,      \* App.view
  editing,   \* App.editorBreak (0 is nil)
  edited,    \* the editor's text differs from the breakpoint's Raw
  ui,        \* where the UI goroutine is in its handler
  batch      \* breakpoints taken off the queue, not answered yet

vars == <<pending, nextID, notify, answer, hold, step, view, editing, edited,
          ui, batch>>

exchangeVars == <<hold, step>>
editorVars   == <<view, editing, edited>>

IDs      == 1 .. MaxID
Verdicts == {"send", "edit", "drop", "release"}
Views    == {"flows", "other", "editor"}

Init == /\ pending = {} /\ nextID = 0 /\ notify = FALSE
        /\ answer = [i \in IDs |-> "none"]
        /\ hold = [g \in Exchanges |-> 0]
        /\ step = [g \in Exchanges |-> "running"]
        /\ view = "flows" /\ editing = 0 /\ edited = FALSE
        /\ ui = [at |-> "loop", verdict |-> "none"] /\ batch = {}

-----------------------------------------------------------------------------
(* A proxy goroutine in Hold: enqueue under the lock, wake the UI, wait.   *)

HoldEnqueues(g) ==
  /\ step[g] = "running" /\ nextID < MaxID
  /\ nextID' = nextID + 1
  /\ pending' = pending \cup {nextID'}
  /\ hold' = [hold EXCEPT ![g] = nextID']
  /\ step' = [step EXCEPT ![g] = "waking"]
  /\ UNCHANGED <<notify, answer, editorVars, ui, batch>>

(* Variant: Hold waits without waking the UI.                              *)
HoldWakesNobody(g) ==
  /\ step[g] = "waking"
  /\ step' = [step EXCEPT ![g] = "waiting"]
  /\ UNCHANGED <<pending, nextID, notify, answer, hold, editorVars, ui, batch>>

(* wake never blocks: a token already in the channel stands for both.      *)
HoldWakes(g) ==
  /\ step[g] = "waking"
  /\ notify' = TRUE
  /\ step' = [step EXCEPT ![g] = "waiting"]
  /\ UNCHANGED <<pending, nextID, answer, hold, editorVars, ui, batch>>

HoldReturns(g) ==
  /\ step[g] = "waiting" /\ answer[hold[g]] # "none"
  /\ answer' = [answer EXCEPT ![hold[g]] = "none"]
  /\ hold' = [hold EXCEPT ![g] = 0]
  /\ step' = [step EXCEPT ![g] = "running"]
  /\ UNCHANGED <<pending, nextID, notify, editorVars, ui, batch>>

-----------------------------------------------------------------------------
(* The UI goroutine handles one event at a time.                           *)

Opened(i) == editing' = i /\ edited' = FALSE /\ view' = "editor"

OldestOpened ==
  \E i \in pending : (\A j \in pending : i <= j) /\ Opened(i)

EditorClosed == view' = "flows" /\ editing' = 0 /\ edited' = FALSE

Keeping == view = "editor" /\ editing \in pending

(* Variants: the handler reopens the head whatever is being edited, or     *)
(* opens it only over the flow list.                                       *)
BreakpointChangeReopens ==
  /\ ui.at = "loop" /\ notify
  /\ notify' = FALSE
  /\ OldestOpened \/ (pending = {} /\ UNCHANGED editorVars)
  /\ UNCHANGED <<pending, nextID, answer, exchangeVars, ui, batch>>

BreakpointChangeOverFlows ==
  /\ ui.at = "loop" /\ notify
  /\ notify' = FALSE
  /\ \/ view = "flows" /\ OldestOpened
     \/ (view # "flows" \/ pending = {}) /\ UNCHANGED editorVars
  /\ UNCHANGED <<pending, nextID, answer, exchangeVars, ui, batch>>

(* onBreakpointChange: keep editing a breakpoint that is still queued,     *)
(* otherwise open the head of the queue.  AutoJump is on: nothing turns it *)
(* off.                                                                    *)
BreakpointChange ==
  /\ ui.at = "loop" /\ notify
  /\ notify' = FALSE
  /\ \/ Keeping /\ UNCHANGED editorVars
     \/ ~Keeping /\ OldestOpened
     \/ pending = {} /\ view = "editor" /\ EditorClosed
     \/ pending = {} /\ view # "editor" /\ UNCHANGED editorVars
  /\ UNCHANGED <<pending, nextID, answer, exchangeVars, ui, batch>>

Type ==
  /\ ui.at = "loop" /\ view = "editor"
  /\ edited' = TRUE
  /\ UNCHANGED <<pending, nextID, notify, answer, exchangeVars, view, editing,
                 ui, batch>>

(* The menu bar: keys outside the editor, the mouse also inside it.        *)
Navigate(v) ==
  /\ ui.at = "loop"
  /\ view = "editor" => ClickAway
  /\ view' = v
  /\ UNCHANGED <<pending, nextID, notify, answer, exchangeVars, editing, edited,
                 ui, batch>>

(* Variant: Submit removes the breakpoint and sends nothing.               *)
SubmitUnanswered(verdict) ==
  /\ ui.at = "loop" /\ view = "editor" /\ editing # 0
  /\ pending' = pending \ {editing}
  /\ ui' = [at |-> "look", verdict |-> verdict]
  /\ UNCHANGED <<nextID, notify, answer, exchangeVars, editorVars, batch>>

(* submitEditor, up to the removal under the lock in Submit.               *)
Submit(verdict) ==
  /\ ui.at = "loop" /\ view = "editor" /\ editing # 0
  /\ IF editing \in pending
     THEN /\ batch' = {editing}
          /\ pending' = pending \ {editing}
     ELSE UNCHANGED <<batch, pending>>
  /\ ui' = [at |-> IF editing \in pending THEN "submit" ELSE "look",
            verdict |-> IF verdict = "send" /\ edited THEN "edit" ELSE verdict]
  /\ UNCHANGED <<nextID, notify, answer, exchangeVars, editorVars>>

(* Variant: ReleaseAll does not empty the queue.                           *)
ReleaseAllKeepingQueue ==
  /\ ui.at = "loop" /\ view = "flows"
  /\ batch' = pending
  /\ ui' = [at |-> "release", verdict |-> "release"]
  /\ UNCHANGED <<pending, nextID, notify, answer, exchangeVars, editorVars>>

(* "x" in the flow list: ReleaseAll takes the whole queue.                 *)
ReleaseAll ==
  /\ ui.at = "loop" /\ view = "flows"
  /\ batch' = pending
  /\ pending' = {}
  /\ ui' = [at |-> "release", verdict |-> "release"]
  /\ UNCHANGED <<nextID, notify, answer, exchangeVars, editorVars>>

(* bp.ch <- v: the channel has room for one verdict.                       *)
Answer(i) ==
  /\ ui.at \in {"submit", "release"} /\ i \in batch
  /\ answer[i] = "none"
  /\ answer' = [answer EXCEPT ![i] = ui.verdict]
  /\ batch' = batch \ {i}
  /\ UNCHANGED <<pending, nextID, notify, exchangeVars, editorVars, ui>>

(* wake, after the last answer.                                            *)
Answered ==
  /\ ui.at \in {"submit", "release"} /\ batch = {}
  /\ notify' = TRUE
  /\ ui' = IF ui.at = "submit" THEN [ui EXCEPT !.at = "look"]
           ELSE [at |-> "loop", verdict |-> "none"]
  /\ UNCHANGED <<pending, nextID, answer, exchangeVars, editorVars, batch>>

(* The rest of submitEditor: go on with the head of the queue.             *)
LookForNext ==
  /\ ui.at = "look"
  /\ OldestOpened \/ (pending = {} /\ EditorClosed)
  /\ ui' = [at |-> "loop", verdict |-> "none"]
  /\ UNCHANGED <<pending, nextID, notify, answer, exchangeVars, batch>>

-----------------------------------------------------------------------------
Exchange(g) == HoldEnqueues(g) \/ HoldWakes(g) \/ HoldReturns(g)

Handler == (\E i \in IDs : Answer(i)) \/ Answered \/ LookForNext

Operator == \/ Type \/ ReleaseAll
            \/ \E v \in Views \ {"editor"} : Navigate(v)
            \/ \E verdict \in {"send", "drop"} : Submit(verdict)

Next == \/ \E g \in Exchanges : Exchange(g)
        \/ BreakpointChange \/ Handler \/ Operator

Spec == Init /\ [][Next]_vars

(* Goroutines run, the UI loop serves its channels, and the operator       *)
(* answers the editor in front of him.                                     *)
Fairness ==
  /\ \A g \in Exchanges : WF_vars(HoldWakes(g) \/ HoldReturns(g))
  /\ WF_vars(Handler) /\ SF_vars(BreakpointChange)
  /\ WF_vars(\E verdict \in {"send", "drop"} : Submit(verdict))

FairSpec == Spec /\ Fairness

-----------------------------------------------------------------------------
(* Every variable keeps its type.                                          *)
TypeOK ==
  /\ nextID \in 0 .. MaxID
  /\ pending \subseteq IDs /\ batch \subseteq IDs
  /\ notify \in BOOLEAN /\ edited \in BOOLEAN
  /\ answer \in [IDs -> Verdicts \cup {"none"}]
  /\ hold \in [Exchanges -> 0 .. MaxID]
  /\ step \in [Exchanges -> {"running", "waking", "waiting"}]
  /\ view \in Views /\ editing \in 0 .. MaxID
  /\ ui \in [at : {"loop", "submit", "release", "look"},
             verdict : Verdicts \cup {"none"}]

(* A paused exchange is in exactly one place: queued where the operator    *)
(* can reach it, taken off the queue and about to be answered, or with its *)
(* verdict in its channel.  Hold never waits for a breakpoint nobody can   *)
(* answer and is never answered twice (Hold, Submit, ReleaseAll).          *)
Paused(g) == step[g] # "running"

HeldIsReachable ==
  \A g \in Exchanges : Paused(g) =>
    /\ hold[g] \in IDs
    /\ hold[g] \in pending \/ hold[g] \in batch \/ answer[hold[g]] # "none"
    /\ ~(hold[g] \in pending /\ hold[g] \in batch)
    /\ answer[hold[g]] # "none" => hold[g] \notin pending \cup batch

(* Sending a verdict never blocks the UI goroutine: the channel of every   *)
(* breakpoint that is being answered is empty.                             *)
AnswerHasRoom == \A i \in pending \cup batch : answer[i] = "none"

(* A queued breakpoint is never forgotten: while the UI waits for events,  *)
(* the operator has a queued breakpoint in the editor, or a wake-up is in  *)
(* the channel or about to be put there (Hold, wake, onBreakpointChange).  *)
NoneForgotten ==
  ui.at = "loop" /\ pending # {} =>
    \/ notify
    \/ view = "editor" /\ editing \in pending
    \/ \E g \in Exchanges : step[g] = "waking"

(* What the operator has typed into a breakpoint stays until he answers it *)
(* ("Keep editing the current breakpoint unless it was released",          *)
(* app.go:528).                                                            *)
EditsKept == [][edited /\ editing \in pending' => edited' /\ editing' = editing]_vars

(* Every paused exchange is let go: the coalesced wake-ups reach the UI    *)
(* and the queue is worked off as long as the operator answers.            *)
EveryHoldReturns == \A g \in Exchanges : Paused(g) ~> ~Paused(g)

-----------------------------------------------------------------------------
(* The inductive invariant behind HeldIsReachable and AnswerHasRoom: every *)
(* created breakpoint is in at most one place, two exchanges never share   *)
(* one, and the UI has nothing to answer when it is between handlers.      *)
Created == 1 .. nextID

HoldInv ==
  /\ TypeOK
  /\ pending \cup batch \subseteq Created
  /\ pending \cap batch = {}
  /\ \A i \in IDs : answer[i] # "none" => i \in Created /\ i \notin pending \cup batch
  /\ ui.at \in {"loop", "look"} => batch = {}
  /\ ui.at \in {"submit", "release"} => ui.verdict \in Verdicts
  /\ \A g \in Exchanges : Paused(g) =>
       /\ hold[g] \in Created
       /\ hold[g] \in pending \cup batch \/ answer[hold[g]] # "none"
  /\ \A g, h \in Exchanges : Paused(g) /\ Paused(h) /\ hold[g] = hold[h] => g = h

=============================================================================
