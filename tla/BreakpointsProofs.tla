------------------------- MODULE BreakpointsProofs -------------------------
(***************************************************************************)
(* Theorems about Breakpoints for any set of exchanges and any number of   *)
(* breakpoints, with or without leaving the editor by the mouse.           *)
(***************************************************************************)
EXTENDS Breakpoints, TLAPS

(* Whatever a handler does with the editor, its variables keep their       *)
(* types.                                                                  *)
LEMMA EditorTypes ==
  ASSUME HoldInv, OldestOpened \/ EditorClosed \/ UNCHANGED editorVars
  PROVE  view' \in Views /\ editing' \in 0 .. MaxID /\ edited' \in BOOLEAN
<1>1. view \in Views /\ editing \in 0 .. MaxID /\ edited \in BOOLEAN
  BY DEF HoldInv, TypeOK
<1>2. pending \subseteq 0 .. MaxID
  BY BreakpointsAssumption DEF HoldInv, TypeOK, IDs
<1>3. CASE OldestOpened
  BY <1>2, <1>3 DEF OldestOpened, Opened, Views
<1>4. CASE EditorClosed
  <2>1. 0 \in 0 .. MaxID
    BY BreakpointsAssumption
  <2> QED
    BY <1>4, <2>1 DEF EditorClosed, Views
<1>5. CASE UNCHANGED editorVars
  BY <1>1, <1>5 DEF editorVars
<1> QED
  BY <1>3, <1>4, <1>5

(* Every step preserves the invariant.                                     *)
LEMMA HoldInvStep == ASSUME HoldInv, [Next]_vars PROVE HoldInv'
<1> USE BreakpointsAssumption DEF HoldInv, TypeOK, IDs, Views, Created, Paused,
        exchangeVars, editorVars
<1>1. ASSUME NEW g \in Exchanges, HoldEnqueues(g) PROVE HoldInv'
  BY <1>1 DEF HoldEnqueues
<1>2. ASSUME NEW g \in Exchanges, HoldWakes(g) PROVE HoldInv'
  BY <1>2 DEF HoldWakes
<1>3. ASSUME NEW g \in Exchanges, HoldReturns(g) PROVE HoldInv'
  BY <1>3 DEF HoldReturns
<1>4. CASE BreakpointChange
  <2>1. pending' = pending /\ nextID' = nextID /\ answer' = answer /\ hold' = hold
        /\ step' = step /\ ui' = ui /\ batch' = batch /\ notify' = FALSE
    BY <1>4 DEF BreakpointChange
  <2>2. view' \in Views /\ editing' \in 0 .. MaxID /\ edited' \in BOOLEAN
    BY <1>4, EditorTypes DEF BreakpointChange
  <2> QED
    BY <2>1, <2>2
<1>5. CASE Type
  BY <1>5 DEF Type
<1>6. ASSUME NEW v \in Views \ {"editor"}, Navigate(v) PROVE HoldInv'
  BY <1>6 DEF Navigate
<1>7. ASSUME NEW verdict \in {"send", "drop"}, Submit(verdict) PROVE HoldInv'
  <2>1. nextID' = nextID /\ answer' = answer /\ hold' = hold /\ step' = step
        /\ view' = view /\ editing' = editing /\ edited' = edited /\ notify' = notify
    BY <1>7 DEF Submit
  <2>2. batch = {}
    BY <1>7 DEF Submit
  <2>3. CASE editing \in pending
    <3>1. batch' = {editing} /\ pending' = pending \ {editing}
      BY <1>7, <2>3 DEF Submit
    <3>2. ui'.at = "submit" /\ ui'.verdict \in Verdicts
          /\ ui' \in [at : {"loop", "submit", "release", "look"},
                     verdict : Verdicts \cup {"none"}]
      BY <1>7, <2>3 DEF Submit, Verdicts
    <3> QED
      BY <2>1, <2>2, <2>3, <3>1, <3>2
  <2>4. CASE editing \notin pending
    <3>1. batch' = batch /\ pending' = pending
      BY <1>7, <2>4 DEF Submit
    <3>2. ui'.at = "look"
          /\ ui' \in [at : {"loop", "submit", "release", "look"},
                     verdict : Verdicts \cup {"none"}]
      BY <1>7, <2>4 DEF Submit, Verdicts
    <3> QED
      BY <2>1, <2>2, <3>1, <3>2
  <2> QED
    BY <2>3, <2>4
<1>8. CASE ReleaseAll
  BY <1>8 DEF ReleaseAll, Verdicts
<1>9. ASSUME NEW i \in IDs, Answer(i) PROVE HoldInv'
  BY <1>9 DEF Answer, Verdicts
<1>10. CASE Answered
  BY <1>10 DEF Answered
<1>11. CASE LookForNext
  <2>1. pending' = pending /\ nextID' = nextID /\ answer' = answer /\ hold' = hold
        /\ step' = step /\ notify' = notify /\ batch' = batch /\ batch = {}
    BY <1>11 DEF LookForNext
  <2>2. view' \in Views /\ editing' \in 0 .. MaxID /\ edited' \in BOOLEAN
    BY <1>11, EditorTypes DEF LookForNext
  <2>3. ui' = [at |-> "loop", verdict |-> "none"]
    BY <1>11 DEF LookForNext
  <2>4. ui' \in [at : {"loop", "submit", "release", "look"},
               verdict : Verdicts \cup {"none"}] /\ ui'.at = "loop"
    BY <2>3
  <2> QED
    BY <2>1, <2>2, <2>4
<1>12. CASE UNCHANGED vars
  BY <1>12 DEF vars
<1> QED
  BY <1>1, <1>2, <1>3, <1>4, <1>5, <1>6, <1>7, <1>8, <1>9, <1>10, <1>11, <1>12
  DEF Next, Exchange, Handler, Operator

(* The invariant holds in every reachable state.                           *)
LEMMA HoldInvAlways == Spec => []HoldInv
<1>1. ASSUME Init PROVE HoldInv
  <2> USE <1>1, BreakpointsAssumption DEF Init
  <2>1. TypeOK
    <3>1. answer \in [IDs -> Verdicts \cup {"none"}]
      OBVIOUS
    <3>2. hold \in [Exchanges -> 0 .. MaxID]
      OBVIOUS
    <3>3. step \in [Exchanges -> {"running", "waking", "waiting"}]
      OBVIOUS
    <3>4. ui \in [at : {"loop", "submit", "release", "look"},
                 verdict : Verdicts \cup {"none"}]
      OBVIOUS
    <3>5. notify \in BOOLEAN /\ edited \in BOOLEAN /\ view \in Views
      BY DEF Views
    <3>6. nextID \in 0 .. MaxID /\ editing \in 0 .. MaxID
      OBVIOUS
    <3>7. pending \subseteq IDs /\ batch \subseteq IDs
      OBVIOUS
    <3> QED
      BY <3>1, <3>2, <3>3, <3>4, <3>5, <3>6, <3>7 DEF TypeOK
  <2>2. \A g \in Exchanges : ~Paused(g)
    BY DEF Paused
  <2>3. \A i \in IDs : answer[i] = "none"
    OBVIOUS
  <2>4. ui.at = "loop" /\ pending = {} /\ batch = {}
    OBVIOUS
  <2> QED
    BY <2>1, <2>2, <2>3, <2>4 DEF HoldInv
<1> QED
  BY <1>1, HoldInvStep, PTL DEF Spec

(* Every variable of the queue, its exchanges and its editor keeps its     *)
(* type.                                                                   *)
THEOREM TypeCorrect == Spec => []TypeOK
<1>1. HoldInv => TypeOK
  BY DEF HoldInv
<1> QED
  BY <1>1, HoldInvAlways, PTL

(* Hold never waits for a breakpoint nobody can answer.                    *)
THEOREM HeldIsReachableAlways == Spec => []HeldIsReachable
<1>1. ASSUME HoldInv PROVE HeldIsReachable
  <2> USE <1>1, BreakpointsAssumption
  <2>1. Created \subseteq IDs
    BY DEF HoldInv, TypeOK, Created, IDs
  <2>2. SUFFICES ASSUME NEW g \in Exchanges, Paused(g)
                 PROVE /\ hold[g] \in IDs
                       /\ hold[g] \in pending \/ hold[g] \in batch \/ answer[hold[g]] # "none"
                       /\ ~(hold[g] \in pending /\ hold[g] \in batch)
                       /\ answer[hold[g]] # "none" => hold[g] \notin pending \cup batch
    BY DEF HeldIsReachable
  <2> QED
    BY <2>1, <2>2 DEF HoldInv
<1> QED
  BY <1>1, HoldInvAlways, PTL

(* Sending a verdict never blocks the goroutine that sends it.             *)
THEOREM AnswerHasRoomAlways == Spec => []AnswerHasRoom
<1>1. HoldInv => AnswerHasRoom
  BY DEF HoldInv, TypeOK, AnswerHasRoom
<1> QED
  BY <1>1, HoldInvAlways, PTL

(* As long as an open editor is not left by the mouse, a queued breakpoint *)
(* is in the editor or about to be brought there.                          *)
THEOREM NoneForgottenAlways == ASSUME ~ClickAway PROVE Spec => []NoneForgotten
<1>1. Init => NoneForgotten
  BY DEF Init, NoneForgotten
<1>2. ASSUME HoldInv, NoneForgotten, [Next]_vars PROVE NoneForgotten'
  <2> SUFFICES ASSUME ui'.at = "loop", pending' # {}
               PROVE \/ notify'
                     \/ view' = "editor" /\ editing' \in pending'
                     \/ \E g \in Exchanges : step'[g] = "waking"
    BY DEF NoneForgotten
  <2> USE <1>2 DEF NoneForgotten
  <2>1. ASSUME NEW g \in Exchanges, HoldEnqueues(g) PROVE step'[g] = "waking"
    BY <2>1 DEF HoldEnqueues, HoldInv, TypeOK
  <2>2. ASSUME NEW g \in Exchanges, HoldWakes(g) PROVE notify'
    BY <2>2 DEF HoldWakes
  <2>3. ASSUME NEW g \in Exchanges, HoldReturns(g) PROVE NoneForgotten'
    BY <2>3 DEF HoldReturns, HoldInv, TypeOK, editorVars
  <2>4. ASSUME BreakpointChange PROVE view' = "editor" /\ editing' \in pending'
    BY <2>4 DEF BreakpointChange, OldestOpened, Opened, Keeping, editorVars
  <2>5. CASE Type
    BY <2>5 DEF Type, exchangeVars
  <2>6. ASSUME NEW v \in Views \ {"editor"}, Navigate(v) PROVE NoneForgotten'
    BY <2>6 DEF Navigate, exchangeVars
  <2>7. ASSUME NEW verdict \in {"send", "drop"} PROVE ~Submit(verdict)
    BY DEF Submit
  <2>8. ~ReleaseAll
    BY DEF ReleaseAll
  <2>9. ASSUME NEW i \in IDs PROVE ~Answer(i)
    BY DEF Answer
  <2>10. ASSUME Answered PROVE notify'
    BY <2>10 DEF Answered
  <2>11. ASSUME LookForNext PROVE view' = "editor" /\ editing' \in pending'
    BY <2>11 DEF LookForNext, OldestOpened, Opened
  <2>12. CASE UNCHANGED vars
    BY <2>12 DEF vars
  <2> QED
    BY <2>1, <2>2, <2>3, <2>4, <2>5, <2>6, <2>7, <2>8, <2>9, <2>10, <2>11,
       <2>12 DEF Next, Exchange, Handler, Operator
<1> QED
  BY <1>1, <1>2, HoldInvAlways, PTL DEF Spec

(* What keeps the operator's text: the breakpoint he edits is queued only  *)
(* while its editor is open, and numbers are never used twice.             *)
EditInv ==
  /\ editing <= nextID
  /\ editing \in pending => view = "editor"
  /\ ui.at \in {"submit", "look"} => editing \notin pending

(* A step that leaves the UI's variables and the queue alone, or only adds *)
(* to the queue, preserves EditInv.                                        *)
LEMMA EditInvStep ==
  ASSUME ~ClickAway, HoldInv, EditInv, [Next]_vars PROVE EditInv'
<1> USE DEF EditInv
<1>0. nextID \in Nat /\ editing \in Nat /\ pending \subseteq 1 .. nextID
  BY BreakpointsAssumption DEF HoldInv, TypeOK, Created
<1>1. ASSUME NEW g \in Exchanges, HoldEnqueues(g) PROVE EditInv'
  BY <1>0, <1>1 DEF HoldEnqueues, editorVars
<1>2. ASSUME NEW g \in Exchanges, HoldWakes(g) \/ HoldReturns(g) PROVE EditInv'
  BY <1>2 DEF HoldWakes, HoldReturns, editorVars
<1>3. CASE BreakpointChange
  <2>1. OldestOpened \/ EditorClosed \/ UNCHANGED editorVars
    BY <1>3 DEF BreakpointChange
  <2>2. pending' = pending /\ nextID' = nextID /\ ui' = ui /\ ui.at = "loop"
    BY <1>3 DEF BreakpointChange
  <2> QED
    BY <1>0, <2>1, <2>2 DEF OldestOpened, Opened, EditorClosed, editorVars
<1>4. CASE Type
  BY <1>4 DEF Type
<1>5. ASSUME NEW v \in Views \ {"editor"}, Navigate(v) PROVE EditInv'
  BY <1>5 DEF Navigate
<1>6. ASSUME NEW verdict \in {"send", "drop"}, Submit(verdict) PROVE EditInv'
  <2>1. editing \notin pending'
    BY <1>6 DEF Submit
  <2> QED
    BY <1>6, <2>1 DEF Submit, editorVars
<1>7. CASE ReleaseAll
  BY <1>7 DEF ReleaseAll, editorVars
<1>8. CASE (\E i \in IDs : Answer(i)) \/ Answered
  <2>1. /\ pending' = pending /\ nextID' = nextID /\ UNCHANGED editorVars
        /\ ui'.at \in {"submit", "look"} => ui.at = "submit" \/ ui'.at = ui.at
    BY <1>8 DEF Answer, Answered, HoldInv, TypeOK
  <2> QED
    BY <2>1 DEF editorVars
<1>9. CASE LookForNext
  <2>1. OldestOpened \/ EditorClosed
    BY <1>9 DEF LookForNext
  <2>2. pending' = pending /\ nextID' = nextID /\ ui'.at = "loop"
    BY <1>9 DEF LookForNext
  <2> QED
    BY <1>0, <2>1, <2>2 DEF OldestOpened, Opened, EditorClosed
<1>10. CASE UNCHANGED vars
  BY <1>10 DEF vars
<1> QED
  BY <1>1, <1>2, <1>3, <1>4, <1>5, <1>6, <1>7, <1>8, <1>9, <1>10
  DEF Next, Exchange, Handler, Operator

(* As long as an open editor is not left by the mouse, what the operator   *)
(* has typed into a breakpoint stays until the breakpoint is answered.     *)
THEOREM EditsAlwaysKept == ASSUME ~ClickAway PROVE Spec => EditsKept
<1>1. Init => EditInv
  BY DEF Init, EditInv
<1>2. ASSUME HoldInv, EditInv, [Next]_vars
      PROVE  [edited /\ editing \in pending' => edited' /\ editing' = editing]_vars
  <2> SUFFICES ASSUME edited, editing \in pending'
               PROVE  edited' /\ editing' = editing
    OBVIOUS
  <2> USE <1>2 DEF EditInv
  <2>0. nextID \in Nat /\ editing \in Nat
    BY BreakpointsAssumption DEF HoldInv, TypeOK
  <2>1. ASSUME NEW g \in Exchanges, Exchange(g) PROVE UNCHANGED editorVars
    BY <2>1 DEF Exchange, HoldEnqueues, HoldWakes, HoldReturns
  <2>2. ASSUME BreakpointChange PROVE UNCHANGED editorVars
    BY <2>2 DEF BreakpointChange, Keeping
  <2>3. ASSUME Type PROVE edited' /\ editing' = editing
    BY <2>3 DEF Type
  <2>4. ASSUME NEW v \in Views \ {"editor"}, Navigate(v)
        PROVE  edited' /\ editing' = editing
    BY <2>4 DEF Navigate
  <2>5. ASSUME \/ \E verdict \in {"send", "drop"} : Submit(verdict)
               \/ ReleaseAll \/ (\E i \in IDs : Answer(i)) \/ Answered
        PROVE  UNCHANGED editorVars
    BY <2>5 DEF Submit, ReleaseAll, Answer, Answered
  <2>6. ~LookForNext
    BY DEF LookForNext
  <2>7. CASE UNCHANGED vars
    BY <2>7 DEF vars
  <2> QED
    BY <2>1, <2>2, <2>3, <2>4, <2>5, <2>6, <2>7
    DEF Next, Handler, Operator, editorVars
<1>3. HoldInv /\ EditInv /\ [Next]_vars => EditInv'
  BY EditInvStep
<1> QED
  BY <1>1, <1>2, <1>3, HoldInvAlways, PTL DEF Spec, EditsKept
=============================================================================
