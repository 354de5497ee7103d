------------------------------ MODULE FlowTable ------------------------------
(***************************************************************************)
(* The table of flows in internal/tui/app.go: which flows it shows, which  *)
(* row is selected, and what its keys and the mouse do beside exchanges    *)
(* that go on arriving, settling and dropping out of the store.            *)
(*                                                                         *)
(* The UI copies the store's list when it is signalled, filters the copy   *)
(* by the text of the filter bar and the saved filters, and keeps the      *)
(* selection as an index into the result.  An event is handled in one      *)
(* step, at the end of which the screen is drawn.  A flow is its number    *)
(* and whether it has settled; how signals are sent is the subject of      *)
(* Store, how a filter is read that of Prompts.  The preview below the     *)
(* table is taken to be there.                                             *)
(***************************************************************************)
EXTENDS Integers, Sequences, SequencesExt, FiniteSetsExt

CONSTANTS
  Filters,        \* the texts the filter bar may hold, the empty one included
  Matches(_, _),  \* whether a filter matches a flow
  SavedFilter,    \* the saved filter that may be enabled
  Sizes,          \* of the terminal: the rows of the table, plain, above a
                  \* prompt, and as they are guessed from another view
  MaxFlows,       \* the limit of the store
  MaxID           \* bound on the flows ever added

ASSUME FlowTableAssumption ==
  /\ "" \in Filters /\ MaxFlows \in Nat \ {0} /\ MaxID \in Nat
  /\ Sizes \subseteq [plain : Nat \ {0}, prompted : Nat \ {0}, away : Nat \ {0}]

VARIABLES
  stored, nextID,    \* Store.flows and its numbering
  signal,            \* the UI's place in Store.subs is taken
  flows,             \* App.flows, the copy
  table,             \* App.shown, sel, follow and scroll
  size, rows,        \* App.W and H; App.lay.tableN, as it was drawn last
  filterText, saved, \* App.filterText; the saved filter is enabled
  view, prompt,      \* App.view; App.p: "none", "filter" or "other"
  detail,            \* App.detail
  redrawn, switched  \* history: the number of rows has changed, the saved
                     \* filter was switched, and the table does not know yet

store == <<stored, nextID, signal>>
chosen == <<filterText, saved>>
vars == <<store, flows, table, size, rows, chosen, view, prompt, detail, redrawn, switched>>

Flow  == [id : 1 .. MaxID, settled : BOOLEAN]
Views == {"flows", "detail", "filters", "editor", "other"}
NoFlow == [id |-> 0]

Init ==
  /\ stored = <<>> /\ nextID = 0 /\ signal = FALSE /\ flows = <<>>
  /\ table = [shown |-> <<>>, sel |-> 0, follow |-> TRUE, scroll |-> 0]
  /\ size \in Sizes /\ rows = size.plain /\ filterText = "" /\ saved = FALSE
  /\ view = "flows" /\ prompt = "none" /\ detail = NoFlow
  /\ redrawn = FALSE /\ switched = FALSE

-----------------------------------------------------------------------------
(* The exchanges.                                                          *)

screen == <<flows, table, size, rows, chosen, view, prompt, detail, redrawn, switched>>

Captured ==
  /\ nextID < MaxID /\ nextID' = nextID + 1 /\ signal' = TRUE
  /\ stored' = LET l == Append(stored, [id |-> nextID', settled |-> FALSE])
               IN IF Len(l) > MaxFlows THEN Tail(l) ELSE l
  /\ UNCHANGED screen

Settles ==
  /\ \E k \in 1 .. Len(stored) :
       ~stored[k].settled /\ stored' = [stored EXCEPT ![k].settled = TRUE]
  /\ signal' = TRUE /\ UNCHANGED <<nextID, screen>>

-----------------------------------------------------------------------------
(* The table: ensureVisible, the clamp of its keys, and applyFilter.       *)

EnsureVisible(t) ==
  LET low == Min({t.scroll, t.sel})
      top == IF t.sel >= low + rows THEN t.sel - rows + 1 ELSE low
  IN [t EXCEPT !.scroll = Max({0, top})]

Clamped(t) ==
  EnsureVisible([t EXCEPT !.sel = Min({Max({0, @}), Len(t.shown) - 1})])

LetThrough(f, text, on) == Matches(text, f) /\ (on => Matches(SavedFilter, f))

Passing(l, text, on) ==
  LET kept[n \in 0 .. Len(l)] ==
        IF n = 0 THEN <<>>
        ELSE IF LetThrough(l[n], text, on) THEN Append(kept[n - 1], l[n]) ELSE kept[n - 1]
  IN kept[Len(l)]

(* Variant: the selection follows the newest flow, asked to or not.        *)
FilteredFollowing(t, l, text, on) ==
  LET shown == Passing(l, text, on)
  IN EnsureVisible([t EXCEPT !.shown = shown, !.sel = Max({0, Len(shown) - 1})])

(* A selection behind the end moves to the end, and follows it from now on.*)
Filtered(t, l, text, on) ==
  LET shown == Passing(l, text, on)
      last == Len(shown) - 1
      follow == t.follow \/ t.sel > last
  IN EnsureVisible([t EXCEPT !.shown = shown, !.follow = follow,
                             !.sel = Max({0, IF follow THEN last ELSE @})])

At(t, idx) == IF idx \in 0 .. Len(t.shown) - 1 THEN t.shown[idx + 1] ELSE NoFlow
Selected == At(table, table.sel)
End == Len(table.shown) - 1

-----------------------------------------------------------------------------
(* How an event ends.                                                      *)

(* Variant: the filter bar keeps the keyboard.                             *)
EndsWithOpen(t, p) == prompt' = p /\ table' = t

(* A filter bar that has lost its view is submitted and closed.            *)
EndsWith(t, p) ==
  IF p = "filter" /\ view' # "flows"
  THEN prompt' = "none" /\ table' = Filtered(t, flows', filterText', saved')
  ELSE prompt' = p /\ table' = t

(* The screen is drawn: the flows' view draws its table, with a row less   *)
(* above a prompt, and the selected flow below it; the layout forgets the  *)
(* table in any other view.                                                *)
Drawn(current) ==
  /\ size' = size
  /\ rows' = IF view' # "flows" THEN size.away
             ELSE IF prompt' = "none" THEN size.plain ELSE size.prompted
  /\ detail' = IF view' = "flows" THEN At(table', table'.sel) ELSE current

(* The table has been made to fit the rows drawn before, or has not.       *)
Fitted == redrawn' = (rows' # rows)
NotFitted == redrawn' = (redrawn \/ rows' # rows)

-----------------------------------------------------------------------------
(* refresh.                                                                *)

(* The flow of the detail view, as long as it is still listed.             *)
Latest(f) ==
  IF \E g \in ToSet(stored) : g.id = f.id THEN CHOOSE g \in ToSet(stored) : g.id = f.id ELSE f

Refreshes(p) ==
  /\ flows' = stored
  /\ EndsWith(Filtered(table, stored, filterText', saved'), p)
  /\ Drawn(IF view' = "detail" THEN Latest(detail) ELSE detail)
  /\ Fitted /\ switched' = FALSE

Refresh ==
  /\ signal /\ signal' = FALSE
  /\ UNCHANGED <<stored, nextID, chosen, view>>
  /\ Refreshes(prompt)

-----------------------------------------------------------------------------
(* handleFlowsKey, handleWheel and handleMouse.                            *)

Steps ==
  {[table EXCEPT !.sel = @ - 1, !.follow = FALSE],
   IF table.sel + 1 >= End THEN [table EXCEPT !.sel = End, !.follow = TRUE]
   ELSE [table EXCEPT !.sel = @ + 1],
   [table EXCEPT !.sel = @ - rows, !.follow = FALSE],
   [table EXCEPT !.sel = @ + rows, !.follow = table.sel + rows >= End]}

Jumps == {[table EXCEPT !.sel = 0, !.follow = FALSE], [table EXCEPT !.sel = End, !.follow = TRUE]}

(* Up, down and paging work with the filter bar open as well, and even     *)
(* over the editor, when a breakpoint has opened it under the bar.         *)
Moves ==
  /\ \/ prompt = "none" /\ view = "flows"
     \/ prompt = "filter"
  /\ UNCHANGED <<store, flows, chosen, view, switched>>
  /\ \E t \in Steps \cup (IF prompt = "none" THEN Jumps ELSE {}) : EndsWith(Clamped(t), prompt)
  /\ Drawn(detail) /\ Fitted

Wheel ==
  /\ view = "flows" /\ UNCHANGED <<store, flows, chosen, view, switched>>
  /\ \E step \in {-3, 3} :
       LET sel == Max({0, table.sel + step})
       IN EndsWith(EnsureVisible(
            IF sel > End THEN [table EXCEPT !.sel = End, !.follow = TRUE]
            ELSE [table EXCEPT !.sel = sel, !.follow = sel >= End]), prompt)
  /\ Drawn(detail) /\ Fitted

(* A click selects the row under it, a double click opens it.              *)
Click ==
  /\ view = "flows" /\ UNCHANGED <<store, flows, chosen, switched>>
  /\ \E idx \in table.scroll .. Min({End, table.scroll + rows - 1}) :
       /\ view' \in {"flows", "detail"}
       /\ EndsWith([table EXCEPT !.sel = idx, !.follow = idx >= End], prompt)
       /\ Drawn(At(table, idx))
  /\ Fitted

(* Any key of the table makes it fit, the buttons do not.                  *)
Touched == IF prompt = "none" THEN {table, Clamped(table)} ELSE {table}

Open ==
  /\ view = "flows" /\ Selected # NoFlow /\ view' = "detail"
  /\ UNCHANGED <<store, flows, chosen, switched>>
  /\ \E t \in Touched : EndsWith(t, prompt)
  /\ Drawn(Selected) /\ NotFitted

(* Store.Clear, which signals.                                             *)
ClearAll ==
  /\ view = "flows" /\ stored' = <<>> /\ signal' = TRUE
  /\ table' \in Touched
  /\ UNCHANGED <<nextID, flows, chosen, view, prompt, switched>>
  /\ Drawn(detail) /\ NotFitted

-----------------------------------------------------------------------------
(* Prompts.  The buttons work beside an open one.                          *)

OpenPrompt ==
  /\ \/ view = "flows" /\ prompt' \in {"filter", "other"} /\ table' \in Touched
     \/ view \in {"detail", "filters", "other"} /\ prompt' = "other" /\ UNCHANGED table
  /\ UNCHANGED <<store, flows, chosen, view, switched>>
  /\ Drawn(detail) /\ NotFitted

(* Each key in the filter bar applies the filter, Esc empties it.          *)
FilterKey ==
  /\ prompt = "filter" /\ UNCHANGED <<store, flows, saved, view, switched>>
  /\ filterText' \in Filters
  /\ \E p \in {"none", "filter"} : EndsWith(Filtered(table, flows, filterText', saved), p)
  /\ Drawn(detail) /\ Fitted

(* What makes a rule or changes the saved filter refreshes; what was       *)
(* cancelled or is refused does not.                                       *)
Answer ==
  /\ prompt = "other" /\ UNCHANGED <<store, filterText, view>>
  /\ \/ saved' \in BOOLEAN /\ Refreshes("none")
     \/ UNCHANGED <<flows, saved, table, switched>> /\ prompt' = "none" /\ Drawn(detail) /\ NotFitted

-----------------------------------------------------------------------------
(* Views.                                                                  *)

(* Digits, tabs, some buttons, and the key that makes a rule of the flow.  *)
Visit ==
  /\ view' \in {"flows", "filters", "other"} /\ UNCHANGED <<store, chosen>>
  /\ Refreshes(prompt)

(* Tab, the arrows, Esc, help, the end of an edit: nothing is refreshed.   *)
Wander ==
  /\ view' \in CASE view = "editor" -> {"flows"} [] view = "detail" -> {"flows", "other"}
                 [] OTHER -> {"flows", "filters", "other"}
  /\ (view' = "filters" => prompt = "none")
  /\ UNCHANGED <<store, flows, chosen, switched>>
  /\ EndsWith(table, prompt) /\ Drawn(detail) /\ NotFitted

(* A breakpoint opens the editor; a prompt that is open stays open.        *)
Jump ==
  /\ view # "editor" /\ view' = "editor"
  /\ UNCHANGED <<store, flows, table, chosen, prompt, switched>>
  /\ Drawn(detail) /\ NotFitted

Resize ==
  /\ size' \in Sizes \ {size} /\ view = "flows"
  /\ rows' = IF prompt = "none" THEN size'.plain ELSE size'.prompted
  /\ UNCHANGED <<store, flows, table, chosen, view, prompt, detail, switched>> /\ NotFitted

-----------------------------------------------------------------------------
(* The saved filter: Space, or its button, switches it without a refresh;  *)
(* a click and every other change do refresh.                              *)
SwitchSaved ==
  /\ view = "filters" /\ saved' = ~saved /\ switched' = TRUE
  /\ UNCHANGED <<store, flows, table, size, rows, filterText, view, prompt, detail, redrawn>>

ChangeSaved ==
  /\ view = "filters" /\ saved' = ~saved /\ UNCHANGED <<store, filterText, view>>
  /\ Refreshes(prompt)

Next == \/ Captured \/ Settles \/ Refresh \/ Resize \/ Jump
        \/ Moves \/ Wheel \/ Click \/ Open \/ ClearAll
        \/ OpenPrompt \/ FilterKey \/ Answer
        \/ Visit \/ Wander \/ SwitchSaved \/ ChangeSaved

Spec == Init /\ [][Next]_vars

-----------------------------------------------------------------------------
(* Every variable keeps its type, and a selection is within the table.     *)
TypeOK ==
  /\ stored \in Seq(Flow) /\ flows \in Seq(Flow) /\ nextID \in 0 .. MaxID
  /\ table \in [shown : Seq(Flow), sel : Int, follow : BOOLEAN, scroll : Nat]
  /\ table.sel \in -1 .. Max({0, End}) /\ (table.sel = -1 => table.shown = <<>>)
  /\ size \in Sizes /\ rows \in Nat \ {0} /\ filterText \in Filters
  /\ view \in Views /\ prompt \in {"none", "filter", "other"}
  /\ detail \in Flow \cup {NoFlow} /\ (view = "detail" => detail # NoFlow)
  /\ {signal, saved, redrawn, switched} \subseteq BOOLEAN

(* The store, and so its copy and the table, lists flows by their numbers. *)
Ascending(l) == \A i, j \in DOMAIN l : i < j => l[i].id < l[j].id
Numbered ==
  /\ Ascending(stored) /\ Ascending(flows) /\ Ascending(table.shown)
  /\ \A f \in ToSet(stored) : f.id <= nextID

(* The selected row is among those drawn last, unless their number has     *)
(* changed since the table was last made to fit.                           *)
SelectionIsDrawn ==
  table.shown # <<>> /\ ~redrawn => table.sel \in table.scroll .. table.scroll + rows - 1

(* Who follows the newest flow has it selected.                            *)
FollowsNewest == table.follow /\ table.shown # <<>> => table.sel = End

(* Between a change and its refresh aside, the table shows exactly what    *)
(* the store holds and both filters let through, from whatever view and    *)
(* prompt the operator comes; except for a saved filter switched by key,   *)
(* which is looked at with the next refresh.                               *)
ShownIsMeant ==
  /\ ToSet(table.shown) \subseteq ToSet(flows)
  /\ ~switched => table.shown = Passing(flows, filterText, saved)
  /\ ~signal => flows = stored

(* The detail view shows its flow as it is, as long as it is listed.       *)
DetailIsCurrent == view = "detail" /\ ~signal => detail = Latest(detail)

(* The filter bar has the keyboard only where it is seen, except under an  *)
(* editor that was opened by a breakpoint.                                 *)
BarIsSeen == prompt = "filter" => view \in {"flows", "editor"}

(* The table shows what it is asked to, where it can be seen, and its      *)
(* selection and the views that depend on it follow.                       *)
TableInv ==
  /\ TypeOK /\ Numbered /\ ShownIsMeant /\ SelectionIsDrawn /\ FollowsNewest
  /\ DetailIsCurrent /\ BarIsSeen

(* While exchanges come and go the operator keeps the flow he has chosen:  *)
(* as long as no flow before it drops out or comes into the table, and he  *)
(* does not follow the newest one.                                         *)
Before(t) == {t.shown[k].id : k \in 1 .. Min({t.sel, Len(t.shown)})}

KeepsItsFlow ==
  [][~table.follow /\ Refresh /\ Selected # NoFlow
       /\ Before(table) = {f.id : f \in {g \in ToSet(table'.shown) : g.id < Selected.id}}
       /\ (\E f \in ToSet(table'.shown) : f.id = Selected.id)
     => At(table', table'.sel).id = Selected.id]_vars
=============================================================================
