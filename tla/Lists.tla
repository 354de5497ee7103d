------------------------------- MODULE Lists -------------------------------
(***************************************************************************)
(* The two lists that outlive a run: the rules of internal/core/rules.go   *)
(* and the saved filters of internal/core/filter.go, with the file each is *)
(* kept in and the views of internal/tui/app.go that change them.          *)
(*                                                                         *)
(* An entry is its number, its switch and its text.  Every change is made  *)
(* under the list's lock and saved afterwards; a save truncates the file   *)
(* and writes it anew.  The operator edits in a prompt, which holds a copy *)
(* of the entry: the mouse and the buttons go on working beside it, so     *)
(* the list may change before the prompt is submitted.  What a view shows, *)
(* and what its keys act on, is a copy of the list as well.                *)
(***************************************************************************)
EXTENDS Naturals, Sequences

CONSTANTS
  Texts,   \* what a rule or a filter may say
  MaxLen,  \* bound on the length of the list
  MaxID    \* bound on the numbers given in one run

ASSUME ListsAssumption == MaxLen \in Nat /\ MaxID \in Nat

VARIABLES
  kind,      \* "rules" or "filters"
  up,        \* the program runs
  list,      \* RuleSet.rules, FilterSet.filters
  nextID,    \* their nextID
  compiled,  \* FilterSet.compiled: the texts in force, or unset
  at,        \* "rest", or how far the save after a change has come
  file,      \* the file: absent, torn, or a list
  failed,    \* history: the last save failed, or nothing could be loaded
  prior,     \* history: the list before the change being saved
  look,      \* the view of this list is the one on the screen
  seen,      \* App.rules, App.filterList: the list as that view shows it
  sel,       \* App.ruleSel, App.filterSel, counted from one
  prompt,    \* the edit prompt: closed, or its copy of an entry
  alive      \* history: the entry it was opened on has not been removed

entries == <<list, nextID, at, prior>>
disk    == <<file, failed>>
screen  == <<look, seen, sel>>
asked   == <<prompt, alive>>
vars == <<kind, up, compiled, entries, disk, screen, asked>>

Entry == [id : 1 .. MaxID, enabled : BOOLEAN, text : Texts]

Closed == [id |-> 0]
Absent == [state |-> "absent", entries |-> <<>>]
Torn   == [state |-> "torn", entries |-> <<>>]
Holding(l) == [state |-> "whole", entries |-> l]

Unset == {"unset"}

Init ==
  /\ kind \in {"rules", "filters"}
  /\ up = FALSE /\ list = <<>> /\ nextID = 0 /\ compiled = Unset /\ at = "rest"
  /\ file = Absent /\ failed = FALSE /\ prior = <<>>
  /\ prompt = Closed /\ alive = FALSE
  /\ look = FALSE /\ seen = <<>> /\ sel = 1

-----------------------------------------------------------------------------
(* Load: the numbering goes on behind the largest number in the file.      *)

IDs(l) == {l[k].id : k \in 1 .. Len(l)}

NumberedAfter(l) ==
  \E n \in 0 .. MaxID :
    /\ nextID' = n
    /\ n \in IDs(l) \cup {0} /\ \A i \in IDs(l) : i <= n

(* A file that is not there makes an empty list; one that cannot be read   *)
(* does too, and the program goes on after a message.  The filters are     *)
(* shown from the start, the rules when their view is first refreshed.     *)
Launch ==
  /\ ~up /\ up' = TRUE
  /\ list' = IF file.state = "whole" THEN file.entries ELSE <<>>
  /\ NumberedAfter(list')
  /\ failed' = (file.state = "torn")
  /\ seen' = IF kind = "filters" THEN list' ELSE <<>>
  /\ prior' = <<>> /\ compiled' = Unset /\ look' = FALSE /\ sel' = 1
  /\ UNCHANGED <<kind, at, file, asked>>

(* The program ends, or is killed, which may be in the middle of a save.   *)
Stops ==
  /\ up /\ up' = FALSE
  /\ at' = "rest" /\ prompt' = Closed /\ alive' = FALSE /\ compiled' = Unset
  /\ look' = FALSE /\ seen' = <<>> /\ sel' = 1
  /\ UNCHANGED <<kind, list, nextID, prior, disk>>

-----------------------------------------------------------------------------
(* The view.  Refreshing copies the rules only while they are on the       *)
(* screen; the filters are copied by whatever changes them as well.        *)

Ready == up /\ at = "rest"

(* Variant: the filters too are copied only while they are on the screen.  *)
ShowsWhenLooking(l) == seen' = IF look THEN l ELSE seen

Shows(l) == seen' = IF look \/ kind = "filters" THEN l ELSE seen

(* The clamp at the end of every key.                                      *)
OnEntry(place, n) == IF place <= n THEN place ELSE IF n = 0 THEN 1 ELSE n

KeepsWithin(place) == sel' = OnEntry(place, Len(seen'))

(* A digit, a tab of the menu bar and a button refresh, the arrows and Tab *)
(* do not; a new flow does at any time.                                    *)
ChangesView ==
  /\ Ready /\ look' = ~look
  /\ \/ UNCHANGED seen
     \/ seen' = IF look' THEN list ELSE seen
  /\ UNCHANGED <<kind, up, compiled, entries, disk, asked, sel>>

Refresh ==
  /\ Ready /\ look /\ Shows(list)
  /\ UNCHANGED <<kind, up, compiled, entries, disk, asked, look, sel>>

(* Arrows, paging, Home and End, the wheel, a click on another row.        *)
Moves ==
  /\ Ready /\ look /\ UNCHANGED seen
  /\ \E place \in 1 .. Len(seen) + 1 : KeepsWithin(place)
  /\ UNCHANGED <<kind, up, compiled, entries, disk, asked, look>>

-----------------------------------------------------------------------------
(* Changes.  Each one is followed by a save, whatever it has changed.      *)

Changes(l) == list' = l /\ prior' = list /\ at' = "changed"

Numbered(text) == [id |-> nextID + 1, enabled |-> TRUE, text |-> text]

Appends(e) == /\ Len(list) < MaxLen /\ nextID < MaxID
              /\ nextID' = nextID + 1
              /\ Changes(Append(list, e))

(* Add: what was typed into a prompt, the pinned filter, a rule made from  *)
(* a flow in another view.                                                 *)
Add ==
  /\ Ready
  /\ \E t \in Texts : Appends(Numbered(t))
  /\ Shows(list')
  /\ UNCHANGED <<kind, up, compiled, disk, asked, look, sel>>

(* The entry a key or a button acts on is looked up by its number.         *)
Selected(k) == sel <= Len(seen) /\ list[k].id = seen[sel].id

(* The list without its k-th entry.                                        *)
Without(k) == SubSeq(list, 1, k - 1) \o SubSeq(list, k + 1, Len(list))

RemoveEntry ==
  /\ Ready /\ look
  /\ \E k \in 1 .. Len(list) :
       /\ Selected(k) /\ Changes(Without(k))
       /\ alive' = (alive /\ prompt.id # list[k].id)
  /\ Shows(list') /\ KeepsWithin(sel)
  /\ UNCHANGED <<kind, up, nextID, compiled, disk, prompt, look>>

(* Variant: what is switched is not saved.                                 *)
ToggleUnsaved ==
  /\ Ready /\ look
  /\ \E k \in 1 .. Len(list) :
       Selected(k) /\ list' = [list EXCEPT ![k].enabled = ~@]
  /\ Shows(list') /\ prior' = list
  /\ UNCHANGED <<kind, up, nextID, compiled, at, disk, asked, look, sel>>

Toggle ==
  /\ Ready /\ look
  /\ \E k \in 1 .. Len(list) :
       Selected(k) /\ Changes([list EXCEPT ![k].enabled = ~@])
  /\ Shows(list')
  /\ UNCHANGED <<kind, up, nextID, compiled, disk, asked, look, sel>>

(* Variant: an empty list is numbered from one again.                      *)
ClearRestarts ==
  /\ Ready /\ look /\ Changes(<<>>) /\ alive' = FALSE /\ nextID' = 0
  /\ Shows(<<>>) /\ KeepsWithin(sel)
  /\ UNCHANGED <<kind, up, compiled, disk, prompt, look>>

(* The button that clears the rules does without the clamp.                *)
Clear ==
  /\ Ready /\ look /\ Changes(<<>>) /\ alive' = FALSE
  /\ Shows(<<>>)
  /\ \/ KeepsWithin(sel)
     \/ kind = "rules" /\ UNCHANGED sel
  /\ UNCHANGED <<kind, up, nextID, compiled, disk, prompt, look>>

(* A copy of the selected entry, as the view shows it, goes into the       *)
(* prompt.                                                                 *)
Edit ==
  /\ Ready /\ look /\ sel <= Len(seen)
  /\ prompt' = seen[sel] /\ alive' = TRUE
  /\ UNCHANGED <<kind, up, compiled, entries, disk, screen>>

Cancel ==
  /\ Ready /\ prompt # Closed
  /\ prompt' = Closed /\ alive' = FALSE
  /\ UNCHANGED <<kind, up, compiled, entries, disk, screen>>

(* Replace, with the text typed and the switch as it was when the prompt   *)
(* was opened.  A rule that is no longer there is added under a new        *)
(* number, a filter is given up.                                           *)
Replaced(e) ==
  \/ \E k \in 1 .. Len(list) :
       /\ list[k].id = e.id
       /\ Changes([list EXCEPT ![k] = e]) /\ UNCHANGED nextID
  \/ /\ e.id \notin IDs(list)
     /\ IF kind = "rules" THEN Appends([e EXCEPT !.id = nextID + 1])
        ELSE Changes(list) /\ UNCHANGED nextID

Submit ==
  /\ Ready /\ prompt # Closed
  /\ \E t \in Texts : Replaced([prompt EXCEPT !.text = t])
  /\ Shows(list')
  /\ prompt' = Closed /\ alive' = FALSE
  /\ UNCHANGED <<kind, up, compiled, disk, look, sel>>

-----------------------------------------------------------------------------
(* Save.                                                                   *)

(* Variant: the compiled filters are kept.                                 *)
TruncatesKeepingCompiled ==
  /\ at = "changed" /\ at' = "saving" /\ file' = Torn
  /\ UNCHANGED <<kind, up, list, nextID, compiled, failed, prior, screen, asked>>

SaveTruncates ==
  /\ at = "changed" /\ at' = "saving"
  /\ compiled' = Unset /\ file' = Torn
  /\ UNCHANGED <<kind, up, list, nextID, failed, prior, screen, asked>>

SaveWrites ==
  /\ at = "saving" /\ at' = "rest"
  /\ file' = Holding(list) /\ failed' = FALSE /\ prior' = <<>>
  /\ UNCHANGED <<kind, up, list, nextID, compiled, screen, asked>>

(* The file cannot be opened, or the disk is full: the error is dropped.   *)
SaveFails ==
  /\ \/ at = "changed" /\ compiled' = Unset
     \/ at = "saving" /\ UNCHANGED compiled
  /\ at' = "rest" /\ failed' = TRUE /\ prior' = <<>>
  /\ UNCHANGED <<kind, up, list, nextID, file, screen, asked>>

(* FilterSet.queries, whenever the view of the flows is filtered.          *)
Enabled == {list[k].text : k \in {j \in 1 .. Len(list) : list[j].enabled}}

Compile ==
  /\ Ready /\ kind = "filters" /\ compiled = Unset
  /\ compiled' = Enabled
  /\ UNCHANGED <<kind, up, entries, disk, screen, asked>>

-----------------------------------------------------------------------------
Next == \/ Launch \/ Stops \/ ChangesView \/ Refresh \/ Moves
        \/ Add \/ RemoveEntry \/ Toggle \/ Clear \/ Edit \/ Cancel \/ Submit
        \/ SaveTruncates \/ SaveWrites \/ SaveFails \/ Compile

Spec == Init /\ [][Next]_vars

-----------------------------------------------------------------------------
(* Every variable keeps its type.                                          *)
TypeOK ==
  /\ kind \in {"rules", "filters"} /\ up \in BOOLEAN
  /\ list \in Seq(Entry) /\ prior \in Seq(Entry) /\ seen \in Seq(Entry)
  /\ nextID \in 0 .. MaxID
  /\ compiled = Unset \/ compiled \subseteq Texts
  /\ at \in {"rest", "changed", "saving"} /\ (at # "rest" => up)
  /\ file \in [state : {"absent", "torn", "whole"}, entries : Seq(Entry)]
  /\ failed \in BOOLEAN /\ alive \in BOOLEAN /\ look \in BOOLEAN
  /\ sel \in Nat \ {0}
  /\ prompt = Closed \/ prompt \in Entry

(* An entry is found by its number, here, in the prompt and after the next *)
(* start: no two have the same, and the next one is new.                   *)
NumbersAreUnique ==
  /\ \A j, k \in 1 .. Len(list) : list[j].id = list[k].id => j = k
  /\ \A k \in 1 .. Len(list) : up => list[k].id <= nextID

(* What is submitted goes to the entry it was taken from, and to no other: *)
(* its number is not given to another entry while the prompt is open.      *)
EditFindsItsEntry == prompt # Closed => (alive <=> prompt.id \in IDs(list))

(* The list is one of uniquely numbered entries, and an edit finds the     *)
(* entry it was opened on or sees that it is gone.                         *)
ListsInv == TypeOK /\ NumbersAreUnique /\ EditFindsItsEntry

(* Unless a save has failed, a file that can be read holds the list or the *)
(* one before the last change, and while nothing is being saved the list:  *)
(* only a save that was interrupted leaves it unreadable.                  *)
FileFollows ==
  /\ file.state = "whole" /\ ~failed => file.entries \in {list, prior}
  /\ up /\ at = "rest" /\ ~failed =>
       IF file = Absent THEN list = <<>> ELSE file = Holding(list)

(* The filters in force are the enabled ones, whatever was added, removed, *)
(* switched or edited since they were compiled.                            *)
CompiledIsCurrent == Ready /\ compiled # Unset => compiled = Enabled

(* A key never acts on an entry that is gone: the filters are shown as     *)
(* they are, and the rules shown are all there, if not always as they are. *)
SeenIsThere ==
  IF kind = "filters" THEN up => seen = list ELSE IDs(seen) \subseteq IDs(list)

(* While there are filters one of them is selected, so that no key is      *)
(* lost.  (The rules' clear button leaves the selection behind the end.)   *)
SelectionOnEntry ==
  kind = "filters" /\ look => sel = OnEntry(sel, Len(seen))

(* What the screen shows of a list, and what its keys act on, is there.    *)
ViewInv == SeenIsThere /\ SelectionOnEntry

=============================================================================
