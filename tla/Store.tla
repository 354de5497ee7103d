------------------------------- MODULE Store -------------------------------
(***************************************************************************)
(* internal/core/store.go with those who write to it and the one who reads *)
(* it.  Every exchange runs in a goroutine, which adds a flow and changes  *)
(* it as it proceeds; each change is made under the store's lock, and the  *)
(* subscriber is signalled after the lock is given up.  The reader is      *)
(* either the event loop of internal/tui/app.go, which copies the flows    *)
(* when it is signalled, or the poller of headless mode in main.go.        *)
(* A flow is its number and its state.                                     *)
(***************************************************************************)
EXTENDS Naturals, Sequences

CONSTANTS
  Writers,  \* the goroutines that handle exchanges
  Limit,    \* NewStore's limit
  MaxID     \* bound on the flows ever added

ASSUME StoreAssumption == Limit \in Nat \ {0} /\ MaxID \in Nat

VARIABLES
  flows,    \* Store.flows
  nextID,   \* Store.nextID
  writer,   \* writer[w]: where its handler is, and its flow
  token,    \* the one place of the subscriber's channel is taken
  reader,   \* where the reader is
  view,     \* App.flows: the copies the UI shows
  quiet,    \* history: nothing has changed since the UI subscribed
  seen,     \* runHeadless: the flows it is done with
  printed   \* history: the state each flow was printed in

vars == <<flows, nextID, writer, token, reader, view, quiet, seen, printed>>

IDs    == 1 .. MaxID
States == {"pending", "complete", "error", "intercepted", "blocked"}
Flow   == [id : IDs, state : States]

Idle == [at |-> "idle", id |-> 0]

Init ==
  /\ flows = <<>> /\ nextID = 0
  /\ writer = [w \in Writers |-> Idle]
  /\ token = FALSE
  /\ reader \in {"start", "headless"}
  /\ view = <<>> /\ quiet = FALSE
  /\ seen = {} /\ printed = [i \in IDs |-> "none"]

ui       == <<reader, view>>
headless == <<seen, printed>>

Subscribed == reader \in {"loop", "refresh", "draw", "clear"}

-----------------------------------------------------------------------------
(* Writers.                                                                *)

(* Variant: what exceeds the limit is dropped at the wrong end.            *)
DropsNewest(f) == IF Len(flows) = Limit THEN flows ELSE Append(flows, f)

(* Variant: nothing is dropped.                                            *)
AppendedOnly(f) == Append(flows, f)

(* Append, then drop the oldest flows that exceed the limit.               *)
Appended(f) ==
  IF Len(flows) = Limit THEN Append(Tail(flows), f) ELSE Append(flows, f)

(* Store.Add up to its Unlock.  A flow is added pending, but for one of a  *)
(* TLS handshake that has failed already.                                  *)
Add(w) ==
  /\ writer[w].at = "idle" /\ nextID < MaxID
  /\ nextID' = nextID + 1
  /\ \E s \in {"pending", "error"} : flows' = Appended([id |-> nextID', state |-> s])
  /\ writer' = [writer EXCEPT ![w] = [at |-> "notify", id |-> nextID']]
  /\ quiet' = FALSE
  /\ UNCHANGED <<token, ui, headless>>

(* What a handler makes of a flow's state: nothing when it only records a  *)
(* header or a body.  fail completes a flow before it marks the error.     *)
Successors(s) ==
  {s} \cup CASE s = "pending"     -> States
             [] s = "intercepted" -> {"pending"}
             [] s = "complete"    -> {"error"}
             [] OTHER             -> {}

(* Store.Update up to its Unlock: a flow no longer in the list is left     *)
(* alone, and the subscriber is signalled all the same.                    *)
Update(w) ==
  /\ writer[w].at = "handle"
  /\ \/ \E k \in 1 .. Len(flows) :
          /\ flows[k].id = writer[w].id
          /\ \E s \in Successors(flows[k].state) : flows' = [flows EXCEPT ![k].state = s]
     \/ /\ \A k \in 1 .. Len(flows) : flows[k].id # writer[w].id
        /\ UNCHANGED flows
  /\ writer' = [writer EXCEPT ![w].at = "notify"]
  /\ quiet' = FALSE
  /\ UNCHANGED <<nextID, token, ui, headless>>

(* Store.Notify: with no subscriber there is no channel to put a token in, *)
(* and a channel that holds one is left as it is.                          *)
Notified == token' = Subscribed

(* Variant: a channel without a place, so that only a waiting reader is    *)
(* signalled.                                                              *)
NotifyIfWaiting(w) ==
  /\ writer[w].at = "notify"
  /\ writer' = [writer EXCEPT ![w].at = "handle"]
  /\ token' = (reader = "loop" \/ token)
  /\ UNCHANGED <<flows, nextID, ui, quiet, headless>>

Notify(w) ==
  /\ writer[w].at = "notify"
  /\ writer' = [writer EXCEPT ![w].at = "handle"]
  /\ Notified
  /\ UNCHANGED <<flows, nextID, ui, quiet, headless>>

Finish(w) ==
  /\ writer[w].at = "handle"
  /\ writer' = [writer EXCEPT ![w] = Idle]
  /\ UNCHANGED <<flows, nextID, token, ui, quiet, headless>>

-----------------------------------------------------------------------------
(* The UI's goroutine.                                                     *)

Moves(from, to) == reader = from /\ reader' = to

(* App.refresh: copies of the flows, taken under the lock.                 *)
Shows == view' = flows

(* Run refreshes once before it subscribes.                                *)
FirstRefresh ==
  /\ Moves("start", "shown") /\ Shows
  /\ UNCHANGED <<flows, nextID, writer, token, quiet, headless>>

Subscribe ==
  /\ Moves("shown", "draw")
  /\ quiet' = TRUE
  /\ UNCHANGED <<flows, nextID, writer, token, view, headless>>

(* case <-storeCh in the event loop.                                       *)
Wakes ==
  /\ Moves("loop", "refresh") /\ token
  /\ token' = FALSE
  /\ UNCHANGED <<flows, nextID, writer, view, quiet, headless>>

Refresh ==
  /\ Moves("refresh", "draw") /\ Shows
  /\ UNCHANGED <<flows, nextID, writer, token, quiet, headless>>

(* The rest of refresh, and the drawing before the next select.            *)
Draw ==
  /\ Moves("draw", "loop")
  /\ UNCHANGED <<flows, nextID, writer, token, view, quiet, headless>>

(* A key that refreshes: a filter, a change of view.                       *)
KeyRefreshes ==
  /\ Moves("loop", "draw") /\ Shows
  /\ UNCHANGED <<flows, nextID, writer, token, quiet, headless>>

(* The key c: Store.Clear, which the UI calls itself.                      *)
Clear ==
  /\ Moves("loop", "clear")
  /\ flows' = <<>> /\ quiet' = FALSE
  /\ UNCHANGED <<nextID, writer, token, view, headless>>

(* Variant: Clear does not notify.                                         *)
ClearForgetsToNotify ==
  /\ Moves("clear", "draw")
  /\ UNCHANGED <<flows, nextID, writer, token, view, quiet, headless>>

ClearNotifies ==
  /\ Moves("clear", "draw") /\ Notified
  /\ UNCHANGED <<flows, nextID, writer, view, quiet, headless>>

(* The loop ends, and the deferred unsub takes the channel away.           *)
Quit ==
  /\ Moves("loop", "gone")
  /\ token' = FALSE
  /\ UNCHANGED <<flows, nextID, writer, view, quiet, headless>>

-----------------------------------------------------------------------------
(* The poller of headless mode.                                            *)

Listed == {flows[k] : k \in 1 .. Len(flows)}

(* A flow is printed once, when a poll first finds it other than pending.  *)
Printing == {f \in Listed : f.id \notin seen /\ f.state # "pending"}

Prints ==
  printed' = [i \in IDs |->
    IF \E f \in Printing : f.id = i
    THEN (CHOOSE f \in Printing : f.id = i).state ELSE printed[i]]

(* Variant: a flow found pending counts as seen.                           *)
PollSeesPending ==
  /\ reader = "headless"
  /\ seen' = seen \cup {f.id : f \in Listed}
  /\ Prints
  /\ UNCHANGED <<flows, nextID, writer, token, ui, quiet>>

Poll ==
  /\ reader = "headless"
  /\ seen' = seen \cup {f.id : f \in Printing}
  /\ Prints
  /\ UNCHANGED <<flows, nextID, writer, token, ui, quiet>>

-----------------------------------------------------------------------------
Handler(w) == Add(w) \/ Update(w) \/ Notify(w) \/ Finish(w)

Event == FirstRefresh \/ Subscribe \/ Refresh \/ Draw \/ ClearNotifies

Next == \/ \E w \in Writers : Handler(w)
        \/ Event \/ Wakes \/ KeyRefreshes \/ Clear \/ Quit \/ Poll

Spec == Init /\ [][Next]_vars

(* Notify never blocks, the UI's handlers run to their end, select picks   *)
(* among ready channels at random, and the poller's ticker ticks.          *)
Fairness == /\ \A w \in Writers : WF_vars(Notify(w))
            /\ WF_vars(Event) /\ SF_vars(Wakes) /\ WF_vars(Poll)

FairSpec == Spec /\ Fairness

-----------------------------------------------------------------------------
(* Every variable keeps its type, and the list never exceeds its limit.    *)
TypeOK ==
  /\ nextID \in 0 .. MaxID
  /\ flows \in Seq(Flow) /\ Len(flows) <= Limit
  /\ writer \in [Writers -> [at : {"idle", "notify", "handle"}, id : 0 .. MaxID]]
  /\ token \in BOOLEAN /\ quiet \in BOOLEAN
  /\ reader \in {"start", "shown", "loop", "refresh", "draw", "clear",
                "gone", "headless"}
  /\ view \in Seq(Flow)
  /\ seen \subseteq IDs /\ printed \in [IDs -> States \cup {"none"}]

(* The list holds the newest flows without a gap, in order of arrival: the *)
(* numbers Add gives out under its lock are unique, and only the oldest    *)
(* flows are ever dropped, whatever Clear does in between.                 *)
NewestKept ==
  /\ Len(flows) <= nextID
  /\ \A k \in 1 .. Len(flows) : flows[k].id = (nextID - Len(flows)) + k

(* The reader is going to copy the list, or to signal itself.              *)
Signalled == \/ token
             \/ reader \in {"refresh", "clear"}
             \/ \E w \in Writers : writer[w].at = "notify"

(* No wake-up is lost although Notify runs outside the store's lock and    *)
(* never waits: whenever the UI shows something else than the list, and    *)
(* the list has changed since it subscribed, it is about to look again.    *)
StaleIsSignalled ==
  Subscribed /\ ~quiet /\ view # flows => Signalled

(* A change made after the UI has subscribed is shown in the end, if the   *)
(* operator does not quit before.                                          *)
ChangesAreShown ==
  Subscribed /\ ~quiet /\ view # flows ~> view = flows \/ reader = "gone"

(* The poller prints every flow that has left the state pending, unless it *)
(* is dropped from the list, or goes back to pending, before it looks.     *)
SettledIsPrinted ==
  \A i \in IDs :
    (reader = "headless" /\ \E f \in Listed : f.id = i /\ f.state # "pending")
      ~> (printed[i] # "none" \/ \A f \in Listed : f.id = i => f.state = "pending")

=============================================================================
