---------------------------- MODULE StoreProofs ----------------------------
(* Theorems about Store, for any number of writers, any limit and any      *)
(* number of flows.                                                        *)
EXTENDS Store, TLAPS

-----------------------------------------------------------------------------
(* The list.  What Add leaves of it is again a list of flows within the    *)
(* limit, and ends with the new one.                                       *)
LEMMA AppendedList ==
  ASSUME flows \in Seq(Flow), Len(flows) <= Limit, NEW f \in Flow
  PROVE  /\ Appended(f) \in Seq(Flow)
         /\ Len(Appended(f)) <= Limit
         /\ Len(Appended(f)) = IF Len(flows) = Limit THEN Limit ELSE Len(flows) + 1
         /\ Len(Appended(f)) > 0
         /\ Appended(f)[Len(Appended(f))] = f
         /\ \A k \in 1 .. Len(Appended(f)) - 1 :
              Appended(f)[k] = flows[k + Len(flows) + 1 - Len(Appended(f))]
<1>1. Limit \in Nat \ {0} /\ Len(flows) \in Nat
  BY StoreAssumption
<1>2. CASE Len(flows) = Limit
  <2>1. flows # <<>>
    BY <1>1, <1>2
  <2>2. /\ Tail(flows) \in Seq(Flow) /\ Len(Tail(flows)) = Limit - 1
        /\ \A k \in 1 .. Limit - 1 : Tail(flows)[k] = flows[k + 1]
    BY <1>1, <1>2, <2>1
  <2>3. Appended(f) = Append(Tail(flows), f)
    BY <1>2 DEF Appended
  <2> DEFINE t == Tail(flows)
  <2>4. /\ Append(t, f) \in Seq(Flow) /\ Len(Append(t, f)) = Limit
        /\ Append(t, f)[Limit] = f
        /\ \A k \in 1 .. Limit - 1 : Append(t, f)[k] = t[k]
    <3> HIDE DEF t
    <3>1. t \in Seq(Flow) /\ Len(t) = Limit - 1
      BY <2>2 DEF t
    <3> QED BY <1>1, <3>1
  <2>5. \A k \in 1 .. Limit - 1 : Append(t, f)[k] = flows[k + 1]
    BY <2>2, <2>4
  <2> QED BY <1>1, <1>2, <2>3, <2>4, <2>5
<1>3. CASE Len(flows) # Limit
  <2>1. Appended(f) = Append(flows, f)
    BY <1>3 DEF Appended
  <2>2. /\ Append(flows, f) \in Seq(Flow) /\ Len(Append(flows, f)) = Len(flows) + 1
        /\ Append(flows, f)[Len(flows) + 1] = f
        /\ \A k \in 1 .. Len(flows) : Append(flows, f)[k] = flows[k]
    OBVIOUS
  <2> QED BY <1>1, <1>3, <2>1, <2>2
<1> QED BY <1>2, <1>3

(* An update leaves the list of flows a list of flows, and their numbers   *)
(* alone.                                                                  *)
LEMMA UpdatedList ==
  ASSUME flows \in Seq(Flow), NEW k \in 1 .. Len(flows), NEW s \in States,
         flows' = [flows EXCEPT ![k].state = s]
  PROVE  /\ flows' \in Seq(Flow) /\ Len(flows') = Len(flows)
         /\ \A j \in 1 .. Len(flows) : flows'[j].id = flows[j].id
<1>1. flows[k] \in Flow
  OBVIOUS
<1>2. [flows[k] EXCEPT !.state = s] \in Flow /\ [flows[k] EXCEPT !.state = s].id = flows[k].id
  BY <1>1 DEF Flow
<1> DEFINE g == [flows[k] EXCEPT !.state = s]
<1>3. flows' = [flows EXCEPT ![k] = g]
  OBVIOUS
<1>4. g \in Flow /\ g.id = flows[k].id
  BY <1>2
<1> HIDE DEF g
<1> QED BY <1>3, <1>4

LEMMA SuccessorsAreStates == ASSUME NEW s \in States PROVE Successors(s) \subseteq States
  BY DEF Successors, States

-----------------------------------------------------------------------------
(* The type invariant, with the bounds that tie the numbers together.      *)
LEMMA InitTyped == Init => TypeOK
<1> SUFFICES ASSUME Init PROVE TypeOK
  OBVIOUS
<1>1. /\ flows \in Seq(Flow) /\ Len(flows) <= Limit
      /\ view \in Seq(Flow)
  <2>1. flows = <<>> /\ view = <<>>
    BY DEF Init
  <2> QED BY <2>1, StoreAssumption
<1>2. writer \in [Writers -> [at : {"idle", "notify", "handle"}, id : 0 .. MaxID]]
  BY StoreAssumption DEF Init, Idle
<1>3. nextID \in 0 .. MaxID /\ token \in BOOLEAN /\ quiet \in BOOLEAN
  <2>1. nextID = 0 /\ token = FALSE /\ quiet = FALSE
    BY Zenon DEF Init
  <2>2. nextID \in 0 .. MaxID
    BY <2>1, StoreAssumption
  <2> QED BY <2>1, <2>2, Zenon
<1>4. /\ reader \in {"start", "shown", "loop", "refresh", "draw", "clear", "gone", "headless"}
      /\ seen \subseteq IDs /\ printed \in [IDs -> States \cup {"none"}]
  BY DEF Init
<1> QED BY <1>1, <1>2, <1>3, <1>4 DEF TypeOK

LEMMA StepTyped == TypeOK /\ [Next]_vars => TypeOK'
<1> SUFFICES ASSUME TypeOK, [Next]_vars PROVE TypeOK'
  OBVIOUS
<1> USE DEF TypeOK
<1>1. ASSUME NEW w \in Writers, Add(w) PROVE TypeOK'
  <2>1. nextID' \in 1 .. MaxID /\ nextID' \in 0 .. MaxID
    BY <1>1, StoreAssumption DEF Add
  <2>2. PICK s \in {"pending", "error"} : flows' = Appended([id |-> nextID', state |-> s])
    BY <1>1 DEF Add
  <2>3. [id |-> nextID', state |-> s] \in Flow
    BY <2>1 DEF Flow, IDs, States
  <2>4. flows' \in Seq(Flow) /\ Len(flows') <= Limit
    BY <2>2, <2>3, AppendedList
  <2>5. writer' \in [Writers -> [at : {"idle", "notify", "handle"}, id : 0 .. MaxID]]
    BY <1>1, <2>1 DEF Add
  <2> QED BY <1>1, <2>1, <2>4, <2>5 DEF Add, ui, headless
<1>2. ASSUME NEW w \in Writers, Update(w) PROVE TypeOK'
  <2>1. flows' \in Seq(Flow) /\ Len(flows') <= Limit
    <3>1. CASE UNCHANGED flows
      BY <3>1
    <3>2. ASSUME NEW k \in 1 .. Len(flows), NEW s \in Successors(flows[k].state),
                 flows' = [flows EXCEPT ![k].state = s]
          PROVE  flows' \in Seq(Flow) /\ Len(flows') <= Limit
      <4>1. flows[k] \in Flow
        OBVIOUS
      <4>2. s \in States
        BY <4>1, SuccessorsAreStates DEF Flow
      <4> QED BY <3>2, <4>2, UpdatedList
    <3> QED BY <1>2, <3>1, <3>2 DEF Update
  <2>2. writer' \in [Writers -> [at : {"idle", "notify", "handle"}, id : 0 .. MaxID]]
    BY <1>2 DEF Update
  <2> QED BY <1>2, <2>1, <2>2 DEF Update, ui, headless
<1>3. ASSUME NEW w \in Writers, Notify(w) PROVE TypeOK'
  <2>1. writer' \in [Writers -> [at : {"idle", "notify", "handle"}, id : 0 .. MaxID]]
    BY <1>3 DEF Notify
  <2>2. token' \in BOOLEAN
    <3>1. (reader \in {"loop", "refresh", "draw", "clear"}) \in BOOLEAN
      OBVIOUS
    <3> QED BY <1>3, <3>1, Zenon DEF Notify, Notified, Subscribed
  <2>3. UNCHANGED <<flows, nextID, reader, view, quiet, seen, printed>>
    BY <1>3 DEF Notify, ui, headless
  <2> QED BY <2>1, <2>2, <2>3
<1>4. ASSUME NEW w \in Writers, Finish(w) PROVE TypeOK'
  BY <1>4, StoreAssumption DEF Finish, Idle, ui, headless
<1>5. CASE FirstRefresh
  BY <1>5 DEF FirstRefresh, Moves, Shows, headless
<1>6. CASE Subscribe
  BY <1>6 DEF Subscribe, Moves, headless
<1>7. CASE Refresh \/ KeyRefreshes
  BY <1>7 DEF Refresh, KeyRefreshes, Moves, Shows, headless
<1>8. CASE Draw \/ Wakes \/ Quit
  BY <1>8 DEF Draw, Wakes, Quit, Moves, headless
<1>9. CASE Clear
  <2>1. flows' = <<>>
    BY <1>9 DEF Clear
  <2>2. flows' \in Seq(Flow) /\ Len(flows') <= Limit
    BY <2>1, StoreAssumption
  <2>3. reader' = "clear" /\ quiet' = FALSE
    BY <1>9 DEF Clear, Moves
  <2>4. UNCHANGED <<nextID, writer, token, view, seen, printed>>
    BY <1>9 DEF Clear, headless
  <2> QED BY <2>2, <2>3, <2>4
<1>10. CASE ClearNotifies
  BY <1>10 DEF ClearNotifies, Moves, Notified, Subscribed, headless
<1>11. CASE Poll
  <2>1. Printing \subseteq Flow
    BY DEF Printing, Listed
  <2>2. seen' \subseteq IDs
    BY <1>11, <2>1 DEF Poll, Flow
  <2>3. ASSUME NEW i \in IDs, \E f \in Printing : f.id = i
        PROVE  (CHOOSE f \in Printing : f.id = i).state \in States
    <3>1. (CHOOSE f \in Printing : f.id = i) \in Printing
      BY <2>3
    <3> QED BY <2>1, <3>1 DEF Flow
  <2>4. printed' \in [IDs -> States \cup {"none"}]
    BY <1>11, <2>3 DEF Poll, Prints
  <2> QED BY <1>11, <2>2, <2>4 DEF Poll, ui
<1>12. CASE UNCHANGED vars
  BY <1>12 DEF vars
<1> QED BY <1>1, <1>2, <1>3, <1>4, <1>5, <1>6, <1>7, <1>8, <1>9, <1>10, <1>11, <1>12
        DEF Next, Handler, Event

(* Type correctness, with the limit of the list.                           *)
THEOREM TypeCorrect == Spec => []TypeOK
  BY InitTyped, StepTyped, PTL DEF Spec

-----------------------------------------------------------------------------
LEMMA StepKeepsNewest == TypeOK /\ NewestKept /\ [Next]_vars => NewestKept'
<1> SUFFICES ASSUME TypeOK, NewestKept, [Next]_vars PROVE NewestKept'
  OBVIOUS
<1>0. /\ flows \in Seq(Flow) /\ Len(flows) <= Limit /\ Len(flows) \in Nat
      /\ nextID \in Nat /\ Limit \in Nat \ {0}
  BY StoreAssumption DEF TypeOK
<1>1. ASSUME NEW w \in Writers, Add(w) PROVE NewestKept'
  <2>1. nextID' = nextID + 1 /\ nextID' \in IDs
    BY <1>0, <1>1, StoreAssumption DEF Add, IDs, TypeOK
  <2>2. PICK s \in {"pending", "error"} : flows' = Appended([id |-> nextID', state |-> s])
    BY <1>1 DEF Add
  <2> DEFINE f == [id |-> nextID', state |-> s]
  <2>3. f \in Flow /\ f.id = nextID'
    BY <2>1 DEF Flow, States
  <2>4. flows' = Appended(f)
    BY <2>2
  <2> HIDE DEF f
  <2>5. /\ Len(flows') = IF Len(flows) = Limit THEN Limit ELSE Len(flows) + 1
        /\ flows'[Len(flows')] = f
        /\ \A k \in 1 .. Len(flows') - 1 :
             flows'[k] = flows[k + Len(flows) + 1 - Len(flows')]
    BY <1>0, <2>3, <2>4, AppendedList
  <2>6. Len(flows') \in Nat /\ Len(flows') <= nextID'
    BY <1>0, <2>1, <2>5 DEF NewestKept
  <2>7. ASSUME NEW k \in 1 .. Len(flows')
        PROVE  flows'[k].id = (nextID' - Len(flows')) + k
    <3>1. CASE k = Len(flows')
      BY <1>0, <2>1, <2>3, <2>5, <2>6, <3>1
    <3>2. CASE k # Len(flows')
      <4> DEFINE j == k + Len(flows) + 1 - Len(flows')
      <4>1. k \in 1 .. Len(flows') - 1
        BY <2>6, <2>7, <3>2
      <4>2. flows'[k] = flows[j]
        BY <2>5, <4>1
      <4>3. j \in 1 .. Len(flows)
        BY <1>0, <2>5, <2>6, <4>1
      <4>4. flows[j].id = (nextID - Len(flows)) + j
        BY <4>3 DEF NewestKept
      <4>5. (nextID - Len(flows)) + j = (nextID' - Len(flows')) + k
        BY <1>0, <2>1, <2>6, <4>1
      <4> QED BY <4>2, <4>4, <4>5
    <3> QED BY <3>1, <3>2
  <2> QED BY <2>6, <2>7 DEF NewestKept
<1>2. ASSUME NEW w \in Writers, Update(w) PROVE NewestKept'
  <2>1. nextID' = nextID
    BY <1>2 DEF Update
  <2>2. CASE UNCHANGED flows
    BY <2>1, <2>2 DEF NewestKept
  <2>3. ASSUME NEW k \in 1 .. Len(flows), NEW s \in Successors(flows[k].state),
               flows' = [flows EXCEPT ![k].state = s]
        PROVE  NewestKept'
    <3>1. flows[k] \in Flow
      BY <1>0
    <3>2. s \in States
      BY <3>1, SuccessorsAreStates DEF Flow
    <3>3. Len(flows') = Len(flows) /\ \A j \in 1 .. Len(flows) : flows'[j].id = flows[j].id
      BY <1>0, <2>3, <3>2, UpdatedList
    <3> QED BY <2>1, <3>3 DEF NewestKept
  <2> QED BY <1>2, <2>2, <2>3 DEF Update
<1>3. CASE Clear
  <2>1. Len(flows') = 0 /\ nextID' = nextID
    BY <1>3 DEF Clear
  <2> QED BY <1>0, <2>1 DEF NewestKept
<1>4. ASSUME UNCHANGED <<flows, nextID>> PROVE NewestKept'
  BY <1>4 DEF NewestKept
<1>5. CASE UNCHANGED vars
  BY <1>4, <1>5 DEF vars
<1> QED BY <1>1, <1>2, <1>3, <1>4, <1>5
        DEF Next, Handler, Event, Notify, Finish, FirstRefresh, Subscribe, Refresh, Draw,
            ClearNotifies, Wakes, KeyRefreshes, Quit, Poll

(* The list is always the newest flows without a gap, numbered in order.   *)
THEOREM NewestAlwaysKept == Spec => []NewestKept
<1>1. Init => NewestKept
  BY DEF Init, NewestKept
<1> QED BY <1>1, InitTyped, StepTyped, StepKeepsNewest, PTL DEF Spec

-----------------------------------------------------------------------------
(* A wake-up is on its way for every change the UI has not seen.  TypeOK   *)
(* is needed only for a writer to have a place to record that it notifies. *)
LEMMA StepSignals == TypeOK /\ StaleIsSignalled /\ [Next]_vars => StaleIsSignalled'
<1> SUFFICES ASSUME TypeOK, StaleIsSignalled, [Next]_vars PROVE StaleIsSignalled'
  OBVIOUS
<1>1. ASSUME NEW w \in Writers, Add(w) \/ Update(w) PROVE StaleIsSignalled'
  <2>1. writer'[w].at = "notify"
    BY <1>1 DEF Add, Update, TypeOK
  <2> QED BY <2>1 DEF StaleIsSignalled, Signalled
<1>2. ASSUME NEW w \in Writers, Notify(w) PROVE StaleIsSignalled'
  BY <1>2 DEF Notify, Notified, Subscribed, StaleIsSignalled, Signalled, ui
<1>3. ASSUME NEW w \in Writers, Finish(w) PROVE StaleIsSignalled'
  <2>1. \A v \in Writers : writer[v].at = "notify" => writer'[v].at = "notify"
    BY <1>3 DEF Finish, TypeOK
  <2> QED BY <1>3, <2>1 DEF Finish, Subscribed, StaleIsSignalled, Signalled, ui
<1>4. CASE FirstRefresh \/ Refresh \/ KeyRefreshes
  BY <1>4 DEF FirstRefresh, Refresh, KeyRefreshes, Shows, StaleIsSignalled
<1>5. CASE Subscribe
  BY <1>5 DEF Subscribe, StaleIsSignalled
<1>6. CASE Wakes \/ Clear
  BY <1>6 DEF Wakes, Clear, Moves, StaleIsSignalled, Signalled
<1>7. CASE Draw
  BY <1>7 DEF Draw, Moves, Subscribed, StaleIsSignalled, Signalled
<1>8. CASE ClearNotifies
  BY <1>8 DEF ClearNotifies, Moves, Notified, Subscribed, StaleIsSignalled, Signalled
<1>9. CASE Poll
  BY <1>9 DEF Poll, Subscribed, StaleIsSignalled, Signalled, ui
<1>10. CASE Quit
  BY <1>10 DEF Quit, Moves, Subscribed, StaleIsSignalled
<1>11. CASE UNCHANGED vars
  BY <1>11 DEF vars, Subscribed, StaleIsSignalled, Signalled
<1> QED BY <1>1, <1>2, <1>3, <1>4, <1>5, <1>6, <1>7, <1>8, <1>9, <1>10, <1>11
        DEF Next, Handler, Event

(* No wake-up is lost, for any number of writers.                          *)
THEOREM StaleAlwaysSignalled == Spec => []StaleIsSignalled
<1>1. Init => StaleIsSignalled
  BY DEF Init, StaleIsSignalled, Subscribed
<1> QED BY <1>1, InitTyped, StepTyped, StepSignals, PTL DEF Spec

=============================================================================
