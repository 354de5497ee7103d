---------------------------- MODULE RulesProofs ----------------------------
(* Theorems about the rules and the saved filters.  The first part is      *)
(* about Lists, in which they are kept: both kinds of list, of any length, *)
(* over any texts and for any number of changes, saves, kills and starts.  *)
(* The second is about Prompts, in which a rule is written: any texts over *)
(* any alphabet, and any flows.                                            *)
EXTENDS Lists, Prompts, SequenceTheorems, WellFoundedInduction, TLAPS

-----------------------------------------------------------------------------
(* Lists of entries.  A list is described by its numbers: what a change    *)
(* does to them is stated here, once for each kind of change.              *)
Unique(l) == \A j, k \in 1 .. Len(l) : l[j].id = l[k].id => j = k

Within(l, n) == \A k \in 1 .. Len(l) : l[k].id <= n

LEMMA IDsOf == ASSUME NEW l, NEW k \in 1 .. Len(l) PROVE l[k].id \in IDs(l)
  BY DEF IDs

LEMMA EmptyList ==
  /\ <<>> \in Seq(Entry) /\ Unique(<<>>) /\ IDs(<<>>) = {} /\ \A n : Within(<<>>, n)
  BY DEF Unique, Within, IDs

LEMMA AppendedList ==
  ASSUME NEW l \in Seq(Entry), NEW e \in Entry, NEW n \in Nat,
         Unique(l), Within(l, n), e.id = n + 1
  PROVE  /\ Append(l, e) \in Seq(Entry) /\ Unique(Append(l, e))
         /\ Within(Append(l, e), n + 1)
         /\ IDs(Append(l, e)) = IDs(l) \cup {n + 1}
<1> DEFINE m == Append(l, e)
<1>1. /\ m \in Seq(Entry) /\ Len(m) = Len(l) + 1 /\ Len(l) \in Nat
      /\ m[Len(l) + 1] = e /\ \A k \in 1 .. Len(l) : m[k] = l[k]
  OBVIOUS
<1> HIDE DEF m
<1>2. ASSUME NEW k \in 1 .. Len(l) PROVE l[k].id \in Nat /\ l[k].id <= n
  <2>1. l[k] \in Entry
    OBVIOUS
  <2>2. l[k].id \in 1 .. MaxID
    BY <2>1 DEF Entry
  <2> QED BY <2>2, ListsAssumption DEF Within
<1>3. Unique(m) /\ Within(m, n + 1)
  <2>1. \A k \in 1 .. Len(l) : m[k].id \in Nat /\ m[k].id <= n /\ m[k].id # m[Len(m)].id
    BY <1>1, <1>2
  <2>2. \A k \in 1 .. Len(m) : k = Len(m) \/ k \in 1 .. Len(l)
    BY <1>1
  <2>3. Unique(m)
    BY <1>1, <2>1, <2>2 DEF Unique
  <2>4. Within(m, n + 1)
    BY <1>1, <2>1, <2>2 DEF Within
  <2> QED BY <2>3, <2>4
<1>4. IDs(m) = IDs(l) \cup {n + 1}
  BY <1>1 DEF IDs
<1> QED BY <1>1, <1>3, <1>4 DEF m

LEMMA ReplacedList ==
  ASSUME NEW l \in Seq(Entry), NEW k \in 1 .. Len(l), NEW e \in Entry, e.id = l[k].id
  PROVE  /\ [l EXCEPT ![k] = e] \in Seq(Entry)
         /\ Unique(l) => Unique([l EXCEPT ![k] = e])
         /\ \A n : Within(l, n) => Within([l EXCEPT ![k] = e], n)
         /\ IDs([l EXCEPT ![k] = e]) = IDs(l)
<1> DEFINE m == [l EXCEPT ![k] = e]
<1>1. /\ m \in Seq(Entry) /\ Len(m) = Len(l)
      /\ \A j \in 1 .. Len(l) : m[j].id = l[j].id
  OBVIOUS
<1> HIDE DEF m
<1>2. (Unique(l) => Unique(m)) /\ (\A n : Within(l, n) => Within(m, n)) /\ IDs(m) = IDs(l)
  BY <1>1 DEF Unique, Within, IDs
<1> QED BY <1>1, <1>2 DEF m

(* What is put together of two sequences.                                  *)
JoinedOf(s, t, T) ==
  /\ s \o t \in Seq(T) /\ Len(s \o t) = Len(s) + Len(t)
  /\ \A k \in 1 .. Len(s) : (s \o t)[k] = s[k]
  /\ \A k \in 1 .. Len(t) : (s \o t)[Len(s) + k] = t[k]

LEMMA JoinedHas ==
  ASSUME NEW T, NEW s \in Seq(T), NEW t \in Seq(T)
  PROVE  JoinedOf(s, t, T)
BY DEF JoinedOf

LEMMA WithoutList ==
  ASSUME list \in Seq(Entry), NEW k \in 1 .. Len(list), Unique(list)
  PROVE  /\ Without(k) \in Seq(Entry) /\ Unique(Without(k))
         /\ \A n : Within(list, n) => Within(Without(k), n)
         /\ IDs(Without(k)) = IDs(list) \ {list[k].id}
<1> DEFINE m == Without(k)
<1>1. /\ SubSeq(list, 1, k - 1) \in Seq(Entry) /\ Len(SubSeq(list, 1, k - 1)) = k - 1
      /\ \A j \in 1 .. k - 1 : SubSeq(list, 1, k - 1)[j] = list[j]
  OBVIOUS
<1>2. /\ SubSeq(list, k + 1, Len(list)) \in Seq(Entry)
      /\ Len(SubSeq(list, k + 1, Len(list))) = Len(list) - k
      /\ \A j \in 1 .. Len(list) - k : SubSeq(list, k + 1, Len(list))[j] = list[j + k]
  OBVIOUS
<1>3. /\ m \in Seq(Entry) /\ Len(m) = Len(list) - 1
      /\ \A j \in 1 .. Len(m) : m[j] = IF j < k THEN list[j] ELSE list[j + 1]
  <2> DEFINE a == SubSeq(list, 1, k - 1)
             b == SubSeq(list, k + 1, Len(list))
  <2>1. a \in Seq(Entry) /\ Len(a) = k - 1 /\ \A j \in 1 .. k - 1 : a[j] = list[j]
    BY <1>1
  <2>2. b \in Seq(Entry) /\ Len(b) = Len(list) - k /\ \A j \in 1 .. Len(list) - k : b[j] = list[j + k]
    BY <1>2
  <2>3. m = a \o b
    BY DEF Without
  <2> HIDE DEF a, b, m
  <2>4. m \in Seq(Entry) /\ Len(m) = Len(list) - 1
    BY <2>1, <2>2, <2>3
  <2>5. ASSUME NEW j \in 1 .. Len(m) PROVE m[j] = IF j < k THEN list[j] ELSE list[j + 1]
    <3>1. JoinedOf(a, b, Entry)
      BY <2>1, <2>2, JoinedHas, Zenon
    <3>2. CASE j < k
      <4>1. j \in 1 .. k - 1
        BY <2>4, <3>2
      <4> QED BY <2>1, <2>3, <3>1, <3>2, <4>1 DEF JoinedOf
    <3>3. CASE ~(j < k)
      <4>1. j - k + 1 \in 1 .. Len(list) - k /\ (k - 1) + (j - k + 1) = j /\ (j - k + 1) + k = j + 1
        BY <2>4, <3>3
      <4>2. m[j] = b[j - k + 1]
        BY <2>1, <2>2, <2>3, <3>1, <4>1, Zenon DEF JoinedOf
      <4> QED BY <2>2, <3>3, <4>1, <4>2, Zenon
    <3> QED BY <3>2, <3>3
  <2> QED BY <2>4, <2>5
<1> HIDE DEF m
<1>4. Unique(m)
  <2> DEFINE p(j) == IF j < k THEN j ELSE j + 1
  <2>1. ASSUME NEW j \in 1 .. Len(m) PROVE p(j) \in 1 .. Len(list) /\ m[j] = list[p(j)]
    BY <1>3
  <2>2. ASSUME NEW i \in 1 .. Len(m), NEW j \in 1 .. Len(m), m[i].id = m[j].id PROVE i = j
    <3>1. p(i) = p(j)
      <4> HIDE DEF p
      <4> QED BY <2>1, <2>2 DEF Unique
    <3> QED BY <1>3, <3>1
  <2> QED BY <2>2 DEF Unique
<1>5. ASSUME NEW n, Within(list, n) PROVE Within(m, n)
  BY <1>3, <1>5 DEF Within
<1>6. IDs(m) \subseteq IDs(list) \ {list[k].id}
  BY <1>3 DEF IDs, Unique
<1>7. ASSUME NEW j \in 1 .. Len(list), list[j].id # list[k].id PROVE list[j].id \in IDs(m)
  <2>1. CASE j < k
    <3>1. j \in 1 .. Len(m) /\ m[j] = list[j]
      BY <1>3, <2>1
    <3> QED BY <3>1 DEF IDs
  <2>2. CASE j > k
    <3>1. j - 1 \in 1 .. Len(m) /\ m[j - 1] = list[j]
      BY <1>3, <2>2
    <3> QED BY <3>1 DEF IDs
  <2> QED BY <1>7, <2>1, <2>2
<1>8. IDs(m) = IDs(list) \ {list[k].id}
  BY <1>6, <1>7 DEF IDs
<1> QED BY <1>3, <1>4, <1>5, <1>8 DEF m

-----------------------------------------------------------------------------
(* The inductive invariant behind ListsInv: the numbers of the list, of    *)
(* the file and of the view's copy are in order, and an open prompt holds  *)
(* a number that was given in this run.                                    *)
Numbers ==
  /\ Unique(list) /\ (up => Within(list, nextID))
  /\ file.state = "whole" => Unique(file.entries)
  /\ IDs(seen) \subseteq IDs(list)
  /\ IF up THEN prompt # Closed => prompt.id <= nextID ELSE prompt = Closed /\ seen = <<>>

ListsIInv == TypeOK /\ Numbers /\ EditFindsItsEntry

LEMMA InitLists == Init => ListsIInv
<1> SUFFICES ASSUME Init PROVE ListsIInv
  OBVIOUS
<1>1. TypeOK
  <2>1. Absent \in [state : {"absent", "torn", "whole"}, entries : Seq(Entry)]
    BY EmptyList DEF Absent
  <2>2. list \in Seq(Entry) /\ prior \in Seq(Entry) /\ seen \in Seq(Entry)
    BY EmptyList DEF Init
  <2>3. nextID \in 0 .. MaxID
    BY ListsAssumption DEF Init
  <2>4. up \in BOOLEAN /\ look \in BOOLEAN /\ failed \in BOOLEAN /\ alive \in BOOLEAN
    BY Zenon DEF Init
  <2>5. sel \in Nat \ {0}
    BY DEF Init
  <2> QED BY <2>1, <2>2, <2>3, <2>4, <2>5 DEF Init, TypeOK
<1>2. Numbers
  BY EmptyList DEF Init, Numbers, Absent
<1>3. EditFindsItsEntry
  BY DEF Init, EditFindsItsEntry
<1> QED BY <1>1, <1>2, <1>3 DEF ListsIInv

(* What every change leaves of the list and its numbering.                 *)
InOrder ==
  /\ list' \in Seq(Entry) /\ Unique(list') /\ Within(list', nextID')
  /\ nextID' \in 0 .. MaxID /\ nextID <= nextID'

LEMMA AddKeeps ==
  ASSUME TypeOK, Numbers, up, NEW e, e \in [id : {nextID + 1}, enabled : BOOLEAN, text : Texts],
         Appends(e)
  PROVE  InOrder /\ IDs(list') = IDs(list) \cup {nextID + 1}
<1>1. nextID \in Nat /\ nextID' = nextID + 1 /\ nextID' \in 0 .. MaxID /\ list' = Append(list, e)
  BY ListsAssumption DEF TypeOK, Appends, Changes
<1>2. e \in Entry /\ e.id = nextID + 1
  BY <1>1 DEF Entry, Appends
<1> QED BY <1>1, <1>2, AppendedList DEF TypeOK, Numbers, InOrder

LEMMA SameIDsKeep ==
  ASSUME TypeOK, Numbers, up, NEW k \in 1 .. Len(list), NEW e \in Entry, e.id = list[k].id,
         list' = [list EXCEPT ![k] = e], nextID' = nextID
  PROVE  InOrder /\ IDs(list') = IDs(list)
<1>1. nextID \in 0 .. MaxID /\ nextID \in Nat
  BY ListsAssumption DEF TypeOK
<1>2. list \in Seq(Entry) /\ Unique(list) /\ Within(list, nextID)
  BY DEF TypeOK, Numbers
<1>3. list' \in Seq(Entry) /\ Unique(list') /\ Within(list', nextID) /\ IDs(list') = IDs(list)
  BY <1>2, ReplacedList
<1> QED BY <1>1, <1>3 DEF InOrder

LEMMA Clamps == ASSUME NEW place \in Nat \ {0}, NEW n \in Nat PROVE OnEntry(place, n) \in Nat \ {0}
  BY DEF OnEntry

LEMMA LaunchKeeps == ListsIInv /\ Launch => ListsIInv'
<1> SUFFICES ASSUME ListsIInv, Launch PROVE ListsIInv'
  OBVIOUS
<1> USE DEF ListsIInv
<1>1. list' \in Seq(Entry) /\ Unique(list')
  BY EmptyList DEF Launch, TypeOK, Numbers
<1>2. nextID' \in 0 .. MaxID /\ \A i \in IDs(list') : i <= nextID'
  BY DEF Launch, NumberedAfter
<1>3. Within(list', nextID')
  BY <1>2, IDsOf DEF Within
<1>4. seen' \in Seq(Entry) /\ IDs(seen') \subseteq IDs(list')
  BY <1>1, EmptyList DEF Launch
<1>5. prompt = Closed /\ prompt' = prompt /\ alive' = alive
  BY DEF Launch, Numbers, asked
<1>6. TypeOK'
  <2>1. failed' \in BOOLEAN /\ up' \in BOOLEAN /\ look' \in BOOLEAN
    BY Zenon DEF Launch
  <2>2. prior' \in Seq(Entry) /\ sel' \in Nat \ {0} /\ compiled' = Unset
    BY EmptyList DEF Launch
  <2>3. UNCHANGED <<kind, at, file, alive>> /\ (at' # "rest" => up')
    BY DEF Launch, asked
  <2> QED BY <1>1, <1>2, <1>4, <1>5, <2>1, <2>2, <2>3 DEF TypeOK
<1>7. Numbers'
  BY <1>1, <1>3, <1>4, <1>5 DEF Launch, Numbers
<1> QED BY <1>5, <1>6, <1>7 DEF EditFindsItsEntry

(* The changes, each with what it does to the view and to an open prompt.  *)
LEMMA ChangeKeeps == ListsIInv /\ (Add \/ RemoveEntry \/ Toggle \/ Clear \/ Submit) => ListsIInv'
<1> SUFFICES ASSUME ListsIInv, Add \/ RemoveEntry \/ Toggle \/ Clear \/ Submit PROVE ListsIInv'
  OBVIOUS
<1>1. TypeOK /\ Numbers /\ EditFindsItsEntry /\ up /\ at = "rest" /\ up'
  BY DEF ListsIInv, Add, RemoveEntry, Toggle, Clear, Submit, Ready
<1>2. prior' = list /\ at' = "changed" /\ UNCHANGED <<kind, compiled, file, failed, look>>
  BY DEF Add, RemoveEntry, Toggle, Clear, Submit, Appends, Changes, Replaced, disk
<1>3. seen' = list' \/ (seen' = seen /\ (Add \/ Submit))
  <2>1. CASE Add \/ Submit
    BY <2>1 DEF Add, Submit, Shows
  <2>2. CASE RemoveEntry \/ Toggle
    BY <2>2 DEF RemoveEntry, Toggle, Shows
  <2>3. CASE Clear
    BY <2>3 DEF Clear, Changes, Shows
  <2> QED BY <2>1, <2>2, <2>3
<1>4. CASE Add
  <2>1. PICK t \in Texts : Appends(Numbered(t))
    BY <1>4 DEF Add
  <2>2. InOrder /\ IDs(list') = IDs(list) \cup {nextID + 1}
    BY <1>1, <2>1, AddKeeps DEF Numbered
  <2>3. UNCHANGED <<prompt, alive, sel>>
    BY <1>4 DEF Add, asked
  <2>4. prompt # Closed => prompt.id # nextID + 1
    BY <1>1, ListsAssumption DEF Numbers, TypeOK, Entry
  <2>5. seen' \in Seq(Entry) /\ IDs(seen') \subseteq IDs(list')
    BY <1>1, <1>3, <2>2 DEF InOrder, TypeOK, Numbers
  <2>6. TypeOK'
    BY <1>1, <1>2, <2>2, <2>3, <2>5 DEF InOrder, TypeOK
  <2>7. prompt # Closed => prompt.id <= nextID'
    BY <1>1, <2>2, ListsAssumption DEF Numbers, TypeOK, Entry, InOrder
  <2>8. Numbers'
    BY <1>1, <1>2, <2>2, <2>3, <2>5, <2>7 DEF InOrder, Numbers
  <2> QED BY <1>1, <2>2, <2>3, <2>4, <2>6, <2>8 DEF ListsIInv, EditFindsItsEntry
<1>5. CASE RemoveEntry
  <2>1. PICK k \in 1 .. Len(list) :
          list' = Without(k) /\ alive' = (alive /\ prompt.id # list[k].id)
    BY <1>5 DEF RemoveEntry, Changes
  <2>2. nextID' = nextID /\ prompt' = prompt /\ nextID \in Nat /\ seen' = list'
    BY <1>1, <1>3, <1>5, ListsAssumption DEF RemoveEntry, TypeOK, Shows
  <2>3. InOrder /\ IDs(list') = IDs(list) \ {list[k].id}
    BY <1>1, <2>1, <2>2, WithoutList DEF InOrder, TypeOK, Numbers
  <2>4. sel' \in Nat \ {0}
    BY <1>1, <1>5, <2>2, <2>3, Clamps DEF RemoveEntry, KeepsWithin, TypeOK, InOrder
  <2>5. TypeOK'
    BY <1>1, <1>2, <2>1, <2>2, <2>3, <2>4 DEF InOrder, TypeOK
  <2>6. Numbers'
    BY <1>1, <1>2, <2>2, <2>3 DEF InOrder, Numbers
  <2> QED BY <1>1, <2>1, <2>2, <2>3, <2>5, <2>6 DEF ListsIInv, EditFindsItsEntry
<1>6. CASE Toggle
  <2>1. PICK k \in 1 .. Len(list) : list' = [list EXCEPT ![k].enabled = ~@]
    BY <1>6 DEF Toggle, Changes
  <2>2. list[k] \in Entry
    BY <1>1 DEF TypeOK
  <2> DEFINE e == [list[k] EXCEPT !.enabled = ~@]
  <2>3. e \in Entry /\ e.id = list[k].id
    BY <2>2 DEF Entry
  <2>4. list' = [list EXCEPT ![k] = e]
    BY <2>1
  <2>5. UNCHANGED <<nextID, prompt, alive, sel>> /\ seen' = list'
    BY <1>6 DEF Toggle, asked, Shows
  <2> HIDE DEF e
  <2>6. InOrder /\ IDs(list') = IDs(list)
    BY <1>1, <2>3, <2>4, <2>5, SameIDsKeep
  <2>7. TypeOK'
    BY <1>1, <1>2, <2>5, <2>6 DEF InOrder, TypeOK
  <2>8. Numbers'
    BY <1>1, <1>2, <2>5, <2>6 DEF InOrder, Numbers
  <2> QED BY <1>1, <2>5, <2>6, <2>7, <2>8 DEF ListsIInv, EditFindsItsEntry
<1>7. CASE Clear
  <2>1. list' = <<>> /\ seen' = <<>> /\ nextID' = nextID /\ prompt' = prompt /\ alive' = FALSE
    BY <1>7 DEF Clear, Changes, Shows
  <2>2. sel' \in Nat \ {0}
    BY <1>1, <1>7, <2>1, Clamps DEF Clear, KeepsWithin, TypeOK
  <2>3. TypeOK'
    BY <1>1, <1>2, <2>1, <2>2, EmptyList DEF TypeOK
  <2>4. Numbers'
    BY <1>1, <1>2, <2>1, EmptyList DEF Numbers
  <2> QED BY <2>1, <2>3, <2>4, EmptyList DEF ListsIInv, EditFindsItsEntry
<1>8. CASE Submit
  <2>1. PICK t \in Texts : Replaced([prompt EXCEPT !.text = t])
    BY <1>8 DEF Submit
  <2> DEFINE e == [prompt EXCEPT !.text = t]
  <2>2. prompt \in Entry
    BY <1>1, <1>8 DEF Submit, TypeOK
  <2>3. e \in Entry
    BY <2>2 DEF Entry
  <2>4. prompt' = Closed /\ alive' = FALSE /\ sel' = sel
    BY <1>8 DEF Submit
  <2>5. InOrder /\ IDs(list) \subseteq IDs(list')
    <3>1. CASE \E k \in 1 .. Len(list) :
                 list[k].id = e.id /\ list' = [list EXCEPT ![k] = e] /\ nextID' = nextID
      BY <1>1, <2>3, <3>1, SameIDsKeep
    <3>2. CASE Appends([e EXCEPT !.id = nextID + 1])
      <4>1. [e EXCEPT !.id = nextID + 1] \in [id : {nextID + 1}, enabled : BOOLEAN, text : Texts]
        BY <2>3 DEF Entry
      <4> QED BY <1>1, <3>2, <4>1, AddKeeps
    <3>3. CASE list' = list /\ nextID' = nextID
      BY <1>1, <3>3, ListsAssumption DEF InOrder, TypeOK, Numbers
    <3> QED BY <2>1, <3>1, <3>2, <3>3 DEF Replaced, Changes
  <2>6. seen' \in Seq(Entry) /\ IDs(seen') \subseteq IDs(list')
    BY <1>1, <1>3, <2>5 DEF InOrder, TypeOK, Numbers
  <2>7. TypeOK'
    BY <1>1, <1>2, <2>4, <2>5, <2>6 DEF InOrder, TypeOK
  <2>8. Numbers'
    BY <1>1, <1>2, <2>4, <2>5, <2>6 DEF InOrder, Numbers
  <2> QED BY <2>4, <2>7, <2>8 DEF ListsIInv, EditFindsItsEntry
<1> QED BY <1>4, <1>5, <1>6, <1>7, <1>8

LEMMA StepLists == ListsIInv /\ [Next]_vars => ListsIInv'
<1> SUFFICES ASSUME ListsIInv, [Next]_vars PROVE ListsIInv'
  OBVIOUS
<1> USE DEF ListsIInv
<1>1. CASE Launch
  BY <1>1, LaunchKeeps
<1>2. CASE Add \/ RemoveEntry \/ Toggle \/ Clear \/ Submit
  BY <1>2, ChangeKeeps
<1>3. CASE Stops
  <2>1. TypeOK'
    <3>1. up' \in BOOLEAN /\ look' \in BOOLEAN /\ alive' \in BOOLEAN
      BY <1>3, Zenon DEF Stops
    <3>2. seen' \in Seq(Entry) /\ sel' \in Nat \ {0}
      BY <1>3, EmptyList DEF Stops
    <3> QED BY <1>3, <3>1, <3>2 DEF Stops, TypeOK, disk
  <2>2. Numbers'
    BY <1>3, EmptyList DEF Stops, Numbers, disk
  <2> QED BY <1>3, <2>1, <2>2 DEF Stops, EditFindsItsEntry
<1>4. CASE ChangesView \/ Refresh \/ Moves
  <2>1. UNCHANGED <<kind, up, compiled, list, nextID, at, prior, file, failed, prompt, alive>> /\ up
    BY <1>4 DEF ChangesView, Refresh, Moves, entries, disk, asked, Ready
  <2>2. seen' = seen \/ seen' = list
    BY <1>4 DEF ChangesView, Refresh, Moves, Shows
  <2>3. seen' \in Seq(Entry) /\ IDs(seen') \subseteq IDs(list)
    BY <2>2 DEF TypeOK, Numbers
  <2>4. sel' \in Nat \ {0} /\ look' \in BOOLEAN
    <3>1. CASE ChangesView
      BY <3>1 DEF ChangesView, TypeOK
    <3>2. CASE Refresh
      BY <3>2 DEF Refresh, TypeOK
    <3>3. CASE Moves
      <4>1. PICK place \in 1 .. Len(seen) + 1 : sel' = OnEntry(place, Len(seen'))
        BY <3>3 DEF Moves, KeepsWithin
      <4>2. place \in Nat \ {0} /\ Len(seen') \in Nat
        BY <2>3 DEF TypeOK
      <4> QED BY <3>3, <4>1, <4>2, Clamps DEF Moves, TypeOK
    <3> QED BY <1>4, <3>1, <3>2, <3>3
  <2>5. TypeOK'
    BY <2>1, <2>3, <2>4 DEF TypeOK
  <2>6. Numbers'
    BY <2>1, <2>3 DEF Numbers
  <2> QED BY <2>1, <2>5, <2>6 DEF EditFindsItsEntry
<1>5. CASE Edit
  <2>1. /\ UNCHANGED <<kind, up, compiled, entries, disk, screen>> /\ up
        /\ sel \in 1 .. Len(seen) /\ prompt' = seen[sel] /\ alive' = TRUE
    BY <1>5 DEF Edit, Ready, TypeOK
  <2>2. prompt' \in Entry /\ prompt'.id \in IDs(list)
    BY <2>1, IDsOf DEF TypeOK, Numbers
  <2>3. prompt'.id <= nextID
    BY <2>1, <2>2 DEF Numbers, IDs, Within
  <2>4. TypeOK'
    BY <2>1, <2>2 DEF TypeOK, entries, disk, screen
  <2>5. Numbers'
    BY <2>1, <2>3 DEF Numbers, entries, disk, screen
  <2> QED BY <2>1, <2>2, <2>4, <2>5 DEF EditFindsItsEntry, entries
<1>6. CASE Cancel
  BY <1>6 DEF Cancel, TypeOK, Numbers, EditFindsItsEntry, entries, disk, screen, Ready
<1>7. CASE SaveTruncates \/ SaveWrites \/ SaveFails
  <2>1. UNCHANGED <<kind, up, list, nextID, seen, look, sel, prompt, alive>>
    BY <1>7 DEF SaveTruncates, SaveWrites, SaveFails, screen, asked
  <2>2. /\ file' \in [state : {"absent", "torn", "whole"}, entries : Seq(Entry)]
        /\ file'.state = "whole" => Unique(file'.entries)
    <3>1. CASE SaveTruncates
      BY <3>1, EmptyList DEF SaveTruncates, Torn
    <3>2. CASE SaveWrites
      BY <3>2 DEF SaveWrites, Holding, TypeOK, Numbers
    <3>3. CASE SaveFails
      BY <3>3 DEF SaveFails, TypeOK, Numbers
    <3> QED BY <1>7, <3>1, <3>2, <3>3
  <2>3. /\ prior' \in Seq(Entry) /\ failed' \in BOOLEAN
        /\ compiled' = Unset \/ compiled' \subseteq Texts
        /\ at' \in {"rest", "changed", "saving"} /\ (at' # "rest" => up)
    BY <1>7, EmptyList DEF SaveTruncates, SaveWrites, SaveFails, TypeOK
  <2>4. TypeOK'
    BY <2>1, <2>2, <2>3 DEF TypeOK
  <2>5. Numbers'
    BY <2>1, <2>2 DEF Numbers
  <2> QED BY <2>1, <2>4, <2>5 DEF EditFindsItsEntry
<1>8. CASE Compile
  <2>1. Enabled \subseteq Texts
    <3>1. \A k \in 1 .. Len(list) : list[k].text \in Texts
      <4>1. \A k \in 1 .. Len(list) : list[k] \in Entry
        BY DEF TypeOK
      <4> QED BY <4>1 DEF Entry
    <3> QED BY <3>1 DEF Enabled
  <2> QED BY <1>8, <2>1 DEF Compile, TypeOK, Numbers, EditFindsItsEntry, entries, disk, screen, asked
<1>9. CASE UNCHANGED vars
  BY <1>9 DEF vars, TypeOK, Numbers, EditFindsItsEntry, entries, disk, screen, asked
<1> QED BY <1>1, <1>2, <1>3, <1>4, <1>5, <1>6, <1>7, <1>8, <1>9 DEF Next

(* Numbers stay unique through changes, kills, failed saves and starts, so *)
(* that an edit finds the entry it was opened on, or sees that it is gone. *)
THEOREM NumbersAlwaysUnique == Spec => []ListsInv
<1>1. ListsIInv => ListsInv
  BY DEF ListsIInv, ListsInv, Numbers, NumbersAreUnique, Unique, Within
<1> QED BY <1>1, InitLists, StepLists, PTL DEF Spec

-----------------------------------------------------------------------------
(* The file.  While a change waits for its save the file holds the list    *)
(* before it; while it is written it is torn.                              *)
Synced(l) == IF file = Absent THEN l = <<>> ELSE file = Holding(l)

FileIInv ==
  /\ FileFollows
  /\ file.state \in {"absent", "torn", "whole"}
  /\ file.state = "absent" => file = Absent
  /\ file.state = "whole" => file = Holding(file.entries)
  /\ at \in {"rest", "changed", "saving"} /\ (at # "rest" => up)
  /\ at = "changed" /\ ~failed => Synced(prior)
  /\ at = "saving" => file = Torn

LEMMA InitFile == Init => FileIInv
  BY DEF Init, FileIInv, FileFollows, Synced, Absent

LEMMA StepFile == FileIInv /\ [Next]_vars => FileIInv'
<1> SUFFICES ASSUME FileIInv, [Next]_vars PROVE FileIInv'
  OBVIOUS
<1> USE DEF FileIInv, FileFollows, Synced
<1>1. CASE Launch
  <2>1. /\ up' /\ at' = "rest" /\ file' = file /\ prior' = <<>>
        /\ failed' <=> file.state = "torn"
        /\ list' = IF file.state = "whole" THEN file.entries ELSE <<>>
    BY <1>1 DEF Launch
  <2>2. CASE file.state = "whole"
    <3>1. file # Absent /\ file = Holding(file.entries)
      BY <2>2 DEF Absent
    <3> QED BY <2>1, <2>2, <3>1
  <2>3. CASE file.state # "whole"
    BY <2>1, <2>3
  <2> QED BY <2>2, <2>3
<1>2. CASE Stops
  BY <1>2 DEF Stops, disk
<1>3. CASE ChangesView \/ Refresh \/ Moves \/ Edit \/ Cancel \/ Compile
  BY <1>3 DEF ChangesView, Refresh, Moves, Edit, Cancel, Compile, entries, disk
<1>4. CASE Add \/ RemoveEntry \/ Toggle \/ Clear \/ Submit
  <2>1. up /\ up' /\ at = "rest" /\ at' = "changed" /\ prior' = list /\ UNCHANGED disk
    BY <1>4 DEF Add, RemoveEntry, Toggle, Clear, Submit, Appends, Changes, Replaced, Ready
  <2> QED BY <2>1 DEF disk, Holding, Absent
<1>5. CASE SaveTruncates
  BY <1>5 DEF SaveTruncates, Torn, Absent, Holding
<1>6. CASE SaveWrites
  BY <1>6 DEF SaveWrites, Holding, Absent
<1>7. CASE SaveFails
  BY <1>7 DEF SaveFails
<1>8. CASE UNCHANGED vars
  BY <1>8 DEF vars, entries, disk
<1> QED BY <1>1, <1>2, <1>3, <1>4, <1>5, <1>6, <1>7, <1>8 DEF Next

(* Unless a save has failed, a file that can be read holds the list or the *)
(* one before the last change, through kills at any moment.                *)
THEOREM FileAlwaysFollows == Spec => []FileFollows
<1>1. FileIInv => FileFollows
  BY DEF FileIInv
<1> QED BY <1>1, InitFile, StepFile, PTL DEF Spec

-----------------------------------------------------------------------------
(* The compiled filters: none are in force while a change is saved.        *)
CompiledIInv ==
  /\ up /\ at = "rest" /\ compiled # Unset => compiled = Enabled
  /\ at = "saving" \/ ~up => compiled = Unset
  /\ at \in {"rest", "changed", "saving"}

LEMMA StepCompiled == CompiledIInv /\ [Next]_vars => CompiledIInv'
<1> SUFFICES ASSUME CompiledIInv, [Next]_vars PROVE CompiledIInv'
  OBVIOUS
<1> USE DEF CompiledIInv
<1>1. CASE Launch \/ Stops
  BY <1>1 DEF Launch, Stops
<1>2. CASE ChangesView \/ Refresh \/ Moves \/ Edit \/ Cancel
  <2>1. UNCHANGED <<up, at, compiled, list>>
    BY <1>2 DEF ChangesView, Refresh, Moves, Edit, Cancel, entries
  <2> QED BY <2>1 DEF Enabled
<1>3. CASE Add \/ RemoveEntry \/ Toggle \/ Clear \/ Submit
  <2>1. CASE Add
    BY <2>1 DEF Add, Appends, Changes, Ready
  <2>2. CASE RemoveEntry \/ Toggle \/ Clear
    BY <2>2 DEF RemoveEntry, Toggle, Clear, Changes, Ready
  <2>3. CASE Submit
    BY <2>3 DEF Submit, Replaced, Appends, Changes, Ready
  <2> QED BY <1>3, <2>1, <2>2, <2>3
<1>4. CASE SaveTruncates \/ SaveWrites \/ SaveFails
  BY <1>4 DEF SaveTruncates, SaveWrites, SaveFails
<1>5. CASE Compile
  <2>1. compiled' = Enabled /\ up /\ at = "rest" /\ UNCHANGED <<up, at, list>>
    BY <1>5 DEF Compile, Ready, entries
  <2> QED BY <2>1 DEF Enabled
<1>6. CASE UNCHANGED vars
  <2>1. UNCHANGED <<up, at, compiled, list>>
    BY <1>6 DEF vars, entries
  <2> QED BY <2>1 DEF Enabled
<1> QED BY <1>1, <1>2, <1>3, <1>4, <1>5, <1>6 DEF Next

(* The filters in force are the enabled ones, after any changes.           *)
THEOREM CompiledAlwaysCurrent == Spec => []CompiledIsCurrent
<1>1. Init => CompiledIInv
  BY DEF Init, CompiledIInv
<1>2. CompiledIInv => CompiledIsCurrent
  BY DEF CompiledIInv, CompiledIsCurrent, Ready
<1> QED BY <1>1, <1>2, StepCompiled, PTL DEF Spec

-----------------------------------------------------------------------------
(* The view.  That the rules it shows are there is part of Numbers; the    *)
(* filters are shown as they are, and one of them is selected.             *)
ShownInv ==
  kind = "filters" => /\ seen = IF up THEN list ELSE <<>>
                      /\ sel = OnEntry(sel, Len(seen))

LEMMA Clamped ==
  ASSUME NEW place \in Nat \ {0}, NEW n \in Nat
  PROVE  OnEntry(OnEntry(place, n), n) = OnEntry(place, n)
  BY DEF OnEntry

LEMMA KindStays == [Next]_vars => kind' = kind
<1> SUFFICES ASSUME [Next]_vars PROVE kind' = kind
  OBVIOUS
<1>1. CASE Launch \/ Stops \/ ChangesView \/ Refresh \/ Moves \/ UNCHANGED vars
  BY <1>1 DEF Launch, Stops, ChangesView, Refresh, Moves, vars
<1>2. CASE Add \/ RemoveEntry \/ Toggle \/ Clear \/ Edit \/ Cancel \/ Submit
  BY <1>2 DEF Add, RemoveEntry, Toggle, Clear, Edit, Cancel, Submit
<1>3. CASE SaveTruncates \/ SaveWrites \/ SaveFails \/ Compile
  BY <1>3 DEF SaveTruncates, SaveWrites, SaveFails, Compile
<1> QED BY <1>1, <1>2, <1>3 DEF Next

LEMMA StepShown == ListsIInv /\ ShownInv /\ [Next]_vars => ShownInv'
<1> SUFFICES ASSUME ListsIInv, ShownInv, [Next]_vars, kind = "filters"
             PROVE  ShownInv'
  BY KindStays DEF ShownInv
<1>1. /\ list \in Seq(Entry) /\ list' \in Seq(Entry) /\ sel \in Nat \ {0} /\ Len(list) \in Nat
      /\ Len(list') \in Nat
  BY StepLists DEF ListsIInv, TypeOK
<1>2. kind' = "filters"
  BY KindStays
<1> USE DEF ShownInv
<1>3. CASE Launch
  BY <1>1, <1>2, <1>3 DEF Launch, OnEntry
<1>4. CASE Stops
  BY <1>2, <1>4 DEF Stops, OnEntry
<1>5. CASE ChangesView \/ Refresh
  <2>1. up /\ up' /\ seen' = list /\ list' = list /\ sel' = sel
    BY <1>5 DEF ChangesView, Refresh, Shows, Ready, entries
  <2> QED BY <1>2, <2>1
<1>6. CASE Moves
  <2>1. PICK place \in 1 .. Len(seen) + 1 : sel' = OnEntry(place, Len(seen))
    BY <1>6 DEF Moves, KeepsWithin
  <2>2. up /\ up' /\ seen' = seen /\ list' = list /\ seen = list
    BY <1>6 DEF Moves, Ready, entries
  <2> QED BY <1>1, <1>2, <2>1, <2>2, Clamped
<1>7. CASE Add
  <2>1. up /\ up' /\ seen' = list' /\ sel' = sel
    BY <1>7 DEF Add, Shows, Ready
  <2>2. PICK e : list' = Append(list, e)
    BY <1>7 DEF Add, Appends, Changes
  <2>3. Len(list') = Len(list) + 1
    BY <1>1, <2>2
  <2> QED BY <1>1, <1>2, <2>1, <2>3 DEF OnEntry
<1>8. CASE RemoveEntry
  <2>1. up' /\ seen' = list' /\ sel' = OnEntry(sel, Len(seen'))
    BY <1>8 DEF RemoveEntry, Shows, Ready, KeepsWithin
  <2> QED BY <1>1, <1>2, <2>1, Clamped
<1>9. CASE Toggle
  <2>1. up /\ up' /\ seen' = list' /\ sel' = sel /\ Len(list') = Len(list)
    BY <1>1, <1>9 DEF Toggle, Changes, Shows, Ready
  <2> QED BY <1>1, <1>2, <2>1
<1>10. CASE Clear
  <2>1. up' /\ list' = <<>> /\ seen' = <<>> /\ sel' = OnEntry(sel, 0)
    BY <1>10 DEF Clear, Changes, Shows, Ready, KeepsWithin
  <2> QED BY <1>1, <1>2, <2>1, Clamped
<1>11. CASE Submit
  <2>1. up /\ up' /\ seen' = list' /\ sel' = sel
    BY <1>11 DEF Submit, Shows, Ready
  <2>2. Len(list') = Len(list)
    BY <1>1, <1>11 DEF Submit, Replaced, Changes
  <2> QED BY <1>1, <1>2, <2>1, <2>2
<1>12. CASE Edit \/ Cancel \/ SaveTruncates \/ SaveWrites \/ SaveFails \/ Compile \/ UNCHANGED vars
  <2>1. UNCHANGED <<up, list, seen, sel>>
    BY <1>12 DEF Edit, Cancel, SaveTruncates, SaveWrites, SaveFails, Compile, vars, entries, screen
  <2> QED BY <1>2, <2>1
<1> QED BY <1>2, <1>3, <1>4, <1>5, <1>6, <1>7, <1>8, <1>9, <1>10, <1>11, <1>12 DEF Next

(* A key acts on an entry that is there, and while there are filters none  *)
(* is lost.                                                                *)
THEOREM ViewAlwaysThere == Spec => []ViewInv
<1>1. Init => ShownInv
  BY DEF Init, ShownInv, OnEntry
<1>2. ListsIInv /\ ShownInv => ViewInv
  BY DEF ListsIInv, Numbers, ShownInv, ViewInv, SeenIsThere, SelectionOnEntry
<1> QED BY <1>1, <1>2, InitLists, StepLists, StepShown, PTL DEF Spec

-----------------------------------------------------------------------------
(* The second part, about Prompts.  Its way: the functions of Symbols are  *)
(* described by what they return (Trim, Split, Until), then the parts of a *)
(* rule (its actions, its method, its address), then what is read of a     *)
(* line and what is written of a rule, and last the machine.               *)

(* Numbers, and sequences symbol by symbol.                                *)

LEMMA LeastNat ==
  ASSUME NEW S, S \subseteq Nat, S # {}
  PROVE  \E x \in S : \A y \in S : x <= y
<1> DEFINE R == OpToRel(<, Nat)
<1>1. \E x \in S : \A y \in S : ~ (<<y, x>> \in R)
  <2>1. IsWellFoundedOn(R, Nat)
    BY NatLessThanWellFounded
  <2> HIDE DEF R
  <2> QED BY <2>1, WFMin
<1>2. ASSUME NEW x \in Nat, NEW y \in Nat, y < x PROVE <<y, x>> \in R
  BY <1>2 DEF OpToRel
<1>3. PICK x \in S : \A y \in S : ~ (<<y, x>> \in R)
  BY <1>1
<1>4. ASSUME NEW y \in S PROVE ~ (y < x)
  BY <1>4, <1>3, <1>2, Zenon
<1> QED BY <1>4

LEMMA UpTo ==
  ASSUME NEW N \in Nat, NEW S, 0 \in S, \A n \in 0 .. N - 1 : n \in S => n + 1 \in S
  PROVE  \A n \in 0 .. N : n \in S
<1> DEFINE X == (0 .. N) \ S
<1> SUFFICES ASSUME X # {} PROVE FALSE
  OBVIOUS
<1>1. PICK x \in X : \A y \in X : x <= y
  <2>1. X \subseteq Nat
    OBVIOUS
  <2> HIDE DEF X
  <2> QED BY <2>1, LeastNat
<1>2. x # 0 /\ x - 1 \in 0 .. N - 1
  BY <1>1
<1> QED BY <1>1, <1>2

LEMMA GreatestUpTo ==
  ASSUME NEW N \in Nat, NEW S, S \subseteq 0 .. N, S # {}
  PROVE  \E x \in S : \A y \in S : x >= y
<1> DEFINE R == {N - y : y \in S}
<1>1. R \subseteq Nat /\ R # {}
  <2>1. \A y \in S : N - y \in Nat
    OBVIOUS
  <2>2. R \subseteq Nat
    BY <2>1, Zenon
  <2> QED BY <2>2, Zenon
<1> HIDE DEF R
<1>2. PICK r \in R : \A s \in R : r <= s
  BY <1>1, LeastNat
<1> USE DEF R
<1>3. PICK x \in S : r = N - x
  BY <1>2
<1>4. ASSUME NEW y \in S PROVE x >= y
  <2>1. N - y \in R
    OBVIOUS
  <2> HIDE DEF R
  <2>2. N - x <= N - y
    BY <1>2, <1>3, <2>1
  <2> QED BY <1>3, <2>2
<1> QED BY <1>3, <1>4

IsMin(S, x) == Min(S) = x
IsMax(S, x) == Max(S) = x

LEMMA MinIs ==
  ASSUME NEW S, S \subseteq Int, NEW x \in S, \A y \in S : x <= y
  PROVE  IsMin(S, x)
<1>1. \A z \in S : (\A y \in S : z <= y) => z = x
  OBVIOUS
<1> QED BY <1>1 DEF IsMin, Min

LEMMA MaxIs ==
  ASSUME NEW S, S \subseteq Int, NEW x \in S, \A y \in S : x >= y
  PROVE  IsMax(S, x)
<1>1. \A z \in S : (\A y \in S : z >= y) => z = x
  OBVIOUS
<1> QED BY <1>1 DEF IsMax, Max

(* What holds of the empty text, and of a text with one symbol more if of  *)
(* the text.                                                               *)
LEMMA SymbolBySymbol ==
  ASSUME NEW T, NEW Q, <<>> \in Q,
         \A s \in Seq(T), c \in T : s \in Q => Append(s, c) \in Q,
         NEW x \in Seq(T)
  PROVE  x \in Q
<1> DEFINE N == Len(x)
           S == {n \in 0 .. N : SubSeq(x, 1, n) \in Q}
<1>1. N \in Nat /\ SubSeq(x, 1, N) = x
  OBVIOUS
<1>2. 0 \in S
  <2>1. SubSeq(x, 1, 0) = <<>>
    OBVIOUS
  <2>2. SubSeq(x, 1, 0) \in Q
    BY <2>1, Zenon
  <2>3. 0 \in 0 .. N
    BY <1>1
  <2> QED BY <2>2, <2>3, Zenon
<1>3. \A n \in 0 .. N - 1 : n \in S => n + 1 \in S
  <2> SUFFICES ASSUME NEW n \in 0 .. N - 1, SubSeq(x, 1, n) \in Q
               PROVE  n + 1 \in 0 .. N /\ SubSeq(x, 1, n + 1) \in Q
    OBVIOUS
  <2>1. /\ SubSeq(x, 1, n) \in Seq(T) /\ x[n + 1] \in T /\ n + 1 \in 0 .. N
        /\ SubSeq(x, 1, n + 1) = Append(SubSeq(x, 1, n), x[n + 1])
    OBVIOUS
  <2> QED BY <2>1, Zenon
<1>4. N \in S
  <2> HIDE DEF S, N
  <2>1. \A n \in 0 .. N : n \in S
    BY <1>1, <1>2, <1>3, UpTo, Zenon
  <2> QED BY <1>1, <2>1
<1> QED BY <1>1, <1>4

-----------------------------------------------------------------------------
(* Trim: a text without the blanks around it.                              *)

Trimmed(s) == s = <<>> \/ (s[1] # Space /\ s[Len(s)] # Space)

Blank(s) == \A k \in 1 .. Len(s) : s[k] = Space

Kept(s) == {k \in 1 .. Len(s) : s[k] # Space}

LEMMA TrimBlank ==
  ASSUME NEW T, NEW s \in Seq(T), Blank(s)
  PROVE  Trim(s) = <<>>
<1>1. Kept(s) = {}
  BY Zenon DEF Kept, Blank
<1> QED BY <1>1, Zenon DEF Trim, Kept

(* Its ends, if there is anything but blanks.                              *)
Ends(s, i, j) ==
  /\ i \in Kept(s) /\ j \in Kept(s) /\ \A k \in Kept(s) : i <= k /\ k <= j
  /\ Trim(s) = SubSeq(s, i, j)

LEMMA EndsAre ==
  ASSUME NEW T, NEW s \in Seq(T), NEW i \in Kept(s), NEW j \in Kept(s),
         \A k \in Kept(s) : i <= k /\ k <= j
  PROVE  Ends(s, i, j)
<1>1. Kept(s) \subseteq Int /\ Kept(s) # {}
  BY DEF Kept
<1>2. IsMin(Kept(s), i)
  BY <1>1, MinIs
<1>3. IsMax(Kept(s), j)
  <2>1. \A k \in Kept(s) : j >= k
    BY <1>1
  <2> QED BY <1>1, <2>1, MaxIs
<1>4. Trim(s) = SubSeq(s, i, j)
  BY <1>1, <1>2, <1>3, Zenon DEF IsMin, IsMax, Trim, Kept
<1> QED BY <1>4, Zenon DEF Ends

LEMMA HasEnds ==
  ASSUME NEW T, NEW s \in Seq(T), ~Blank(s)
  PROVE  \E i, j : Ends(s, i, j)
<1>1. Kept(s) # {} /\ Kept(s) \subseteq 0 .. Len(s) /\ Kept(s) \subseteq Nat /\ Len(s) \in Nat
  BY DEF Kept, Blank
<1>2. PICK i \in Kept(s) : \A k \in Kept(s) : i <= k
  BY <1>1, LeastNat
<1>3. PICK j \in Kept(s) : \A k \in Kept(s) : j >= k
  BY <1>1, GreatestUpTo
<1>4. \A k \in Kept(s) : k <= j
  BY <1>1, <1>3
<1> QED BY <1>2, <1>4, EndsAre, Zenon

(* What is left has none at its ends, and nothing that was not there.      *)
IsTrim(s, t, T) ==
  /\ t \in Seq(T) /\ Trimmed(t)
  /\ \A k \in 1 .. Len(t) : \E j \in 1 .. Len(s) : t[k] = s[j]

LEMMA TrimIs ==
  ASSUME NEW T, NEW s \in Seq(T)
  PROVE  IsTrim(s, Trim(s), T)
<1>1. CASE Blank(s)
  <2>1. Trim(s) = <<>>
    BY <1>1, TrimBlank
  <2>2. IsTrim(s, <<>>, T)
    BY DEF IsTrim, Trimmed
  <2> QED BY <2>1, <2>2, Zenon
<1>2. CASE ~Blank(s)
  <2>1. PICK i, j : Ends(s, i, j)
    BY <1>2, HasEnds, Zenon
  <2>2. /\ i \in 1 .. Len(s) /\ j \in 1 .. Len(s) /\ i <= j
        /\ s[i] # Space /\ s[j] # Space /\ Trim(s) = SubSeq(s, i, j)
    BY <2>1 DEF Ends, Kept
  <2> DEFINE t == SubSeq(s, i, j)
  <2>3. /\ t \in Seq(T) /\ Len(t) = j - i + 1 /\ Len(t) # 0
        /\ \A k \in 1 .. Len(t) : t[k] = s[i + k - 1] /\ i + k - 1 \in 1 .. Len(s)
    BY <2>2
  <2> HIDE DEF t
  <2>4. t[1] = s[i] /\ t[Len(t)] = s[j]
    BY <2>2, <2>3
  <2>5. IsTrim(s, t, T)
    <3>1. Trimmed(t)
      BY <2>2, <2>4 DEF Trimmed
    <3> QED BY <2>3, <3>1, Zenon DEF IsTrim
  <2> QED BY <2>2, <2>5, Zenon DEF t
<1> QED BY <1>1, <1>2, Zenon

(* Blanks around it make no difference.                                    *)
TrimsTo(a, t, b) == Trim(a \o t \o b) = t

LEMMA TrimOf ==
  ASSUME NEW T, NEW a \in Seq(T), NEW t \in Seq(T), NEW b \in Seq(T),
         Blank(a), Blank(b), Trimmed(t)
  PROVE  TrimsTo(a, t, b)
<1> DEFINE s == a \o t \o b
<1>1. /\ s \in Seq(T) /\ Len(s) = Len(a) + Len(t) + Len(b)
      /\ Len(a) \in Nat /\ Len(t) \in Nat /\ Len(b) \in Nat
  OBVIOUS
<1>2. /\ \A k \in 1 .. Len(a) : s[k] = a[k]
      /\ \A k \in 1 .. Len(t) : s[Len(a) + k] = t[k]
      /\ \A k \in 1 .. Len(b) : s[Len(a) + Len(t) + k] = b[k]
  OBVIOUS
<1>3. SubSeq(s, Len(a) + 1, Len(a) + Len(t)) = t
  OBVIOUS
<1> HIDE DEF s
<1>4. \A k \in 1 .. Len(s) : s[k] # Space => k \in Len(a) + 1 .. Len(a) + Len(t)
  <2>1. ASSUME NEW k \in 1 .. Len(s), k > Len(a) + Len(t) PROVE s[k] = Space
    <3> DEFINE i == k - (Len(a) + Len(t))
    <3>1. i \in 1 .. Len(b) /\ Len(a) + Len(t) + i = k
      BY <1>1, <2>1
    <3> HIDE DEF i
    <3> QED BY <1>2, <3>1, Zenon DEF Blank
  <2>2. ASSUME NEW k \in 1 .. Len(s), k <= Len(a) PROVE s[k] = Space
    <3>1. k \in 1 .. Len(a)
      BY <2>2
    <3> QED BY <1>2, <3>1, Zenon DEF Blank
  <2> QED BY <1>1, <2>1, <2>2
<1>5. CASE t = <<>>
  <2>1. Blank(s)
    BY <1>1, <1>4, <1>5 DEF Blank
  <2>2. Trim(s) = <<>>
    BY <1>1, <2>1, TrimBlank
  <2> QED BY <1>5, <2>2 DEF TrimsTo, s
<1>6. CASE t # <<>>
  <2> DEFINE i == Len(a) + 1
             j == Len(a) + Len(t)
  <2>1. Len(t) # 0
    BY <1>6
  <2>2. i \in 1 .. Len(s) /\ j \in 1 .. Len(s) /\ s[i] = t[1] /\ s[j] = t[Len(t)]
    <3>1. i \in 1 .. Len(s) /\ j \in 1 .. Len(s) /\ 1 \in 1 .. Len(t) /\ Len(t) \in 1 .. Len(t)
      BY <1>1, <2>1
    <3> QED BY <1>2, <3>1, Zenon
  <2>3. t[1] # Space /\ t[Len(t)] # Space
    BY <1>6, Zenon DEF Trimmed
  <2>4. i \in Kept(s) /\ j \in Kept(s)
    <3> HIDE DEF i, j
    <3> QED BY <2>2, <2>3 DEF Kept
  <2>5. \A k \in Kept(s) : i <= k /\ k <= j
    BY <1>1, <1>4 DEF Kept
  <2>6. Ends(s, i, j)
    <3> HIDE DEF i, j
    <3> QED BY <1>1, <2>4, <2>5, EndsAre, Zenon
  <2> QED BY <1>3, <2>6, Zenon DEF Ends, TrimsTo, s
<1> QED BY <1>5, <1>6, Zenon

-----------------------------------------------------------------------------
(* Loops: what is made of one element after the other.                     *)

Runs(g, A, N, first, h) ==
  /\ g \in [0 .. N -> A] /\ g[0] = first
  /\ \A n \in 1 .. N : g[n] = h[n][g[n - 1]]

LEMMA LoopRuns ==
  ASSUME NEW N \in Nat, NEW A, NEW first \in A, NEW h \in [1 .. N -> [A -> A]]
  PROVE  \E g : Runs(g, A, N, first, h)
<1> DEFINE S == {m \in 0 .. N : \E g : Runs(g, A, m, first, h)}
<1>1. 0 \in S
  <2> DEFINE g == [n \in 0 .. 0 |-> first]
  <2>1. g \in [0 .. 0 -> A] /\ g[0] = first
    OBVIOUS
  <2>2. \A n \in 1 .. 0 : g[n] = h[n][g[n - 1]]
    <3>1. 1 .. 0 = {}
      OBVIOUS
    <3> QED BY <3>1, Zenon
  <2> HIDE DEF g
  <2>3. Runs(g, A, 0, first, h)
    BY <2>1, <2>2, Zenon DEF Runs
  <2>4. 0 \in 0 .. N
    OBVIOUS
  <2> QED BY <2>3, <2>4, Zenon
<1>2. \A m \in 0 .. N - 1 : m \in S => m + 1 \in S
  <2> SUFFICES ASSUME NEW m \in 0 .. N - 1, NEW g, Runs(g, A, m, first, h)
               PROVE  m + 1 \in 0 .. N /\ \E f : Runs(f, A, m + 1, first, h)
    BY Zenon
  <2> DEFINE M == m + 1
             a == h[M][g[m]]
             f == [n \in 0 .. M |-> IF n = M THEN a ELSE g[n]]
  <2>1. /\ g \in [0 .. m -> A] /\ g[0] = first
        /\ \A n \in 1 .. m : g[n] = h[n][g[n - 1]]
    BY Zenon DEF Runs
  <2>2. m \in 0 .. m /\ M \in 1 .. N /\ M - 1 = m /\ M \in 0 .. N /\ M # 0
    OBVIOUS
  <2>3. a \in A
    <3>1. g[m] \in A
      BY <2>1, <2>2, Zenon
    <3> HIDE DEF M
    <3>2. h[M] \in [A -> A]
      BY <2>2, Zenon
    <3> QED BY <3>1, <3>2, Zenon
  <2> HIDE DEF a
  <2>4. \A n \in 0 .. M : n # M => n \in 0 .. m
    OBVIOUS
  <2>5. f \in [0 .. M -> A]
    <3>1. \A n \in 0 .. M : (IF n = M THEN a ELSE g[n]) \in A
      <4> HIDE DEF M
      <4> QED BY <2>1, <2>3, <2>4
    <3> HIDE DEF M
    <3> QED BY <3>1
  <2>6. f[0] = first
    <3>1. 0 \in 0 .. M
      OBVIOUS
    <3> HIDE DEF M
    <3> QED BY <2>1, <2>2, <3>1
  <2>7. \A n \in 1 .. M : f[n] = h[n][f[n - 1]]
    <3> SUFFICES ASSUME NEW n \in 1 .. M PROVE f[n] = h[n][f[n - 1]]
      OBVIOUS
    <3>1. n \in 0 .. M /\ n - 1 \in 0 .. M /\ n - 1 # M /\ (n # M => n \in 1 .. m)
      OBVIOUS
    <3>2. f[n - 1] = g[n - 1]
      <4> HIDE DEF M
      <4> QED BY <3>1, Zenon
    <3>3. CASE n = M
      <4> HIDE DEF M
      <4>1. f[n] = a
        BY <3>1, <3>3
      <4> QED BY <2>2, <3>2, <3>3, <4>1, Zenon DEF a
    <3>4. CASE n # M
      <4> HIDE DEF M
      <4>1. f[n] = g[n]
        BY <3>1, <3>4, Zenon
      <4> QED BY <2>1, <3>1, <3>2, <3>4, <4>1, Zenon
    <3> QED BY <3>3, <3>4, Zenon
  <2> HIDE DEF f
  <2> QED BY <2>2, <2>5, <2>6, <2>7, Zenon DEF Runs
<1>3. N \in S
  <2> HIDE DEF S
  <2>1. \A n \in 0 .. N : n \in S
    BY <1>1, <1>2, UpTo, Zenon
  <2> QED BY <2>1
<1> QED BY <1>3, Zenon

(* Two loops that do the same up to N agree there.                         *)
LEMMA LoopsAgree ==
  ASSUME NEW N \in Nat, NEW f, NEW g, f[0] = g[0],
         \A n \in 1 .. N : f[n - 1] = g[n - 1] => f[n] = g[n]
  PROVE  f[N] = g[N]
<1> DEFINE S == {n \in 0 .. N : f[n] = g[n]}
<1>1. 0 \in S
  OBVIOUS
<1>2. \A n \in 0 .. N - 1 : n \in S => n + 1 \in S
  <2> SUFFICES ASSUME NEW n \in 0 .. N - 1, f[n] = g[n]
               PROVE  n + 1 \in 0 .. N /\ f[n + 1] = g[n + 1]
    OBVIOUS
  <2> DEFINE m == n + 1
  <2>1. m \in 1 .. N /\ m - 1 = n /\ m \in 0 .. N
    OBVIOUS
  <2> HIDE DEF m
  <2>2. f[m] = g[m]
    BY <2>1, Zenon
  <2> QED BY <2>1, <2>2, Zenon DEF m
<1>3. N \in S
  <2> HIDE DEF S
  <2>1. \A n \in 0 .. N : n \in S
    BY <1>1, <1>2, UpTo, Zenon
  <2> QED BY <2>1
<1> QED BY <1>3, Zenon

-----------------------------------------------------------------------------
(* Split: the pieces of a text between its marks.                          *)

LEMMA LongerIs ==
  ASSUME NEW T, NEW p \in Seq(Seq(T)) \ {<<>>}, NEW c \in T, NEW m
  PROVE  Longer(p, c, m) \in Seq(Seq(T)) \ {<<>>}
<1>1. CASE c = m
  <2>1. Append(p, <<>>) \in Seq(Seq(T)) \ {<<>>}
    OBVIOUS
  <2> QED BY <1>1, <2>1 DEF Longer
<1>2. CASE c # m
  <2> DEFINE l == Append(p[Len(p)], c)
             q == [p EXCEPT ![Len(p)] = l]
  <2>1. p[Len(p)] \in Seq(T) /\ l \in Seq(T) /\ Len(p) \in Nat \ {0}
    OBVIOUS
  <2> HIDE DEF l
  <2>2. q \in Seq(Seq(T)) /\ Len(q) = Len(p)
    BY <2>1
  <2>3. q # <<>>
    <3> HIDE DEF q
    <3> QED BY <2>1, <2>2
  <2>4. Longer(p, c, m) = q
    BY <1>2 DEF Longer, l
  <2> QED BY <2>2, <2>3, <2>4, Zenon
<1> QED BY <1>1, <1>2

Follows(g, s, m) ==
  /\ Split(s, m) = g[Len(s)]
  /\ g[0] = <<<<>>>>
  /\ \A n \in 1 .. Len(s) : g[n] = Longer(g[n - 1], s[n], m)

Pieces(T) == Seq(Seq(T)) \ {<<>>}

LEMMA SplitRuns ==
  ASSUME NEW T, NEW s \in Seq(T), NEW m
  PROVE  \E g : Follows(g, s, m) /\ g[Len(s)] \in Pieces(T)
<1> DEFINE N == Len(s)
           A == Pieces(T)
           h == [n \in 1 .. N |-> [a \in A |-> Longer(a, s[n], m)]]
           Next1(g) == [n \in 0 .. N |-> IF n = 0 THEN <<<<>>>> ELSE Longer(g[n - 1], s[n], m)]
           k == CHOOSE f : f = Next1(f)
<1>1. N \in Nat /\ <<<<>>>> \in A
  BY DEF Pieces
<1>2. \A n \in 1 .. N, a \in A : Longer(a, s[n], m) \in A
  BY LongerIs DEF Pieces
<1>3. h \in [1 .. N -> [A -> A]]
  <2> HIDE DEF A, N
  <2> QED BY <1>2, Zenon
<1>4. \A n \in 1 .. N, a \in A : h[n][a] = Longer(a, s[n], m)
  <2> HIDE DEF A, N
  <2> QED BY Zenon
<1> HIDE DEF h
<1>5. PICK g : Runs(g, A, N, <<<<>>>>, h)
  <2> HIDE DEF A, N
  <2> QED BY <1>1, <1>3, LoopRuns, Zenon
<1>6. \A n \in 1 .. N : n - 1 \in 0 .. N /\ n # 0
  BY <1>1
<1>7. g = Next1(g)
  <2>1. g = [n \in 0 .. N |-> g[n]]
    BY <1>5, Zenon DEF Runs
  <2>2. \A n \in 0 .. N : n # 0 => n \in 1 .. N
    BY <1>1
  <2>3. \A n \in 0 .. N : g[n] = IF n = 0 THEN <<<<>>>> ELSE Longer(g[n - 1], s[n], m)
    <3> SUFFICES ASSUME NEW n \in 0 .. N
                 PROVE  g[n] = IF n = 0 THEN <<<<>>>> ELSE Longer(g[n - 1], s[n], m)
      OBVIOUS
    <3> HIDE DEF A, N
    <3>1. CASE n = 0
      BY <1>5, <3>1, Zenon DEF Runs
    <3>2. CASE n # 0
      <4>1. n \in 1 .. N /\ n - 1 \in 0 .. N
        BY <1>6, <2>2, <3>2, Zenon
      <4>2. g[n - 1] \in A /\ g[n] = h[n][g[n - 1]]
        BY <1>5, <4>1, Zenon DEF Runs
      <4> QED BY <1>4, <3>2, <4>1, <4>2, Zenon
    <3> QED BY <3>1, <3>2, Zenon
  <2> HIDE DEF A, N
  <2> QED BY <2>1, <2>3, Zenon
<1>8. k = Next1(k)
  <2> HIDE DEF Next1
  <2> QED BY <1>7, Zenon
<1>9. Split(s, m) = k[N]
  BY Zenon DEF Split
<1> HIDE DEF k, A
<1>10. N \in 0 .. N /\ 0 \in 0 .. N
  BY <1>1
<1>11. /\ k[0] = <<<<>>>>
       /\ \A n \in 1 .. N : k[n] = Longer(k[n - 1], s[n], m)
  <2>1. \A n \in 0 .. N : k[n] = IF n = 0 THEN <<<<>>>> ELSE Longer(k[n - 1], s[n], m)
    <3> HIDE DEF N
    <3> QED BY <1>8, Zenon
  <2>2. \A n \in 1 .. N : n \in 0 .. N
    OBVIOUS
  <2> HIDE DEF N
  <2> QED BY <1>6, <1>10, <2>1, <2>2, Zenon
<1>12. k[N] = g[N]
  <2>1. k[0] = g[0]
    BY <1>5, <1>11, Zenon DEF Runs
  <2>2. \A n \in 1 .. N : k[n - 1] = g[n - 1] => k[n] = g[n]
    <3> SUFFICES ASSUME NEW n \in 1 .. N, k[n - 1] = g[n - 1] PROVE k[n] = g[n]
      OBVIOUS
    <3> HIDE DEF N
    <3>1. g[n - 1] \in A /\ g[n] = h[n][g[n - 1]]
      BY <1>5, <1>6, Zenon DEF Runs
    <3> QED BY <1>4, <1>11, <3>1, Zenon
  <2> HIDE DEF N
  <2> QED BY <1>1, <2>1, <2>2, LoopsAgree, Zenon
<1>13. g[N] \in A
  <2> HIDE DEF N
  <2> QED BY <1>5, <1>10, Zenon DEF Runs
<1>14. Follows(k, s, m)
  BY <1>9, <1>11, Zenon DEF Follows
<1> QED BY <1>12, <1>13, <1>14, Zenon DEF A

LEMMA SplitIsPieces ==
  ASSUME NEW T, NEW s \in Seq(T), NEW m
  PROVE  Split(s, m) \in Pieces(T)
<1>1. PICK g : Follows(g, s, m) /\ g[Len(s)] \in Pieces(T)
  BY SplitRuns, Zenon
<1> QED BY <1>1, Zenon DEF Follows

LEMMA SplitEmpty ==
  ASSUME NEW m
  PROVE  Split(<<>>, m) = <<<<>>>>
<1> DEFINE s == <<>>
<1>1. s \in Seq({}) /\ Len(s) = 0
  OBVIOUS
<1> HIDE DEF s
<1>2. PICK g : Follows(g, s, m)
  BY <1>1, SplitRuns, Zenon
<1> QED BY <1>1, <1>2, Zenon DEF Follows, s

Grows(s, c, m) == Split(Append(s, c), m) = Longer(Split(s, m), c, m)

LEMMA SplitMore ==
  ASSUME NEW T, NEW s \in Seq(T), NEW c \in T, NEW m
  PROVE  Grows(s, c, m)
<1> DEFINE x == Append(s, c)
           N == Len(s)
<1>1. /\ x \in Seq(T) /\ Len(x) = N + 1 /\ x[N + 1] = c /\ \A n \in 1 .. N : x[n] = s[n]
      /\ N \in Nat
  OBVIOUS
<1> HIDE DEF x
<1>2. PICK f : Follows(f, s, m)
  BY SplitRuns, Zenon
<1>3. PICK g : Follows(g, x, m)
  BY <1>1, SplitRuns, Zenon
<1>4. \A n \in 1 .. N : n \in 1 .. Len(x)
  BY <1>1
<1>5. f[N] = g[N]
  <2>1. f[0] = g[0] /\ \A n \in 1 .. N : f[n - 1] = g[n - 1] => f[n] = g[n]
    BY <1>1, <1>2, <1>3, <1>4, Zenon DEF Follows
  <2> HIDE DEF N
  <2> QED BY <1>1, <2>1, LoopsAgree, Zenon
<1>6. N + 1 \in 1 .. Len(x) /\ (N + 1) - 1 = N
  BY <1>1
<1>7. g[N + 1] = Longer(g[N], c, m)
  BY <1>1, <1>3, <1>6, Zenon DEF Follows
<1> QED BY <1>1, <1>2, <1>3, <1>5, <1>7, Zenon DEF Follows, Grows, x

(* A piece holds no mark.                                                  *)
FreeOf(s, m) == \A k \in 1 .. Len(s) : s[k] # m

AllFree(p, m) == \A k \in 1 .. Len(p) : FreeOf(p[k], m)

LEMMA LongerIsFree ==
  ASSUME NEW T, NEW p \in Pieces(T), NEW c \in T, NEW m, AllFree(p, m)
  PROVE  AllFree(Longer(p, c, m), m)
<1>1. p \in Seq(Seq(T)) /\ Len(p) \in Nat \ {0} /\ p[Len(p)] \in Seq(T)
  BY DEF Pieces
<1>2. CASE c = m
  <2> DEFINE q == Append(p, <<>>)
  <2>1. /\ q \in Seq(Seq(T)) /\ Len(q) = Len(p) + 1 /\ q[Len(p) + 1] = <<>>
        /\ \A k \in 1 .. Len(p) : q[k] = p[k]
    BY <1>1
  <2>2. Longer(p, c, m) = q
    BY <1>2, Zenon DEF Longer
  <2> HIDE DEF q
  <2>3. FreeOf(q[Len(p) + 1], m)
    <3>1. FreeOf(<<>>, m)
      BY DEF FreeOf
    <3> QED BY <2>1, <3>1, Zenon
  <2>4. \A k \in 1 .. Len(q) : k \in 1 .. Len(p) \/ k = Len(p) + 1
    BY <1>1, <2>1
  <2> QED BY <2>1, <2>2, <2>3, <2>4, Zenon DEF AllFree
<1>3. CASE c # m
  <2> DEFINE l == Append(p[Len(p)], c)
             q == [p EXCEPT ![Len(p)] = l]
  <2>1. FreeOf(p[Len(p)], m)
    BY <1>1 DEF AllFree
  <2>2. FreeOf(l, m)
    BY <1>1, <1>3, <2>1 DEF FreeOf
  <2> HIDE DEF l
  <2>3. Len(q) = Len(p) /\ \A k \in 1 .. Len(p) : q[k] = IF k = Len(p) THEN l ELSE p[k]
    BY <1>1
  <2>4. Longer(p, c, m) = q
    BY <1>3 DEF Longer, l
  <2> HIDE DEF q
  <2> QED BY <2>2, <2>3, <2>4, Zenon DEF AllFree
<1> QED BY <1>2, <1>3

LEMMA SplitIsFree ==
  ASSUME NEW T, NEW s \in Seq(T), NEW m
  PROVE  AllFree(Split(s, m), m)
<1> DEFINE Q == {x \in Seq(T) : AllFree(Split(x, m), m)}
<1>1. <<>> \in Q
  <2>1. AllFree(<<<<>>>>, m)
    BY DEF AllFree, FreeOf
  <2>2. <<>> \in Seq(T)
    OBVIOUS
  <2> QED BY <2>1, <2>2, SplitEmpty, Zenon
<1>2. \A x \in Seq(T), c \in T : x \in Q => Append(x, c) \in Q
  <2> SUFFICES ASSUME NEW x \in Seq(T), NEW c \in T, AllFree(Split(x, m), m)
               PROVE  Append(x, c) \in Seq(T) /\ AllFree(Split(Append(x, c), m), m)
    OBVIOUS
  <2>1. Append(x, c) \in Seq(T)
    OBVIOUS
  <2>2. Grows(x, c, m)
    BY SplitMore, Zenon
  <2>3. AllFree(Longer(Split(x, m), c, m), m)
    BY SplitIsPieces, LongerIsFree, Zenon
  <2> QED BY <2>1, <2>2, <2>3, Zenon DEF Grows
<1>3. s \in Q
  <2> HIDE DEF Q
  <2> QED BY <1>1, <1>2, SymbolBySymbol, Zenon
<1> QED BY <1>3, Zenon

(* A text with no mark in it extends the last piece.                       *)
Extended(p, t) == [p EXCEPT ![Len(p)] = @ \o t]

Extends(s, t, m) == Split(s \o t, m) = Extended(Split(s, m), t)

LEMMA ExtendedNot ==
  ASSUME NEW T, NEW p \in Pieces(T)
  PROVE  Extended(p, <<>>) = p
<1> DEFINE q == Extended(p, <<>>)
<1>1. p \in Seq(Seq(T)) /\ Len(p) \in Nat \ {0} /\ p[Len(p)] \in Seq(T)
  BY DEF Pieces
<1>2. p[Len(p)] \o <<>> = p[Len(p)]
  BY <1>1
<1>3. /\ q \in Seq(Seq(T)) /\ Len(q) = Len(p)
      /\ \A k \in 1 .. Len(p) : q[k] = IF k = Len(p) THEN p[Len(p)] \o <<>> ELSE p[k]
  BY <1>1 DEF Extended
<1> HIDE DEF q
<1>4. \A k \in 1 .. Len(p) : q[k] = p[k]
  BY <1>2, <1>3, Zenon
<1>5. q = p
  BY <1>1, <1>3, <1>4, SeqEqual
<1> QED BY <1>5 DEF q

ExtendedIs(p, t, T) ==
  /\ Extended(p, t) \in Pieces(T) /\ Len(Extended(p, t)) = Len(p)
  /\ Extended(p, t)[Len(p)] = p[Len(p)] \o t
  /\ \A k \in 1 .. Len(p) - 1 : Extended(p, t)[k] = p[k]

LEMMA ExtendedWhat ==
  ASSUME NEW T, NEW p \in Pieces(T), NEW t \in Seq(T)
  PROVE  ExtendedIs(p, t, T)
<1> DEFINE l == p[Len(p)] \o t
           q == [p EXCEPT ![Len(p)] = l]
<1>1. p \in Seq(Seq(T)) /\ Len(p) \in Nat \ {0} /\ p[Len(p)] \in Seq(T)
  BY DEF Pieces
<1>2. l \in Seq(T)
  BY <1>1
<1>3. Extended(p, t) = q
  BY DEF Extended
<1> HIDE DEF l
<1>4. /\ q \in Seq(Seq(T)) /\ Len(q) = Len(p) /\ q[Len(p)] = l
      /\ \A k \in 1 .. Len(p) - 1 : q[k] = p[k]
  BY <1>1, <1>2
<1> HIDE DEF q
<1>5. q \in Pieces(T)
  BY <1>1, <1>4 DEF Pieces
<1> QED BY <1>3, <1>4, <1>5, Zenon DEF ExtendedIs, l

Lengthens(a, t, c, T) == a \o Append(t, c) \in Seq(T) /\ Append(a \o t, c) = a \o Append(t, c)

LEMMA AppendLast ==
  ASSUME NEW T, NEW a \in Seq(T), NEW t \in Seq(T), NEW c \in T
  PROVE  Lengthens(a, t, c, T)
BY DEF Lengthens

LastSet(e, l, T) ==
  /\ [e EXCEPT ![Len(e)] = l] \in Seq(T) /\ Len([e EXCEPT ![Len(e)] = l]) = Len(e)
  /\ [e EXCEPT ![Len(e)] = l][Len(e)] = l
  /\ \A k \in 1 .. Len(e) - 1 : [e EXCEPT ![Len(e)] = l][k] = e[k]

LEMMA SetsLast ==
  ASSUME NEW T, NEW e \in Seq(T), Len(e) # 0, NEW l \in T
  PROVE  LastSet(e, l, T)
BY DEF LastSet

LEMMA ExtendedMore ==
  ASSUME NEW T, NEW p \in Pieces(T), NEW t \in Seq(T), NEW c \in T, NEW m, c # m
  PROVE  Longer(Extended(p, t), c, m) = Extended(p, Append(t, c))
<1> DEFINE e == Extended(p, t)
           f == Extended(p, Append(t, c))
           l == Append(e[Len(e)], c)
           q == [e EXCEPT ![Len(e)] = l]
<1>1. p \in Seq(Seq(T)) /\ Len(p) \in Nat \ {0} /\ p[Len(p)] \in Seq(T)
  BY DEF Pieces
<1>2. /\ e \in Pieces(T) /\ Len(e) = Len(p) /\ e[Len(p)] = p[Len(p)] \o t
      /\ \A k \in 1 .. Len(p) - 1 : e[k] = p[k]
  BY ExtendedWhat, Zenon DEF ExtendedIs
<1>3. Append(t, c) \in Seq(T)
  OBVIOUS
<1>4. /\ f \in Pieces(T) /\ Len(f) = Len(p) /\ f[Len(p)] = p[Len(p)] \o Append(t, c)
      /\ \A k \in 1 .. Len(p) - 1 : f[k] = p[k]
  BY <1>3, ExtendedWhat, Zenon DEF ExtendedIs
<1>5. Longer(e, c, m) = q
  BY DEF Longer
<1> HIDE DEF e, f
<1>6. e \in Seq(Seq(T)) /\ f \in Seq(Seq(T))
  BY <1>2, <1>4 DEF Pieces
<1>7. l \in Seq(T) /\ l = p[Len(p)] \o Append(t, c)
  <2> DEFINE a == p[Len(p)]
  <2>1. a \in Seq(T) /\ e[Len(e)] = a \o t
    BY <1>1, <1>2, Zenon
  <2> HIDE DEF a
  <2>2. Lengthens(a, t, c, T)
    BY <2>1, AppendLast, Zenon
  <2> QED BY <2>1, <2>2, Zenon DEF a, Lengthens
<1> HIDE DEF l
<1>8. /\ q \in Seq(Seq(T)) /\ Len(q) = Len(p) /\ q[Len(p)] = l
      /\ \A k \in 1 .. Len(p) - 1 : q[k] = e[k]
  <2>1. Len(e) = Len(p) /\ Len(e) # 0
    BY <1>1, <1>2
  <2>2. LastSet(e, l, Seq(T))
    BY <1>6, <1>7, <2>1, SetsLast, Zenon
  <2> QED BY <2>1, <2>2, Zenon DEF LastSet
<1> HIDE DEF q
<1>9. \A k \in 1 .. Len(p) : q[k] = f[k]
  <2>1. \A k \in 1 .. Len(p) : k = Len(p) \/ k \in 1 .. Len(p) - 1
    BY <1>1
  <2> QED BY <1>2, <1>4, <1>7, <1>8, <2>1, Zenon
<1>10. q = f
  BY <1>4, <1>6, <1>8, <1>9, SeqEqual
<1> QED BY <1>5, <1>10, Zenon DEF e, f

LEMMA SplitExtends ==
  ASSUME NEW T, NEW s \in Seq(T), NEW t \in Seq(T), NEW m, FreeOf(t, m)
  PROVE  Extends(s, t, m)
<1> DEFINE Q == {x \in Seq(T) : FreeOf(x, m) => Extends(s, x, m)}
<1>1. <<>> \in Q
  <2>1. s \o <<>> = s /\ <<>> \in Seq(T)
    OBVIOUS
  <2>2. Extended(Split(s, m), <<>>) = Split(s, m)
    BY SplitIsPieces, ExtendedNot, Zenon
  <2> QED BY <2>1, <2>2, Zenon DEF Extends
<1>2. \A x \in Seq(T), c \in T : x \in Q => Append(x, c) \in Q
  <2> SUFFICES ASSUME NEW x \in Seq(T), NEW c \in T, FreeOf(x, m) => Extends(s, x, m),
                      FreeOf(Append(x, c), m)
               PROVE  Extends(s, Append(x, c), m)
    <3>1. \A x \in Seq(T), c \in T : Append(x, c) \in Seq(T)
      OBVIOUS
    <3> QED BY <3>1, Zenon
  <2>1. c # m /\ FreeOf(x, m)
    <3> DEFINE y == Append(x, c)
    <3>1. /\ Len(y) = Len(x) + 1 /\ y[Len(x) + 1] = c /\ Len(x) + 1 \in 1 .. Len(y)
          /\ \A k \in 1 .. Len(x) : k \in 1 .. Len(y) /\ y[k] = x[k]
      OBVIOUS
    <3>2. FreeOf(y, m)
      OBVIOUS
    <3> HIDE DEF y
    <3> QED BY <3>1, <3>2, Zenon DEF FreeOf
  <2>2. s \o x \in Seq(T) /\ s \o Append(x, c) = Append(s \o x, c)
    OBVIOUS
  <2>3. Grows(s \o x, c, m)
    BY <2>2, SplitMore, Zenon
  <2>4. Longer(Extended(Split(s, m), x), c, m) = Extended(Split(s, m), Append(x, c))
    BY <2>1, SplitIsPieces, ExtendedMore, Zenon
  <2> QED BY <2>1, <2>2, <2>3, <2>4, Zenon DEF Grows, Extends
<1>3. t \in Q
  <2> HIDE DEF Q
  <2> QED BY <1>1, <1>2, SymbolBySymbol, Zenon
<1> QED BY <1>3, Zenon

LEMMA SplitFree ==
  ASSUME NEW T, NEW t \in Seq(T), NEW m, FreeOf(t, m)
  PROVE  Split(t, m) = <<t>>
<1> DEFINE e == <<>>
           q == <<<<>>>>
           r == Extended(q, t)
<1>1. e \in Seq(T) /\ e \o t = t /\ q \in Pieces(T) /\ Len(q) = 1 /\ q[Len(q)] = e
  BY DEF Pieces
<1>2. Split(e, m) = q
  BY SplitEmpty, Zenon
<1> HIDE DEF e, q
<1>3. Split(t, m) = r
  <2>1. Extends(e, t, m)
    BY <1>1, SplitExtends, Zenon
  <2> QED BY <1>1, <1>2, <2>1, Zenon DEF Extends
<1>4. r \in Pieces(T) /\ Len(r) = 1 /\ r[1] = t
  BY <1>1, ExtendedWhat, Zenon DEF ExtendedIs
<1> HIDE DEF r
<1>5. r = <<t>>
  BY <1>4 DEF Pieces
<1> QED BY <1>3, <1>5, Zenon

(* A mark and a text with none in it are one piece more.                   *)
EndsPiece(s, t, m) == Split(Append(s, m) \o t, m) = Append(Split(s, m), t)

LEMMA SplitCloses ==
  ASSUME NEW T, NEW s \in Seq(T), NEW t \in Seq(T), NEW m \in T, FreeOf(t, m)
  PROVE  EndsPiece(s, t, m)
<1> DEFINE p == Split(s, m)
           e == <<>>
           q == Append(p, e)
           r == Extended(q, t)
<1>1. p \in Seq(Seq(T)) /\ p \in Pieces(T) /\ Len(p) \in Nat \ {0}
  <2>1. p \in Pieces(T)
    BY SplitIsPieces, Zenon
  <2> HIDE DEF p
  <2> QED BY <2>1 DEF Pieces
<1>2. Split(Append(s, m), m) = q
  <2>1. Grows(s, m, m)
    BY SplitMore, Zenon
  <2> QED BY <2>1, Zenon DEF Grows, Longer
<1>3. Append(s, m) \in Seq(T)
  OBVIOUS
<1>4. Split(Append(s, m) \o t, m) = r
  <2>1. Extends(Append(s, m), t, m)
    BY <1>3, SplitExtends, Zenon
  <2> QED BY <1>2, <2>1, Zenon DEF Extends
<1> HIDE DEF p
<1>5. e \in Seq(T) /\ e \o t = t
  OBVIOUS
<1> HIDE DEF e
<1>6. /\ q \in Seq(Seq(T)) /\ Len(q) = Len(p) + 1 /\ q[Len(q)] = e
      /\ \A k \in 1 .. Len(q) - 1 : q[k] = p[k]
  BY <1>1, <1>5
<1>7. q \in Pieces(T)
  <2> HIDE DEF q
  <2> QED BY <1>1, <1>6 DEF Pieces
<1> HIDE DEF q
<1>8. /\ r \in Pieces(T) /\ Len(r) = Len(q) /\ r[Len(q)] = t
      /\ \A k \in 1 .. Len(q) - 1 : r[k] = q[k]
  BY <1>5, <1>6, <1>7, ExtendedWhat, Zenon DEF ExtendedIs
<1> HIDE DEF r
<1>9. r = Append(p, t)
  <2> DEFINE w == Append(p, t)
  <2>1. /\ w \in Seq(Seq(T)) /\ Len(w) = Len(p) + 1 /\ w[Len(p) + 1] = t
        /\ \A k \in 1 .. Len(p) : w[k] = p[k]
    BY <1>1
  <2> HIDE DEF w
  <2>2. \A k \in 1 .. Len(r) : k = Len(q) \/ (k \in 1 .. Len(q) - 1 /\ k \in 1 .. Len(p))
    BY <1>1, <1>6, <1>8
  <2>3. \A k \in 1 .. Len(r) : r[k] = w[k]
    BY <1>6, <1>8, <2>1, <2>2, Zenon
  <2>4. r \in Seq(Seq(T))
    BY <1>8, Zenon DEF Pieces
  <2>5. Len(r) = Len(w)
    BY <1>6, <1>8, <2>1, Zenon
  <2>6. r = w
    BY <2>1, <2>3, <2>4, <2>5, SeqEqual
  <2> QED BY <2>6 DEF w
<1> QED BY <1>4, <1>9, Zenon DEF EndsPiece, p

(* All pieces but the last stay what they are.                             *)
Keeps(p, q) == Len(p) <= Len(q) /\ \A k \in 1 .. Len(p) - 1 : q[k] = p[k]

LEMMA LongerKeeps ==
  ASSUME NEW T, NEW p \in Pieces(T), NEW q \in Pieces(T), Keeps(p, q), NEW c \in T, NEW m
  PROVE  Keeps(p, Longer(q, c, m))
<1>1. q \in Seq(Seq(T)) /\ Len(q) \in Nat \ {0} /\ q[Len(q)] \in Seq(T) /\ Len(p) \in Nat \ {0}
  BY DEF Pieces
<1>2. Len(p) <= Len(q) /\ \A k \in 1 .. Len(p) - 1 : q[k] = p[k] /\ k \in 1 .. Len(q) - 1
  BY <1>1 DEF Keeps
<1>3. CASE c = m
  <2> DEFINE r == Append(q, <<>>)
  <2>1. Longer(q, c, m) = r
    BY <1>3, Zenon DEF Longer
  <2>2. Len(r) = Len(q) + 1 /\ \A k \in 1 .. Len(q) - 1 : r[k] = q[k]
    BY <1>1
  <2> HIDE DEF r
  <2>3. Len(p) <= Len(r)
    BY <1>1, <1>2, <2>2
  <2> QED BY <1>2, <2>1, <2>2, <2>3, Zenon DEF Keeps
<1>4. CASE c # m
  <2> DEFINE l == Append(q[Len(q)], c)
             r == [q EXCEPT ![Len(q)] = l]
  <2>1. Longer(q, c, m) = r
    BY <1>4 DEF Longer
  <2> HIDE DEF l
  <2>2. Len(r) = Len(q) /\ \A k \in 1 .. Len(q) - 1 : r[k] = q[k]
    BY <1>1
  <2> HIDE DEF r
  <2>3. Len(p) <= Len(r)
    BY <1>2, <2>2, Zenon
  <2> QED BY <1>2, <2>1, <2>2, <2>3, Zenon DEF Keeps
<1> QED BY <1>3, <1>4

LEMMA SplitKeeps ==
  ASSUME NEW T, NEW s \in Seq(T), NEW t \in Seq(T), NEW m
  PROVE  Keeps(Split(s, m), Split(s \o t, m))
<1> DEFINE Q == {x \in Seq(T) : Keeps(Split(s, m), Split(s \o x, m))}
<1>1. <<>> \in Q
  <2>1. s \o <<>> = s /\ <<>> \in Seq(T)
    OBVIOUS
  <2>2. Keeps(Split(s, m), Split(s, m))
    <3>1. Split(s, m) \in Pieces(T)
      BY SplitIsPieces, Zenon
    <3> QED BY <3>1 DEF Keeps, Pieces
  <2> QED BY <2>1, <2>2, Zenon
<1>2. \A x \in Seq(T), c \in T : x \in Q => Append(x, c) \in Q
  <2> SUFFICES ASSUME NEW x \in Seq(T), NEW c \in T, Keeps(Split(s, m), Split(s \o x, m))
               PROVE  /\ Append(x, c) \in Seq(T)
                      /\ Keeps(Split(s, m), Split(s \o Append(x, c), m))
    BY Zenon
  <2>1. s \o x \in Seq(T) /\ s \o Append(x, c) = Append(s \o x, c) /\ Append(x, c) \in Seq(T)
    OBVIOUS
  <2>2. Grows(s \o x, c, m)
    BY <2>1, SplitMore, Zenon
  <2>3. Split(s, m) \in Pieces(T) /\ Split(s \o x, m) \in Pieces(T)
    BY <2>1, SplitIsPieces, Zenon
  <2>4. Keeps(Split(s, m), Longer(Split(s \o x, m), c, m))
    BY <2>3, LongerKeeps, Zenon
  <2> QED BY <2>1, <2>2, <2>4, Zenon DEF Grows
<1>3. t \in Q
  <2> HIDE DEF Q
  <2> QED BY <1>1, <1>2, SymbolBySymbol, Zenon
<1> QED BY <1>3, Zenon

(* The first symbol is that of the first piece, or ends it.                *)
FirstPiece(p, s, m) == IF s[1] = m THEN p[1] = <<>> /\ Len(p) > 1
                    ELSE p[1] # <<>> /\ p[1][1] = s[1]

LEMMA SplitBegins ==
  ASSUME NEW T, NEW c \in T, NEW t \in Seq(T), NEW m \in T
  PROVE  FirstPiece(Split(<<c>> \o t, m), <<c>> \o t, m)
<1> DEFINE s == <<c>> \o t
           e == <<>>
           o == <<c>>
<1>1. /\ s[1] = c /\ s = o \o t /\ o \in Seq(T) /\ o = Append(e, c)
      /\ e \in Seq(T) /\ o # <<>> /\ o[1] = c
  OBVIOUS
<1> HIDE DEF s, o
<1>2. CASE c = m
  <2> DEFINE p == Split(Append(e, m), m)
             q == Split(s, m)
  <2>1. p = Append(<<e>>, e)
    <3>1. Grows(e, m, m)
      BY <1>1, SplitMore, Zenon
    <3>2. Longer(Split(e, m), m, m) = Append(<<e>>, e)
      BY SplitEmpty, Zenon DEF Longer
    <3> QED BY <3>1, <3>2, Zenon DEF Grows
  <2>2. Keeps(p, q)
    BY <1>1, <1>2, SplitKeeps, Zenon
  <2>3. q \in Pieces(T)
    <3>1. s \in Seq(T)
      BY <1>1
    <3> QED BY <3>1, SplitIsPieces, Zenon
  <2> HIDE DEF p, q, e
  <2>6. Len(p) = 2 /\ p[1] = e
    BY <1>1, <2>1
  <2>4. Len(q) >= 2 /\ q[1] = e
    BY <2>2, <2>3, <2>6 DEF Keeps, Pieces
  <2>5. Len(q) > 1
    BY <2>3, <2>4 DEF Pieces
  <2> QED BY <1>1, <1>2, <2>4, <2>5, Zenon DEF FirstPiece, q, s, e
<1>3. CASE c # m
  <2> DEFINE Q == {x \in Seq(T) : FirstPiece(Split(o \o x, m), o, m)}
  <2>1. <<>> \in Q
    <3>1. o \o <<>> = o /\ FreeOf(o, m) /\ <<>> \in Seq(T)
      BY <1>3 DEF FreeOf, o
    <3>2. Split(o, m) = <<o>>
      BY <1>1, <3>1, SplitFree, Zenon
    <3>3. <<o>>[1] = o
      OBVIOUS
    <3> QED BY <1>1, <1>3, <3>1, <3>2, <3>3, Zenon DEF FirstPiece
  <2>2. \A x \in Seq(T), d \in T : x \in Q => Append(x, d) \in Q
    <3> SUFFICES ASSUME NEW x \in Seq(T), NEW d \in T, FirstPiece(Split(o \o x, m), o, m)
                 PROVE  Append(x, d) \in Seq(T) /\ FirstPiece(Split(o \o Append(x, d), m), o, m)
      BY Zenon
    <3> DEFINE p == Split(o \o x, m)
               q == Longer(p, d, m)
    <3>1. o \o x \in Seq(T) /\ o \o Append(x, d) = Append(o \o x, d) /\ Append(x, d) \in Seq(T)
      BY <1>1
    <3>2. Grows(o \o x, d, m)
      BY <3>1, SplitMore, Zenon
    <3>3. p \in Pieces(T) /\ p[1] # <<>> /\ p[1][1] = c
      BY <1>1, <1>3, <3>1, SplitIsPieces, Zenon DEF FirstPiece
    <3> HIDE DEF p
    <3>4. p \in Seq(Seq(T)) /\ Len(p) \in Nat \ {0} /\ p[1] \in Seq(T) /\ p[Len(p)] \in Seq(T)
      BY <3>3 DEF Pieces
    <3>5. q[1] # <<>> /\ q[1][1] = c
      <4>1. CASE d = m
        <5>1. q = Append(p, <<>>)
          BY <4>1, Zenon DEF Longer
        <5>2. q[1] = p[1]
          BY <3>4, <5>1
        <5> QED BY <3>3, <5>2, Zenon
      <4>2. CASE d # m
        <5> DEFINE l == Append(p[Len(p)], d)
        <5>1. q = [p EXCEPT ![Len(p)] = l]
          BY <4>2 DEF Longer
        <5>2. l \in Seq(T) /\ (Len(p) = 1 => l # <<>> /\ l[1] = c)
          BY <3>3, <3>4
        <5> HIDE DEF l, q
        <5>3. q[1] = IF Len(p) = 1 THEN l ELSE p[1]
          BY <3>4, <5>1
        <5> QED BY <3>3, <5>2, <5>3, Zenon
      <4> QED BY <4>1, <4>2
    <3> HIDE DEF q
    <3>6. FirstPiece(q, o, m)
      BY <1>1, <1>3, <3>5, Zenon DEF FirstPiece
    <3> QED BY <3>1, <3>2, <3>6, Zenon DEF Grows, q, p
  <2>3. t \in Q
    <3> HIDE DEF Q
    <3> QED BY <2>1, <2>2, SymbolBySymbol, Zenon
  <2> HIDE DEF Q
  <2>4. FirstPiece(Split(o \o t, m), o, m)
    BY <2>3, Zenon DEF Q
  <2> QED BY <1>1, <2>4, Zenon DEF FirstPiece, s
<1> QED BY <1>2, <1>3

LEMMA TrimBehind ==
  ASSUME NEW T, Space \in T, NEW s \in Seq(T)
  PROVE  Trim(s \o <<Space>>) = Trim(s)
<1> DEFINE o == <<Space>>
           x == s \o o
<1>1. /\ o \in Seq(T) /\ x \in Seq(T) /\ Len(x) = Len(s) + 1 /\ x[Len(s) + 1] = Space
      /\ \A k \in 1 .. Len(s) : x[k] = s[k]
  OBVIOUS
<1> HIDE DEF x
<1>2. Kept(x) = Kept(s)
  BY <1>1 DEF Kept
<1>3. CASE Blank(s)
  <2>1. Blank(x)
    BY <1>1, <1>3 DEF Blank
  <2>2. Trim(s) = <<>> /\ Trim(x) = <<>>
    BY <1>1, <1>3, <2>1, TrimBlank, Zenon
  <2> QED BY <2>2, Zenon DEF x
<1>4. CASE ~Blank(s)
  <2>1. PICK i, j : Ends(s, i, j)
    BY <1>4, HasEnds, Zenon
  <2>2. i \in Kept(x) /\ j \in Kept(x) /\ \A k \in Kept(x) : i <= k /\ k <= j
    BY <1>2, <2>1, Zenon DEF Ends
  <2>5. Ends(x, i, j)
    BY <1>1, <2>2, EndsAre, Zenon
  <2>3. i \in 1 .. Len(s) /\ j \in 1 .. Len(s)
    BY <2>1, Zenon DEF Ends, Kept
  <2>4. SubSeq(x, i, j) = SubSeq(s, i, j)
    BY <2>3 DEF x
  <2> QED BY <2>1, <2>4, <2>5, Zenon DEF Ends, x
<1> QED BY <1>3, <1>4

-----------------------------------------------------------------------------
(* Until: where a text is stopped.                                         *)

StopsAtOne(s, k, stops, u) ==
  /\ u \in k .. Len(s) + 1 /\ (u > Len(s) \/ s[u] \in stops)
  /\ \A j \in k .. u - 1 : s[j] \notin stops

LEMMA UntilStops ==
  ASSUME NEW T, NEW s \in Seq(T), NEW k \in 1 .. Len(s) + 1, NEW stops
  PROVE  StopsAtOne(s, k, stops, Until(s, k, stops))
<1> DEFINE Q == {j \in k .. Len(s) + 1 : j > Len(s) \/ s[j] \in stops}
<1>1. Q \subseteq Nat /\ Len(s) + 1 \in Q /\ Q \subseteq Int /\ Len(s) \in Nat
  OBVIOUS
<1>2. PICK u \in Q : \A j \in Q : u <= j
  <2> HIDE DEF Q
  <2>1. Q # {}
    BY <1>1
  <2> QED BY <1>1, <2>1, LeastNat, Zenon
<1>3. IsMin(Q, u)
  <2> HIDE DEF Q
  <2> QED BY <1>1, <1>2, MinIs
<1>4. Until(s, k, stops) = u
  BY <1>3, Zenon DEF IsMin, Until
<1>5. \A j \in k .. u - 1 : s[j] \notin stops
  <2> SUFFICES ASSUME NEW j \in k .. u - 1, s[j] \in stops PROVE FALSE
    OBVIOUS
  <2>1. j \in Q /\ j < u /\ j \in Nat /\ u \in Nat
    BY <1>2
  <2> HIDE DEF Q
  <2> QED BY <1>2, <2>1
<1>6. u \in k .. Len(s) + 1 /\ (u > Len(s) \/ s[u] \in stops)
  BY <1>2
<1> QED BY <1>4, <1>5, <1>6, Zenon DEF StopsAtOne

LEMMA StopsAt ==
  ASSUME NEW T, NEW s \in Seq(T), NEW k \in 1 .. Len(s) + 1, NEW stops,
         NEW u, StopsAtOne(s, k, stops, u)
  PROVE  Until(s, k, stops) = u
<1> DEFINE w == Until(s, k, stops)
<1>1. StopsAtOne(s, k, stops, w)
  BY UntilStops, Zenon
<1> HIDE DEF w
<1>2. u \in Nat /\ w \in Nat /\ ~(u < w) /\ ~(w < u)
  <2>1. u \in k .. Len(s) + 1 /\ w \in k .. Len(s) + 1 /\ Len(s) \in Nat
    BY <1>1 DEF StopsAtOne
  <2>2. ASSUME u < w PROVE FALSE
    <3>1. u \in k .. w - 1 /\ ~(u > Len(s))
      BY <2>1, <2>2
    <3> QED BY <1>1, <3>1, Zenon DEF StopsAtOne
  <2>3. ASSUME w < u PROVE FALSE
    <3>1. w \in k .. u - 1 /\ ~(w > Len(s))
      BY <2>1, <2>3
    <3> QED BY <1>1, <3>1, Zenon DEF StopsAtOne
  <2> QED BY <2>1, <2>2, <2>3
<1> QED BY <1>2 DEF w

-----------------------------------------------------------------------------
(* An action, as it is written and as it is read.                          *)

Signs == {Space, "::", "=", "*", ".*", "#", "^", "$"} \cup KnownMethods \cup Kinds

ActionsOver(T) == [kind : Seq(T), arg : Seq(T)]

(* What is left of a text when blanks are trimmed, and of any part of it.  *)
LEMMA TrimIsFree ==
  ASSUME NEW T, NEW s \in Seq(T), NEW m, FreeOf(s, m)
  PROVE  FreeOf(Trim(s), m)
<1>1. IsTrim(s, Trim(s), T)
  BY TrimIs, Zenon
<1> QED BY <1>1, Zenon DEF IsTrim, FreeOf

LEMMA PartIsFree ==
  ASSUME NEW T, NEW s \in Seq(T), NEW m, FreeOf(s, m), NEW i \in 1 .. Len(s) + 1, NEW j \in 0 .. Len(s)
  PROVE  SubSeq(s, i, j) \in Seq(T) /\ FreeOf(SubSeq(s, i, j), m)
<1> DEFINE t == SubSeq(s, i, j)
<1>1. t \in Seq(T) /\ \A k \in 1 .. Len(t) : t[k] = s[i + k - 1] /\ i + k - 1 \in 1 .. Len(s)
  OBVIOUS
<1> HIDE DEF t
<1>2. FreeOf(t, m)
  BY <1>1, Zenon DEF FreeOf
<1> QED BY <1>1, <1>2 DEF t

(* What any part of a rule is read as.                                     *)
Plain(a, T) == a \in ActionsOver(T) /\ Trimmed(a.arg) /\ FreeOf(a.arg, "::")

LEMMA ActionIsPlain ==
  ASSUME NEW T, NEW s \in Seq(T), FreeOf(s, "::")
  PROVE  Plain(Action(s), T)
<1> DEFINE u == Until(s, 1, {"="})
           k == Trim(SubSeq(s, 1, u - 1))
           g == Trim(SubSeq(s, u + 1, Len(s)))
<1>1. Action(s) = [kind |-> k, arg |-> g]
  BY Zenon DEF Action
<1>2. u \in 1 .. Len(s) + 1 /\ Len(s) \in Nat
  <2>1. 1 \in 1 .. Len(s) + 1
    OBVIOUS
  <2>2. StopsAtOne(s, 1, {"="}, u)
    BY <2>1, UntilStops, Zenon
  <2> HIDE DEF u
  <2> QED BY <2>2 DEF StopsAtOne
<1> HIDE DEF u
<1>3. k \in Seq(T)
  <2>1. SubSeq(s, 1, u - 1) \in Seq(T)
    BY <1>2
  <2> QED BY <2>1, TrimIs, Zenon DEF IsTrim
<1>4. g \in Seq(T) /\ Trimmed(g) /\ FreeOf(g, "::")
  <2> DEFINE x == SubSeq(s, u + 1, Len(s))
  <2>1. x \in Seq(T) /\ FreeOf(x, "::")
    <3>1. CASE u \in 1 .. Len(s)
      <4>1. u + 1 \in 1 .. Len(s) + 1 /\ Len(s) \in 0 .. Len(s)
        BY <1>2, <3>1
      <4> QED BY <4>1, PartIsFree, Zenon
    <3>2. CASE u = Len(s) + 1
      <4>1. x \in Seq(T) /\ Len(x) = 0
        BY <1>2, <3>2
      <4> HIDE DEF x
      <4> QED BY <4>1 DEF FreeOf
    <3> QED BY <1>2, <3>1, <3>2
  <2> HIDE DEF x
  <2>2. IsTrim(x, Trim(x), T) /\ FreeOf(Trim(x), "::")
    BY <2>1, TrimIs, TrimIsFree, Zenon
  <2> QED BY <2>2, Zenon DEF IsTrim, x
<1> HIDE DEF k, g
<1> QED BY <1>1, <1>3, <1>4 DEF Plain, ActionsOver

LEMMA TrimStays ==
  ASSUME NEW T, NEW t \in Seq(T), Trimmed(t)
  PROVE  Trim(t) = t
<1> DEFINE e == <<>>
<1>1. e \in Seq(T) /\ Blank(e) /\ e \o t \o e = t
  BY DEF Blank
<1> HIDE DEF e
<1>2. TrimsTo(e, t, e)
  BY <1>1, TrimOf, Zenon
<1> QED BY <1>1, <1>2, Zenon DEF TrimsTo

Said(a) == a.kind \o (IF a.arg = <<>> THEN <<>> ELSE <<"=">> \o a.arg)

(* What Known asks of an action.                                           *)
KnownKind(a) == a.kind \in {<<k>> : k \in Kinds}

SaidIs(a, s, T) ==
  /\ s \in Seq(T) /\ s # <<>> /\ Trimmed(s) /\ FreeOf(s, "::")
  /\ Action(s) = a

LEMMA ActionReads ==
  ASSUME NEW T, Signs \subseteq T, NEW a, Plain(a, T), KnownKind(a)
  PROVE  SaidIs(a, Said(a), T)
<1>1. PICK K \in Kinds : a.kind = <<K>>
  BY Zenon DEF KnownKind
<1>2. K \in T /\ "=" \in T /\ K # Space /\ K # "=" /\ K # "::" /\ "=" # Space /\ "=" # "::"
  BY DEF Kinds, Signs, Space
<1>3. a \in ActionsOver(T) /\ a.arg \in Seq(T) /\ Trimmed(a.arg) /\ FreeOf(a.arg, "::")
  BY DEF Plain, ActionsOver
<1>4. a = [kind |-> <<K>>, arg |-> a.arg]
  BY <1>1, <1>3 DEF ActionsOver
<1> DEFINE g == a.arg
           o == <<K>>
<1>5. o \in Seq(T) /\ Len(o) = 1 /\ o[1] = K /\ o # <<>>
  BY <1>2
<1>6. Trim(o) = o
  <2>1. Trimmed(o)
    BY <1>2, <1>5 DEF Trimmed
  <2> QED BY <1>5, <2>1, TrimStays, Zenon
<1>7. CASE g = <<>>
  <2>1. Said(a) = o
    <3>1. o \o <<>> = o
      BY <1>5
    <3> QED BY <1>1, <1>7, <3>1, Zenon DEF Said
  <2>2. StopsAtOne(o, 1, {"="}, 2)
    BY <1>2, <1>5 DEF StopsAtOne
  <2>3. Until(o, 1, {"="}) = 2
    <3>1. 1 \in 1 .. Len(o) + 1
      BY <1>5
    <3> QED BY <1>5, <2>2, <3>1, StopsAt, Zenon
  <2>4. SubSeq(o, 1, 2 - 1) = o /\ SubSeq(o, 2 + 1, Len(o)) = <<>>
    <3> HIDE DEF o
    <3>1. SubSeq(o, 1, 1) = o
      BY <1>5
    <3> DEFINE w == SubSeq(o, 3, 1)
    <3>2. w \in Seq(T) /\ Len(w) = 0
      BY <1>5
    <3>3. w = <<>>
      <4> HIDE DEF w
      <4> QED BY <3>2
    <3>4. 2 - 1 = 1 /\ 2 + 1 = 3
      OBVIOUS
    <3> QED BY <1>5, <3>1, <3>3, <3>4, Zenon
  <2>5. Trim(<<>>) = <<>>
    <3>1. <<>> \in Seq(T) /\ Trimmed(<<>>)
      BY DEF Trimmed
    <3> QED BY <3>1, TrimStays, Zenon
  <2>6. Action(o) = a
    BY <1>4, <1>6, <1>7, <2>3, <2>4, <2>5, Zenon DEF Action
  <2>7. Trimmed(o) /\ FreeOf(o, "::")
    BY <1>2, <1>5 DEF Trimmed, FreeOf
  <2> HIDE DEF o
  <2> QED BY <1>5, <2>1, <2>6, <2>7, Zenon DEF SaidIs
<1>8. CASE g # <<>>
  <2> HIDE DEF g
  <2> DEFINE s == <<K, "=">> \o g
  <2>1. g \in Seq(T) /\ Trimmed(g) /\ FreeOf(g, "::")
    BY <1>3, Zenon DEF g
  <2>2. Said(a) = s
    <3>1. <<K>> \o (<<"=">> \o g) = s
      BY <1>2, <2>1
    <3> QED BY <1>1, <1>8, <3>1, Zenon DEF Said, g
  <2>3. /\ s \in Seq(T) /\ Len(s) = Len(g) + 2 /\ s[1] = K /\ s[2] = "=" /\ s # <<>>
        /\ \A k \in 1 .. Len(g) : s[k + 2] = g[k]
        /\ SubSeq(s, 1, 1) = <<K>> /\ SubSeq(s, 3, Len(s)) = g /\ Len(g) \in Nat /\ Len(g) # 0
    <3>1. /\ s \in Seq(T) /\ Len(s) = Len(g) + 2 /\ s[1] = K /\ s[2] = "="
          /\ \A k \in 1 .. Len(g) : s[k + 2] = g[k]
          /\ Len(g) \in Nat /\ Len(g) # 0
      BY <1>2, <1>8, <2>1
    <3> HIDE DEF s
    <3>2. s # <<>>
      BY <3>1
    <3>4. SubSeq(s, 1, 1) = <<K>>
      <4> DEFINE w == SubSeq(s, 1, 1)
      <4>1. w \in Seq(T) /\ Len(w) = 1 /\ w[1] = K
        BY <3>1
      <4>2. w = <<K>>
        <5> HIDE DEF w
        <5> QED BY <4>1
      <4> QED BY <4>2
    <3>3. SubSeq(s, 3, Len(s)) = g
      BY <2>1, <3>1
    <3> QED BY <3>1, <3>2, <3>3, <3>4, Zenon
  <2> HIDE DEF s
  <2>4. StopsAtOne(s, 1, {"="}, 2)
    BY <1>2, <2>3 DEF StopsAtOne
  <2>5. Until(s, 1, {"="}) = 2
    <3>1. 1 \in 1 .. Len(s) + 1
      BY <2>3
    <3> QED BY <2>3, <2>4, <3>1, StopsAt, Zenon
  <2>6. Trim(g) = g
    BY <2>1, TrimStays, Zenon
  <2>7. 2 - 1 = 1 /\ 2 + 1 = 3
    OBVIOUS
  <2>8. Action(s) = a
    BY <1>4, <1>6, <2>3, <2>5, <2>6, <2>7, Zenon DEF Action, g
  <2>9. Trimmed(s)
    <3>1. g[Len(g)] # Space /\ Len(g) \in 1 .. Len(g)
      BY <1>8, <2>1, <2>3 DEF Trimmed
    <3>2. s[Len(s)] = g[Len(g)]
      BY <2>3, <3>1
    <3> QED BY <1>2, <2>3, <3>1, <3>2, Zenon DEF Trimmed
  <2>10. FreeOf(s, "::")
    <3>1. \A k \in 1 .. Len(s) : k = 1 \/ k = 2 \/ (k - 2 \in 1 .. Len(g) /\ (k - 2) + 2 = k)
      BY <2>3
    <3> QED BY <1>2, <2>1, <2>3, <3>1 DEF FreeOf
  <2> QED BY <2>2, <2>3, <2>8, <2>9, <2>10, Zenon DEF SaidIs
<1> QED BY <1>7, <1>8, Zenon

-----------------------------------------------------------------------------
(* The loop that collects the actions.                                     *)

PlainActions(T) == {a \in ActionsOver(T) : Plain(a, T)}

LEMMA WithActionIs ==
  ASSUME NEW T, NEW p \in Seq(PlainActions(T)), NEW part \in Seq(T), FreeOf(part, "::")
  PROVE  WithAction(p, part) \in Seq(PlainActions(T))
<1> DEFINE s == Trim(part)
           a == Action(s)
<1>1. s \in Seq(T) /\ FreeOf(s, "::")
  BY TrimIs, TrimIsFree, Zenon DEF IsTrim
<1> HIDE DEF s
<1>2. a \in PlainActions(T)
  <2>1. Plain(a, T)
    BY <1>1, ActionIsPlain, Zenon
  <2> HIDE DEF a
  <2> QED BY <2>1, Zenon DEF PlainActions, Plain
<1> HIDE DEF a
<1>3. Append(p, a) \in Seq(PlainActions(T))
  BY <1>2
<1> QED BY <1>3, Zenon DEF WithAction, s, a

Collects(g, parts) ==
  /\ Actions(parts) = g[Len(parts) - 1]
  /\ g[0] = <<>>
  /\ \A n \in 1 .. Len(parts) - 1 : g[n] = WithAction(g[n - 1], parts[n + 1])

LEMMA ActionsRun ==
  ASSUME NEW T, NEW parts \in Pieces(T), AllFree(parts, "::")
  PROVE  \E g : Collects(g, parts) /\ \A n \in 0 .. Len(parts) - 1 : g[n] \in Seq(PlainActions(T))
<1> DEFINE N == Len(parts) - 1
           A == Seq(PlainActions(T))
           h == [n \in 1 .. N |-> [p \in A |-> WithAction(p, parts[n + 1])]]
           Next1(g) == [n \in 0 .. N |-> IF n = 0 THEN <<>> ELSE WithAction(g[n - 1], parts[n + 1])]
           k == CHOOSE f : f = Next1(f)
<1>1. N \in Nat /\ <<>> \in A
  BY DEF Pieces
<1>2. \A n \in 1 .. N, p \in A : WithAction(p, parts[n + 1]) \in A
  <2>1. \A n \in 1 .. N : n + 1 \in 1 .. Len(parts) /\ parts[n + 1] \in Seq(T)
    BY DEF Pieces
  <2>2. \A n \in 1 .. N : FreeOf(parts[n + 1], "::")
    BY <2>1, Zenon DEF AllFree
  <2> HIDE DEF N
  <2> QED BY <2>1, <2>2, WithActionIs, Zenon
<1>3. h \in [1 .. N -> [A -> A]]
  <2> HIDE DEF A, N
  <2> QED BY <1>2, Zenon
<1>4. \A n \in 1 .. N, p \in A : h[n][p] = WithAction(p, parts[n + 1])
  <2> HIDE DEF A, N
  <2> QED BY Zenon
<1> HIDE DEF h
<1>5. PICK g : Runs(g, A, N, <<>>, h)
  <2> HIDE DEF A, N
  <2> QED BY <1>1, <1>3, LoopRuns, Zenon
<1>6. \A n \in 1 .. N : n - 1 \in 0 .. N /\ n # 0 /\ n \in 0 .. N
  BY <1>1
<1>7. g = Next1(g)
  <2>1. g = [n \in 0 .. N |-> g[n]]
    BY <1>5, Zenon DEF Runs
  <2>2. \A n \in 0 .. N : n # 0 => n \in 1 .. N
    BY <1>1
  <2>3. \A n \in 0 .. N : g[n] = IF n = 0 THEN <<>> ELSE WithAction(g[n - 1], parts[n + 1])
    <3> SUFFICES ASSUME NEW n \in 0 .. N
                 PROVE  g[n] = IF n = 0 THEN <<>> ELSE WithAction(g[n - 1], parts[n + 1])
      OBVIOUS
    <3> HIDE DEF A, N
    <3>1. CASE n = 0
      BY <1>5, <3>1, Zenon DEF Runs
    <3>2. CASE n # 0
      <4>1. n \in 1 .. N /\ n - 1 \in 0 .. N
        BY <1>6, <2>2, <3>2, Zenon
      <4>2. g[n - 1] \in A /\ g[n] = h[n][g[n - 1]]
        BY <1>5, <4>1, Zenon DEF Runs
      <4> QED BY <1>4, <3>2, <4>1, <4>2, Zenon
    <3> QED BY <3>1, <3>2, Zenon
  <2> HIDE DEF A, N
  <2> QED BY <2>1, <2>3, Zenon
<1>8. k = Next1(k)
  <2> HIDE DEF Next1
  <2> QED BY <1>7, Zenon
<1>9. Actions(parts) = k[N]
  BY Zenon DEF Actions
<1> HIDE DEF k, A
<1>10. N \in 0 .. N /\ 0 \in 0 .. N
  BY <1>1
<1>11. /\ k[0] = <<>>
       /\ \A n \in 1 .. N : k[n] = WithAction(k[n - 1], parts[n + 1])
  <2>1. \A n \in 0 .. N : k[n] = IF n = 0 THEN <<>> ELSE WithAction(k[n - 1], parts[n + 1])
    <3> HIDE DEF N
    <3> QED BY <1>8, Zenon
  <2> HIDE DEF N
  <2> QED BY <1>6, <1>10, <2>1, Zenon
<1>12. \A n \in 0 .. N : k[n] = g[n]
  <2> DEFINE S == {n \in 0 .. N : k[n] = g[n]}
  <2>1. 0 \in S
    BY <1>5, <1>10, <1>11, Zenon DEF Runs
  <2>2. \A n \in 0 .. N - 1 : n \in S => n + 1 \in S
    <3> SUFFICES ASSUME NEW n \in 0 .. N - 1, k[n] = g[n] PROVE n + 1 \in 0 .. N /\ k[n + 1] = g[n + 1]
      OBVIOUS
    <3> DEFINE m == n + 1
    <3>1. m \in 1 .. N /\ m - 1 = n /\ m \in 0 .. N /\ n \in 0 .. N
      BY <1>1
    <3> HIDE DEF m, N
    <3>2. g[n] \in A /\ g[m] = h[m][g[n]] /\ k[m] = WithAction(k[n], parts[m + 1])
      BY <1>5, <1>11, <3>1, Zenon DEF Runs
    <3> QED BY <1>4, <3>1, <3>2, Zenon DEF m
  <2> HIDE DEF S, N
  <2>3. \A n \in 0 .. N : n \in S
    BY <1>1, <2>1, <2>2, UpTo, Zenon
  <2> QED BY <2>3, Zenon DEF S
<1>13. \A n \in 0 .. N : k[n] \in A
  <2> HIDE DEF N
  <2> QED BY <1>5, <1>12, Zenon DEF Runs
<1>14. Collects(k, parts)
  BY <1>9, <1>11, Zenon DEF Collects
<1> QED BY <1>13, <1>14, Zenon DEF A

LEMMA ActionsArePlain ==
  ASSUME NEW T, NEW parts \in Pieces(T), AllFree(parts, "::")
  PROVE  Actions(parts) \in Seq(PlainActions(T))
<1>1. PICK g : Collects(g, parts) /\ \A n \in 0 .. Len(parts) - 1 : g[n] \in Seq(PlainActions(T))
  BY ActionsRun, Zenon
<1>2. Len(parts) - 1 \in 0 .. Len(parts) - 1
  BY DEF Pieces
<1> QED BY <1>1, <1>2, Zenon DEF Collects

-----------------------------------------------------------------------------
(* Parts that say the actions of a sequence are read as that sequence.     *)

Says(parts, x) ==
  /\ Len(parts) = Len(x) + 1
  /\ \A n \in 1 .. Len(x) : Trim(parts[n + 1]) = Said(x[n])

LEMMA ActionsRead ==
  ASSUME NEW T, Signs \subseteq T, NEW parts \in Pieces(T), AllFree(parts, "::"),
         NEW x \in Seq(PlainActions(T)), Known(x), Says(parts, x)
  PROVE  Actions(parts) = x
<1> DEFINE N == Len(x)
<1>1. PICK g : Collects(g, parts) /\ \A n \in 0 .. Len(parts) - 1 : g[n] \in Seq(PlainActions(T))
  BY ActionsRun, Zenon
<1>2. N \in Nat /\ Len(parts) - 1 = N /\ Len(parts) = N + 1
  BY DEF Says
<1>3. /\ Actions(parts) = g[N] /\ g[0] = <<>>
      /\ \A n \in 1 .. N : g[n] = WithAction(g[n - 1], parts[n + 1])
      /\ \A n \in 0 .. N : g[n] \in Seq(PlainActions(T))
  BY <1>1, <1>2, Zenon DEF Collects
<1>4. \A n \in 1 .. N : WithAction(g[n - 1], parts[n + 1]) = Append(g[n - 1], x[n])
  <2> SUFFICES ASSUME NEW n \in 1 .. N
               PROVE  WithAction(g[n - 1], parts[n + 1]) = Append(g[n - 1], x[n])
    OBVIOUS
  <2>1. x[n] \in PlainActions(T)
    OBVIOUS
  <2>2. Plain(x[n], T) /\ KnownKind(x[n])
    BY <2>1, Zenon DEF PlainActions, Known, KnownKind
  <2>3. SaidIs(x[n], Said(x[n]), T)
    BY <2>2, ActionReads, Zenon
  <2>4. Trim(parts[n + 1]) = Said(x[n])
    BY Zenon DEF Says
  <2> QED BY <2>3, <2>4, Zenon DEF SaidIs, WithAction
<1> DEFINE Q == {n \in 0 .. N : g[n] = SubSeq(x, 1, n)}
<1>5. 0 \in Q
  <2> DEFINE w == SubSeq(x, 1, 0)
  <2>1. w \in Seq(PlainActions(T)) /\ Len(w) = 0
    OBVIOUS
  <2>2. w = <<>>
    <3> HIDE DEF w
    <3> QED BY <2>1
  <2>3. 0 \in 0 .. N
    BY <1>2
  <2> QED BY <1>3, <2>2, <2>3, Zenon
<1>6. \A n \in 0 .. N - 1 : n \in Q => n + 1 \in Q
  <2> SUFFICES ASSUME NEW n \in 0 .. N - 1, g[n] = SubSeq(x, 1, n)
               PROVE  n + 1 \in 0 .. N /\ g[n + 1] = SubSeq(x, 1, n + 1)
    OBVIOUS
  <2>1. n + 1 \in 1 .. N /\ (n + 1) - 1 = n /\ n + 1 \in 0 .. N
    BY <1>2
  <2>2. g[n + 1] = Append(g[n], x[n + 1])
    BY <1>3, <1>4, <2>1, Zenon
  <2>3. Append(SubSeq(x, 1, n), x[n + 1]) = SubSeq(x, 1, n + 1)
    BY <2>1
  <2> QED BY <2>1, <2>2, <2>3, Zenon
<1>7. g[N] = SubSeq(x, 1, N)
  <2>1. N \in 0 .. N
    BY <1>2
  <2> HIDE DEF Q, N
  <2>2. \A n \in 0 .. N : n \in Q
    BY <1>2, <1>5, <1>6, UpTo, Zenon
  <2> QED BY <2>1, <2>2, Zenon DEF Q
<1>8. SubSeq(x, 1, N) = x
  OBVIOUS
<1> QED BY <1>3, <1>7, <1>8, Zenon

(* Among the actions are those of all parts that are not blank.            *)
LEMMA AllActionsKnown ==
  ASSUME NEW T, NEW parts \in Pieces(T), AllFree(parts, "::"), Known(Actions(parts)),
         NEW j \in 2 .. Len(parts), Trim(parts[j]) # <<>>
  PROVE  KnownKind(Action(Trim(parts[j])))
<1> DEFINE N == Len(parts) - 1
           P(p) == Trim(p) # <<>> => KnownKind(Action(Trim(p)))
<1>1. PICK g : Collects(g, parts) /\ \A n \in 0 .. Len(parts) - 1 : g[n] \in Seq(PlainActions(T))
  BY ActionsRun, Zenon
<1>2. N \in Nat /\ j - 1 \in 1 .. N /\ (j - 1) + 1 = j
  BY DEF Pieces
<1>3. /\ Actions(parts) = g[N] /\ g[0] = <<>>
      /\ \A n \in 1 .. N : g[n] = WithAction(g[n - 1], parts[n + 1])
      /\ \A n \in 0 .. N : g[n] \in Seq(PlainActions(T))
  BY <1>1, Zenon DEF Collects
<1>4. ASSUME NEW p \in Seq(PlainActions(T)), NEW part, Known(WithAction(p, part))
      PROVE  Known(p) /\ P(part)
  <2>1. CASE Trim(part) = <<>>
    BY <1>4, <2>1, Zenon DEF WithAction
  <2>2. CASE Trim(part) # <<>>
    <3> DEFINE a == Action(Trim(part))
               q == Append(p, a)
    <3>1. WithAction(p, part) = q
      BY <2>2, Zenon DEF WithAction
    <3> HIDE DEF a
    <3>2. /\ q[Len(p) + 1] = a /\ Len(p) + 1 \in 1 .. Len(q)
          /\ \A k \in 1 .. Len(p) : k \in 1 .. Len(q) /\ q[k] = p[k]
      OBVIOUS
    <3> HIDE DEF q
    <3>3. \A k \in 1 .. Len(q) : KnownKind(q[k])
      BY <1>4, <3>1, Zenon DEF Known, KnownKind
    <3>4. KnownKind(a)
      BY <3>2, <3>3, Zenon
    <3>5. \A k \in 1 .. Len(p) : KnownKind(p[k])
      BY <3>2, <3>3, Zenon
    <3> QED BY <3>4, <3>5, Zenon DEF Known, KnownKind, a
  <2> QED BY <2>1, <2>2, Zenon
<1> DEFINE R == {n \in 0 .. N : Known(g[n]) => \A i \in 1 .. n : P(parts[i + 1])}
<1> HIDE DEF P
<1>5. 0 \in R
  <2>1. \A i \in 1 .. 0 : FALSE
    OBVIOUS
  <2>2. 0 \in 0 .. N
    BY <1>2
  <2> QED BY <2>1, <2>2, Zenon
<1>6. \A n \in 0 .. N - 1 : n \in R => n + 1 \in R
  <2> SUFFICES ASSUME NEW n \in 0 .. N - 1, Known(g[n]) => \A i \in 1 .. n : P(parts[i + 1]),
                      Known(g[n + 1])
               PROVE  n + 1 \in 0 .. N /\ \A i \in 1 .. n + 1 : P(parts[i + 1])
    BY <1>2
  <2>1. n + 1 \in 1 .. N /\ (n + 1) - 1 = n /\ n + 1 \in 0 .. N /\ n \in 0 .. N
    BY <1>2
  <2>2. g[n + 1] = WithAction(g[n], parts[(n + 1) + 1]) /\ g[n] \in Seq(PlainActions(T))
    BY <1>3, <2>1, Zenon
  <2>3. Known(g[n]) /\ P(parts[(n + 1) + 1])
    BY <1>4, <2>2, Zenon
  <2>4. \A i \in 1 .. n + 1 : i \in 1 .. n \/ i = n + 1
    OBVIOUS
  <2> QED BY <2>1, <2>3, <2>4, Zenon
<1>7. Known(g[N]) => \A i \in 1 .. N : P(parts[i + 1])
  <2>1. N \in 0 .. N
    BY <1>2
  <2> HIDE DEF R, N
  <2>2. \A n \in 0 .. N : n \in R
    BY <1>2, <1>5, <1>6, UpTo, Zenon
  <2> QED BY <2>1, <2>2, Zenon DEF R
<1>8. P(parts[(j - 1) + 1])
  BY <1>2, <1>3, <1>7, Zenon
<1> QED BY <1>2, <1>8, Zenon DEF P

-----------------------------------------------------------------------------
(* The loop that writes the actions.                                       *)

Joined3(u, v, w) == (u \o v) \o w

LEMMA Associates ==
  ASSUME NEW T, NEW u \in Seq(T), NEW v \in Seq(T), NEW w \in Seq(T)
  PROVE  u \o (v \o w) = Joined3(u, v, w) /\ Joined3(u, v, w) \in Seq(T)
BY DEF Joined3

LEMMA ActionTextIs ==
  ASSUME NEW T, Signs \subseteq T, NEW a \in PlainActions(T)
  PROVE  ActionText(a) = <<Space, "::", Space>> \o Said(a) /\ ActionText(a) \in Seq(T)
<1> DEFINE g == IF a.arg = <<>> THEN <<>> ELSE <<"=">> \o a.arg
           o == <<Space, "::", Space>>
<1>1. a.kind \in Seq(T) /\ a.arg \in Seq(T)
  BY DEF PlainActions, ActionsOver
<1>2. "=" \in T /\ Space \in T /\ "::" \in T
  BY DEF Signs
<1>3. g \in Seq(T) /\ o \in Seq(T)
  BY <1>1, <1>2
<1> HIDE DEF g, o
<1>4. o \o (a.kind \o g) = Joined3(o, a.kind, g) /\ Joined3(o, a.kind, g) \in Seq(T)
  BY <1>1, <1>3, Associates, Zenon
<1> QED BY <1>4, Zenon DEF ActionText, Said, Joined3, g, o

Writes(g, x) ==
  /\ ActionsText(x) = g[Len(x)]
  /\ g[0] = <<>>
  /\ \A n \in 1 .. Len(x) : g[n] = g[n - 1] \o ActionText(x[n])

LEMMA TextRuns ==
  ASSUME NEW T, Signs \subseteq T, NEW x \in Seq(PlainActions(T))
  PROVE  \E g : Writes(g, x) /\ \A n \in 0 .. Len(x) : g[n] \in Seq(T)
<1> DEFINE N == Len(x)
           A == Seq(T)
           h == [n \in 1 .. N |-> [s \in A |-> s \o ActionText(x[n])]]
           Next1(g) == [n \in 0 .. N |-> IF n = 0 THEN <<>> ELSE g[n - 1] \o ActionText(x[n])]
           k == CHOOSE f : f = Next1(f)
<1>1. N \in Nat /\ <<>> \in A
  OBVIOUS
<1>2. \A n \in 1 .. N, s \in A : s \o ActionText(x[n]) \in A
  <2>1. \A n \in 1 .. N : x[n] \in PlainActions(T)
    OBVIOUS
  <2>2. \A n \in 1 .. N : ActionText(x[n]) \in Seq(T)
    BY <2>1, ActionTextIs, Zenon
  <2>3. \A s \in Seq(T), t \in Seq(T) : s \o t \in Seq(T)
    OBVIOUS
  <2> HIDE DEF N
  <2> QED BY <2>2, <2>3, Zenon
<1>3. h \in [1 .. N -> [A -> A]]
  <2> HIDE DEF A, N
  <2> QED BY <1>2, Zenon
<1>4. \A n \in 1 .. N, s \in A : h[n][s] = s \o ActionText(x[n])
  <2> HIDE DEF A, N
  <2> QED BY Zenon
<1> HIDE DEF h
<1>5. PICK g : Runs(g, A, N, <<>>, h)
  <2> HIDE DEF A, N
  <2> QED BY <1>1, <1>3, LoopRuns, Zenon
<1>6. \A n \in 1 .. N : n - 1 \in 0 .. N /\ n # 0 /\ n \in 0 .. N
  BY <1>1
<1>7. g = Next1(g)
  <2>1. g = [n \in 0 .. N |-> g[n]]
    BY <1>5, Zenon DEF Runs
  <2>2. \A n \in 0 .. N : n # 0 => n \in 1 .. N
    BY <1>1
  <2>3. \A n \in 0 .. N : g[n] = IF n = 0 THEN <<>> ELSE g[n - 1] \o ActionText(x[n])
    <3> SUFFICES ASSUME NEW n \in 0 .. N
                 PROVE  g[n] = IF n = 0 THEN <<>> ELSE g[n - 1] \o ActionText(x[n])
      OBVIOUS
    <3> HIDE DEF A, N
    <3>1. CASE n = 0
      BY <1>5, <3>1, Zenon DEF Runs
    <3>2. CASE n # 0
      <4>1. n \in 1 .. N /\ n - 1 \in 0 .. N
        BY <1>6, <2>2, <3>2, Zenon
      <4>2. g[n - 1] \in A /\ g[n] = h[n][g[n - 1]]
        BY <1>5, <4>1, Zenon DEF Runs
      <4> QED BY <1>4, <3>2, <4>1, <4>2, Zenon
    <3> QED BY <3>1, <3>2, Zenon
  <2> HIDE DEF A, N
  <2> QED BY <2>1, <2>3, Zenon
<1>8. k = Next1(k)
  <2> HIDE DEF Next1
  <2> QED BY <1>7, Zenon
<1>9. ActionsText(x) = k[N]
  BY Zenon DEF ActionsText
<1> HIDE DEF k, A
<1>10. N \in 0 .. N /\ 0 \in 0 .. N
  BY <1>1
<1>11. /\ k[0] = <<>>
       /\ \A n \in 1 .. N : k[n] = k[n - 1] \o ActionText(x[n])
  <2>1. \A n \in 0 .. N : k[n] = IF n = 0 THEN <<>> ELSE k[n - 1] \o ActionText(x[n])
    <3> HIDE DEF N
    <3> QED BY <1>8, Zenon
  <2> HIDE DEF N
  <2> QED BY <1>6, <1>10, <2>1, Zenon
<1>12. \A n \in 0 .. N : k[n] \in A
  <2> DEFINE S == {n \in 0 .. N : k[n] \in A}
  <2>1. 0 \in S
    BY <1>1, <1>10, <1>11, Zenon
  <2>2. \A n \in 0 .. N - 1 : n \in S => n + 1 \in S
    <3> SUFFICES ASSUME NEW n \in 0 .. N - 1, k[n] \in A PROVE n + 1 \in 0 .. N /\ k[n + 1] \in A
      OBVIOUS
    <3> DEFINE m == n + 1
    <3>1. m \in 1 .. N /\ m - 1 = n /\ m \in 0 .. N /\ n \in 0 .. N
      BY <1>1
    <3> HIDE DEF m, N
    <3> QED BY <1>2, <1>11, <3>1, Zenon DEF m
  <2> HIDE DEF S, N
  <2>3. \A n \in 0 .. N : n \in S
    BY <1>1, <2>1, <2>2, UpTo, Zenon
  <2> QED BY <2>3, Zenon DEF S
<1>13. Writes(k, x)
  BY <1>9, <1>11, Zenon DEF Writes
<1> QED BY <1>12, <1>13, Zenon DEF A

-----------------------------------------------------------------------------
(* A head and the actions behind it are taken apart as they were put       *)
(* together.                                                               *)

WellWritten(s, head, x, n, T) ==
  LET p == Split(s, "::")
  IN /\ s \in Seq(T) /\ s # <<>> /\ Trimmed(s) /\ s[1] = head[1]
     /\ Len(p) = n + 1 /\ Trim(p[1]) = head
     /\ \A k \in 1 .. n : Trim(p[k + 1]) = Said(x[k])

LEMMA TrimAhead ==
  ASSUME NEW T, Space \in T, NEW t \in Seq(T), Trimmed(t)
  PROVE  Trim(<<Space>> \o t) = t
<1> DEFINE e == <<>>
           o == <<Space>>
<1>1. e \in Seq(T) /\ o \in Seq(T) /\ Blank(e) /\ Blank(o) /\ (o \o t) \o e = o \o t
  BY DEF Blank
<1> HIDE DEF e, o
<1>2. TrimsTo(o, t, e)
  BY <1>1, TrimOf, Zenon
<1> QED BY <1>1, <1>2, Zenon DEF TrimsTo, o

(* The text between two signs of separation.                               *)
LEMMA Behind ==
  ASSUME NEW T, Space \in T, "::" \in T, NEW s \in Seq(T), NEW t \in Seq(T)
  PROVE  s \o (<<Space, "::", Space>> \o t) = Append(s \o <<Space>>, "::") \o (<<Space>> \o t)
OBVIOUS

Joins(s, t) ==
  /\ s \o t # <<>> /\ (s \o t)[1] = s[1] /\ (s \o t)[Len(s \o t)] = t[Len(t)]

LEMMA JoinsEnds ==
  ASSUME NEW T, NEW s \in Seq(T), NEW t \in Seq(T), s # <<>>, t # <<>>
  PROVE  Joins(s, t)
<1> DEFINE x == s \o t
<1>1. Len(s) \in Nat \ {0} /\ Len(t) \in Nat \ {0}
  OBVIOUS
<1>2. /\ x \in Seq(T) /\ Len(x) = Len(s) + Len(t) /\ x[1] = s[1] /\ x[Len(s) + Len(t)] = t[Len(t)]
  BY <1>1
<1>3. x # <<>>
  <2> HIDE DEF x
  <2> QED BY <1>1, <1>2
<1> QED BY <1>2, <1>3, Zenon DEF Joins

LEMMA WrittenOn ==
  ASSUME NEW T, Signs \subseteq T, NEW x \in Seq(PlainActions(T)), Known(x), NEW head,
         NEW n \in 0 .. Len(x) - 1, NEW s, WellWritten(s, head, x, n, T)
  PROVE  WellWritten(s \o ActionText(x[n + 1]), head, x, n + 1, T)
<1> DEFINE a == x[n + 1]
           b == Said(a)
           o == <<Space>>
           y == s \o ActionText(a)
           t == o \o b
           p == Split(s, "::")
           q == Extended(p, o)
           r == Append(q, t)
<1>1. Space \in T /\ "::" \in T /\ Space # "::"
  BY DEF Signs, Space
<1>2. a \in PlainActions(T) /\ n + 1 \in 1 .. Len(x)
  OBVIOUS
<1> HIDE DEF a
<1>3. Plain(a, T) /\ KnownKind(a)
  BY <1>2, Zenon DEF PlainActions, Known, KnownKind, a
<1>4. b \in Seq(T) /\ b # <<>> /\ Trimmed(b) /\ FreeOf(b, "::")
  BY <1>3, ActionReads, Zenon DEF SaidIs
<1>5. s \in Seq(T) /\ s # <<>> /\ Trimmed(s) /\ s[1] = head[1] /\ Len(p) = n + 1 /\ Trim(p[1]) = head
      /\ \A k \in 1 .. n : Trim(p[k + 1]) = Said(x[k])
  BY Zenon DEF WellWritten
<1>6. ActionText(a) = <<Space, "::", Space>> \o b /\ ActionText(a) \in Seq(T)
  BY <1>2, ActionTextIs, Zenon
<1> HIDE DEF b
<1>7. o \in Seq(T) /\ FreeOf(o, "::") /\ s \o o \in Seq(T)
  BY <1>1, <1>5 DEF FreeOf
<1>8. y = Append(s \o o, "::") \o t
  BY <1>1, <1>4, <1>5, <1>6, Behind, Zenon
<1>9. t \in Seq(T) /\ FreeOf(t, "::")
  <2>1. /\ t \in Seq(T) /\ Len(t) = Len(b) + 1 /\ t[1] = Space
        /\ \A k \in 1 .. Len(t) : k # 1 => t[k] = b[k - 1] /\ k - 1 \in 1 .. Len(b)
    BY <1>1, <1>4
  <2> HIDE DEF t
  <2> QED BY <1>1, <1>4, <2>1, Zenon DEF FreeOf
<1>10. p \in Pieces(T)
  BY <1>5, SplitIsPieces, Zenon
<1> HIDE DEF o
<1>11. Split(s \o o, "::") = q
  BY <1>5, <1>7, SplitExtends, Zenon DEF Extends
<1>12. Split(y, "::") = r
  <2>1. EndsPiece(s \o o, t, "::")
    BY <1>1, <1>7, <1>9, SplitCloses, Zenon
  <2> QED BY <1>8, <1>11, <2>1, Zenon DEF EndsPiece
<1> HIDE DEF p
<1>13. /\ q \in Pieces(T) /\ Len(q) = n + 1 /\ q[Len(p)] = p[Len(p)] \o o
       /\ \A k \in 1 .. Len(p) - 1 : q[k] = p[k]
  BY <1>5, <1>7, <1>10, ExtendedWhat, Zenon DEF ExtendedIs
<1>14. Trim(q[Len(p)]) = Trim(p[Len(p)])
  <2>1. p[Len(p)] \in Seq(T)
    BY <1>10 DEF Pieces
  <2> QED BY <1>1, <1>13, <2>1, TrimBehind, Zenon DEF o
<1>15. \A k \in 1 .. n + 1 : Trim(q[k]) = Trim(p[k])
  <2>1. \A k \in 1 .. n + 1 : k = Len(p) \/ k \in 1 .. Len(p) - 1
    BY <1>5
  <2> QED BY <1>13, <1>14, <2>1, Zenon
<1> HIDE DEF q
<1>16. Len(r) = n + 2 /\ r[n + 2] = t /\ \A k \in 1 .. n + 1 : r[k] = q[k]
  BY <1>13 DEF Pieces
<1>17. Trim(t) = b
  BY <1>1, <1>4, TrimAhead, Zenon DEF o
<1> HIDE DEF r, t
<1>18. Trim(r[1]) = head /\ \A k \in 1 .. n + 1 : Trim(r[k + 1]) = Said(x[k])
  <2>1. 1 \in 1 .. n + 1
    OBVIOUS
  <2>2. Trim(r[1]) = head
    BY <1>5, <1>15, <1>16, <2>1, Zenon
  <2>3. ASSUME NEW k \in 1 .. n + 1 PROVE Trim(r[k + 1]) = Said(x[k])
    <3>1. CASE k = n + 1
      <4>1. k + 1 = n + 2
        BY <3>1
      <4> QED BY <1>16, <1>17, <3>1, <4>1, Zenon DEF b, a
    <3>2. CASE k # n + 1
      <4>1. k \in 1 .. n /\ k + 1 \in 1 .. n + 1
        BY <3>2
      <4> QED BY <1>5, <1>15, <1>16, <4>1, Zenon
    <3> QED BY <3>1, <3>2
  <2> QED BY <2>2, <2>3
<1>19. y \in Seq(T) /\ y # <<>> /\ Trimmed(y) /\ y[1] = head[1]
  <2> DEFINE c == <<Space, "::", Space>>
  <2>1. c \in Seq(T) /\ c # <<>>
    BY <1>1
  <2> HIDE DEF c
  <2>2. Joins(c, b)
    BY <1>4, <2>1, JoinsEnds, Zenon
  <2>3. ActionText(a) # <<>> /\ ActionText(a)[Len(ActionText(a))] = b[Len(b)]
    BY <1>6, <2>2, Zenon DEF Joins, c
  <2>4. Joins(s, ActionText(a))
    BY <1>5, <1>6, <2>3, JoinsEnds, Zenon
  <2>5. y # <<>> /\ y[1] = s[1] /\ y[Len(y)] = b[Len(b)]
    BY <2>3, <2>4, Zenon DEF Joins
  <2>6. b[Len(b)] # Space /\ s[1] # Space
    BY <1>4, <1>5, Zenon DEF Trimmed
  <2>7. Trimmed(y)
    BY <2>5, <2>6, Zenon DEF Trimmed
  <2>8. y \in Seq(T)
    BY <1>5, <1>6
  <2> QED BY <1>5, <2>5, <2>7, <2>8, Zenon
<1>20. n + 2 = (n + 1) + 1
  OBVIOUS
<1> HIDE DEF y
<1> QED BY <1>12, <1>16, <1>18, <1>19, <1>20, Zenon DEF WellWritten, y, a

LEMMA AllWritten ==
  ASSUME NEW T, Signs \subseteq T, NEW x \in Seq(PlainActions(T)), Known(x),
         NEW head \in Seq(T), head # <<>>, Trimmed(head), FreeOf(head, "::")
  PROVE  WellWritten(head \o ActionsText(x), head, x, Len(x), T)
<1> DEFINE N == Len(x)
<1>1. PICK g : Writes(g, x) /\ \A n \in 0 .. N : g[n] \in Seq(T)
  BY TextRuns, Zenon
<1> DEFINE S == {n \in 0 .. N : WellWritten(head \o g[n], head, x, n, T)}
<1>2. N \in Nat /\ N \in 0 .. N /\ 0 \in 0 .. N
  OBVIOUS
<1>3. 0 \in S
  <2>1. head \o g[0] = head
    <3>1. head \o <<>> = head
      OBVIOUS
    <3> QED BY <1>1, <3>1, Zenon DEF Writes
  <2>2. Split(head, "::") = <<head>>
    BY SplitFree, Zenon
  <2> DEFINE q == <<head>>
  <2>3. Len(q) = 0 + 1 /\ q[1] = head
    OBVIOUS
  <2> HIDE DEF q
  <2>4. Trim(head) = head
    BY TrimStays, Zenon
  <2>5. \A k \in 1 .. 0 : FALSE
    OBVIOUS
  <2>6. WellWritten(head, head, x, 0, T)
    BY <2>2, <2>3, <2>4, <2>5, Zenon DEF WellWritten, q
  <2> QED BY <1>2, <2>1, <2>6, Zenon
<1>4. \A n \in 0 .. N - 1 : n \in S => n + 1 \in S
  <2> SUFFICES ASSUME NEW n \in 0 .. N - 1, WellWritten(head \o g[n], head, x, n, T)
               PROVE  n + 1 \in 0 .. N /\ WellWritten(head \o g[n + 1], head, x, n + 1, T)
    BY Zenon
  <2>1. n + 1 \in 1 .. N /\ (n + 1) - 1 = n /\ n + 1 \in 0 .. N /\ n \in 0 .. N
    OBVIOUS
  <2>2. g[n + 1] = g[n] \o ActionText(x[n + 1]) /\ g[n] \in Seq(T)
    BY <1>1, <2>1, Zenon DEF Writes
  <2>3. ActionText(x[n + 1]) \in Seq(T)
    <3>1. x[n + 1] \in PlainActions(T)
      BY <2>1
    <3> QED BY <3>1, ActionTextIs, Zenon
  <2>4. head \o g[n + 1] = (head \o g[n]) \o ActionText(x[n + 1])
    <3>1. head \o (g[n] \o ActionText(x[n + 1])) = Joined3(head, g[n], ActionText(x[n + 1]))
      BY <2>2, <2>3, Associates, Zenon
    <3> QED BY <2>2, <3>1, Zenon DEF Joined3
  <2>5. WellWritten((head \o g[n]) \o ActionText(x[n + 1]), head, x, n + 1, T)
    BY WrittenOn, Zenon
  <2> QED BY <2>1, <2>4, <2>5, Zenon
<1>5. N \in S
  <2> HIDE DEF S, N
  <2>1. \A n \in 0 .. N : n \in S
    BY <1>2, <1>3, <1>4, UpTo, Zenon
  <2> QED BY <1>2, <2>1, Zenon
<1>6. WellWritten(head \o g[N], head, x, N, T)
  BY <1>5, Zenon
<1> QED BY <1>1, <1>6, Zenon DEF Writes

-----------------------------------------------------------------------------
(* What stands before the actions: the methods and the address.            *)

IsSpec(word) == word = <<"*">> \/ IsMethod(word) \/ IsMethodList(word)

LEMMA SpecBegins ==
  ASSUME NEW T, NEW m \in Seq(T), IsSpec(m)
  PROVE  m # <<>> /\ m[1] \in KnownMethods \cup {"*"}
<1>1. CASE m = <<"*">>
  BY <1>1
<1>2. CASE IsMethod(m)
  <2>1. Len(m) = 1 /\ m[1] \in KnownMethods
    BY <1>2, Zenon DEF IsMethod
  <2> QED BY <2>1
<1>3. CASE IsMethodList(m)
  <2>1. "," \in ToSet(m) /\ \A w \in ToSet(Split(m, ",")) : IsMethod(w)
    BY <1>3, Zenon DEF IsMethodList
  <2>2. PICK k \in DOMAIN m : m[k] = ","
    BY <2>1, Zenon DEF ToSet
  <2>3. "," \in T /\ m # <<>> /\ m[1] \in T /\ Tail(m) \in Seq(T) /\ m = <<m[1]>> \o Tail(m)
    <3>1. k \in 1 .. Len(m) /\ Len(m) \in Nat /\ m[k] \in T
      OBVIOUS
    <3>2. m # <<>>
      BY <3>1
    <3>3. m[1] \in T /\ Tail(m) \in Seq(T) /\ m = <<m[1]>> \o Tail(m)
      BY <3>2
    <3> QED BY <2>2, <3>1, <3>2, <3>3, Zenon
  <2> DEFINE p == Split(m, ",")
  <2>4. FirstPiece(p, m, ",")
    BY <2>3, SplitBegins, Zenon
  <2>5. p \in Pieces(T)
    BY SplitIsPieces, Zenon
  <2>6. IsMethod(p[1])
    <3>1. 1 \in DOMAIN p
      <4> HIDE DEF p
      <4> QED BY <2>5 DEF Pieces
    <3>2. p[1] \in ToSet(p)
      BY <3>1, Zenon DEF ToSet
    <3> QED BY <2>1, <3>2, Zenon
  <2> HIDE DEF p
  <2>7. Len(p[1]) = 1 /\ p[1][1] \in KnownMethods
    BY <2>6, Zenon DEF IsMethod
  <2>8. p[1] # <<>>
    BY <2>7
  <2> QED BY <2>3, <2>4, <2>7, <2>8, Zenon DEF FirstPiece
<1> QED BY <1>1, <1>2, <1>3, Zenon DEF IsSpec

(* The first word of a text.                                               *)
WordEnd(h) == Until(h, 1, {Space})

MethodEndIs(h) ==
  MethodEnd(h) = IF WordEnd(h) <= Len(h) /\ IsSpec(SubSeq(h, 1, WordEnd(h) - 1)) THEN WordEnd(h) ELSE 1

LEMMA MethodEndWhat ==
  ASSUME NEW h
  PROVE  MethodEndIs(h)
BY Zenon DEF MethodEnd, MethodEndIs, WordEnd, IsSpec

LEMMA WordEnds ==
  ASSUME NEW T, NEW h \in Seq(T)
  PROVE  StopsAtOne(h, 1, {Space}, WordEnd(h))
<1>1. 1 \in 1 .. Len(h) + 1
  OBVIOUS
<1> QED BY <1>1, UntilStops, Zenon DEF WordEnd

Heads(h, m, u) == Method(h) = m /\ Address(h) = u

LEMMA HeadReads ==
  ASSUME NEW T, Space \in T, NEW m \in Seq(T), NEW u \in Seq(T), IsSpec(m), FreeOf(m, Space),
         u # <<>>, Trimmed(u)
  PROVE  Heads(Joined3(m, <<Space>>, u), m, u)
<1> DEFINE h == Joined3(m, <<Space>>, u)
           k == Len(m) + 1
<1>1. /\ h \in Seq(T) /\ Len(h) = Len(m) + 1 + Len(u) /\ h[k] = Space
      /\ \A j \in 1 .. Len(m) : h[j] = m[j]
      /\ Len(m) \in Nat /\ Len(u) \in Nat
  BY DEF Joined3
<1>2. SubSeq(h, 1, Len(m)) = m
  BY DEF Joined3
<1>3. SubSeq(h, k, Len(h)) = <<Space>> \o u
  BY DEF Joined3
<1> HIDE DEF h
<1>4. StopsAtOne(h, 1, {Space}, k)
  <2>1. \A j \in 1 .. k - 1 : j \in 1 .. Len(m)
    BY <1>1
  <2>2. k \in 1 .. Len(h) + 1
    BY <1>1
  <2> QED BY <1>1, <2>1, <2>2 DEF StopsAtOne, FreeOf
<1>5. WordEnd(h) = k
  <2>1. 1 \in 1 .. Len(h) + 1
    BY <1>1
  <2> QED BY <1>1, <1>4, <2>1, StopsAt, Zenon DEF WordEnd
<1>6. Len(m) # 0 /\ Len(u) # 0
  BY SpecBegins
<1>7. k <= Len(h) /\ k - 1 = Len(m) /\ k # 1
  BY <1>1, <1>6
<1>8. MethodEnd(h) = k
  BY <1>2, <1>5, <1>7, MethodEndWhat, Zenon DEF MethodEndIs
<1> HIDE DEF k
<1>9. Method(h) = m
  BY <1>2, <1>7, <1>8, Zenon DEF Method
<1>10. Trim(<<Space>> \o u) = u
  BY TrimAhead, Zenon
<1>11. Address(h) = u
  BY <1>3, <1>8, <1>10, Zenon DEF Address
<1> QED BY <1>9, <1>11, Zenon DEF Heads, h

(* What is read of any head.                                               *)
SpecRead(m, T) ==
  m \in Seq(T) /\ IsSpec(m) /\ FreeOf(m, Space) /\ FreeOf(m, "::")

AddressRead(u, T) == u \in Seq(T) /\ u # <<>> /\ Trimmed(u) /\ FreeOf(u, "::")

Alone(c, T) ==
  <<c>> \in Seq(T) /\ <<c>> # <<>> /\ Trimmed(<<c>>) /\ FreeOf(<<c>>, Space) /\ FreeOf(<<c>>, "::")

LEMMA OneIs ==
  ASSUME NEW T, Signs \subseteq T
  PROVE  Alone("*", T) /\ Alone(".*", T)
<1>1. ASSUME NEW c \in T, c # Space, c # "::" PROVE Alone(c, T)
  <2> DEFINE o == <<c>>
  <2>1. o \in Seq(T) /\ Len(o) = 1 /\ o[1] = c /\ o # <<>>
    OBVIOUS
  <2> HIDE DEF o
  <2>2. Trimmed(o) /\ FreeOf(o, Space) /\ FreeOf(o, "::")
    BY <1>1, <2>1 DEF Trimmed, FreeOf
  <2> QED BY <2>1, <2>2, Zenon DEF Alone, o
<1>2. "*" \in T /\ ".*" \in T
  BY Zenon DEF Signs
<1>3. "*" # Space /\ ".*" # Space /\ "*" # "::" /\ ".*" # "::"
  BY DEF Space
<1> QED BY <1>1, <1>2, <1>3, Zenon

LEMMA MethodRead ==
  ASSUME NEW T, Signs \subseteq T, NEW h \in Seq(T), FreeOf(h, "::")
  PROVE  SpecRead(Method(h), T)
<1> DEFINE k == WordEnd(h)
           w == SubSeq(h, 1, k - 1)
<1>1. k \in 1 .. Len(h) + 1 /\ \A j \in 1 .. k - 1 : h[j] # Space
  BY WordEnds DEF StopsAtOne
<1> HIDE DEF k
<1>2. CASE MethodEnd(h) = 1
  <2> DEFINE o == <<"*">>
  <2>1. o \in Seq(T) /\ FreeOf(o, Space) /\ FreeOf(o, "::")
    BY OneIs, Zenon DEF Alone
  <2>2. Method(h) = o
    BY <1>2, Zenon DEF Method
  <2>3. IsSpec(o)
    BY Zenon DEF IsSpec
  <2> HIDE DEF o
  <2> QED BY <2>1, <2>2, <2>3, Zenon DEF SpecRead
<1>3. CASE MethodEnd(h) # 1
  <2>1. MethodEnd(h) = k /\ k <= Len(h) /\ IsSpec(w)
    BY <1>3, MethodEndWhat, Zenon DEF MethodEndIs, k
  <2>2. /\ w \in Seq(T) /\ Len(w) = k - 1
        /\ \A j \in 1 .. Len(w) : w[j] = h[j] /\ j \in 1 .. Len(h) /\ j \in 1 .. k - 1
    BY <1>1, <2>1
  <2>3. Method(h) = w
    BY <1>3, <2>1, Zenon DEF Method
  <2> HIDE DEF w
  <2>4. FreeOf(w, Space) /\ FreeOf(w, "::")
    BY <1>1, <2>2, Zenon DEF FreeOf
  <2> QED BY <2>1, <2>2, <2>3, <2>4, Zenon DEF SpecRead
<1> QED BY <1>2, <1>3, Zenon

LEMMA AddressReads ==
  ASSUME NEW T, Signs \subseteq T, NEW h \in Seq(T), FreeOf(h, "::")
  PROVE  AddressRead(Address(h), T)
<1> DEFINE k == MethodEnd(h)
           s == SubSeq(h, k, Len(h))
           u == Trim(s)
<1>1. k \in 1 .. Len(h) + 1 /\ Len(h) \in Nat
  <2>1. WordEnd(h) \in 1 .. Len(h) + 1 /\ 1 \in 1 .. Len(h) + 1 /\ Len(h) \in Nat
    BY WordEnds DEF StopsAtOne
  <2> QED BY <2>1, MethodEndWhat, Zenon DEF MethodEndIs
<1> HIDE DEF k
<1>2. s \in Seq(T) /\ FreeOf(s, "::")
  <2>1. Len(h) \in 0 .. Len(h)
    BY <1>1
  <2> QED BY <1>1, <2>1, PartIsFree, Zenon
<1> HIDE DEF s
<1>3. u \in Seq(T) /\ Trimmed(u) /\ FreeOf(u, "::")
  BY <1>2, TrimIs, TrimIsFree, Zenon DEF IsTrim
<1> DEFINE o == <<".*">>
<1>4. o \in Seq(T) /\ o # <<>> /\ Trimmed(o) /\ FreeOf(o, "::")
  BY OneIs, Zenon DEF Alone
<1>5. Address(h) = IF u = <<>> THEN o ELSE u
  BY Zenon DEF Address, s, k
<1> HIDE DEF u, o
<1> DEFINE a == Address(h)
<1>6. a = u \/ a = o
  BY <1>5, Zenon
<1>7. u # <<>> => AddressRead(u, T)
  BY <1>3, Zenon DEF AddressRead
<1>8. AddressRead(o, T)
  BY <1>4, Zenon DEF AddressRead
<1>9. CASE u = <<>>
  BY <1>5, <1>8, <1>9, Zenon
<1>10. CASE u # <<>>
  BY <1>5, <1>7, <1>10, Zenon
<1> QED BY <1>9, <1>10, Zenon

-----------------------------------------------------------------------------
(* A rule that was read is read again as it was.                           *)

ReadsAs(line, h, x) ==
  ParseRule(line) =
    IF Trim(line) = <<>> \/ Trim(line)[1] = "#" THEN Refused("empty rule")
    ELSE IF ~Known(x) THEN Refused("unknown action")
    ELSE IF x = <<>> THEN Refused("rule has no actions")
    ELSE IF BadPattern(Address(h)) THEN Refused("regexp")
    ELSE [err |-> "none", method |-> Method(h), url |-> Address(h), actions |-> x]

LEMMA ParseReads ==
  ASSUME NEW line
  PROVE  ReadsAs(line, Trim(Split(Trim(line), "::")[1]), Actions(Split(Trim(line), "::")))
BY Zenon DEF ReadsAs, ParseRule

IsRule(r, T) ==
  /\ SpecRead(r.method, T) /\ AddressRead(r.url, T) /\ ~BadPattern(r.url)
  /\ r.actions \in Seq(PlainActions(T)) /\ r.actions # <<>> /\ Known(r.actions)
  /\ r = [err |-> "none", method |-> r.method, url |-> r.url, actions |-> r.actions]

(* What the parts of a line are.                                           *)
Parted(parts, T) ==
  /\ parts \in Pieces(T) /\ AllFree(parts, "::")
  /\ Trim(parts[1]) \in Seq(T) /\ Trimmed(Trim(parts[1])) /\ FreeOf(Trim(parts[1]), "::")

LEMMA LineParts ==
  ASSUME NEW T, NEW line \in Seq(T)
  PROVE  Parted(Split(Trim(line), "::"), T)
<1> DEFINE s == Trim(line)
           p == Split(s, "::")
<1>1. s \in Seq(T)
  BY TrimIs, Zenon DEF IsTrim
<1> HIDE DEF s
<1>2. p \in Pieces(T) /\ AllFree(p, "::")
  BY <1>1, SplitIsPieces, SplitIsFree, Zenon
<1> HIDE DEF p
<1>3. p[1] \in Seq(T) /\ 1 \in 1 .. Len(p)
  BY <1>2 DEF Pieces
<1>4. FreeOf(p[1], "::")
  BY <1>2, <1>3, Zenon DEF AllFree
<1>5. Trim(p[1]) \in Seq(T) /\ Trimmed(Trim(p[1])) /\ FreeOf(Trim(p[1]), "::")
  BY <1>3, <1>4, TrimIs, TrimIsFree, Zenon DEF IsTrim
<1> QED BY <1>2, <1>5, Zenon DEF Parted, p, s

LEMMA RuleRead ==
  ASSUME NEW T, Signs \subseteq T, NEW line \in Seq(T), ParseRule(line).err = "none"
  PROVE  IsRule(ParseRule(line), T)
<1> DEFINE parts == Split(Trim(line), "::")
           h == Trim(parts[1])
           x == Actions(parts)
           r == ParseRule(line)
           a == Address(h)
           m == Method(h)
<1>1. Parted(parts, T)
  BY LineParts, Zenon
<1>2. ReadsAs(line, h, x)
  BY ParseReads, Zenon
<1> HIDE DEF parts
<1>3. x \in Seq(PlainActions(T))
  BY <1>1, ActionsArePlain, Zenon DEF Parted
<1>4. SpecRead(m, T) /\ AddressRead(a, T)
  BY <1>1, MethodRead, AddressReads, Zenon DEF Parted
<1> HIDE DEF h, x, r, m, a
<1>5. /\ Known(x) /\ x # <<>> /\ ~BadPattern(a)
      /\ r = [err |-> "none", method |-> m, url |-> a, actions |-> x]
  <2>1. r = IF Trim(line) = <<>> \/ Trim(line)[1] = "#" THEN [err |-> "empty rule"]
            ELSE IF ~Known(x) THEN [err |-> "unknown action"]
            ELSE IF x = <<>> THEN [err |-> "rule has no actions"]
            ELSE IF BadPattern(a) THEN [err |-> "regexp"]
            ELSE [err |-> "none", method |-> m, url |-> a, actions |-> x]
    BY <1>2, Zenon DEF ReadsAs, Refused, r, m, a
  <2>2. r.err = "none"
    BY Zenon DEF r
  <2> QED BY <2>1, <2>2
<1>6. r.method = m /\ r.url = a /\ r.actions = x
  BY <1>5
<1>7. r = [err |-> "none", method |-> r.method, url |-> r.url, actions |-> r.actions]
  BY <1>5, <1>6, Zenon
<1> QED BY <1>3, <1>4, <1>5, <1>6, <1>7, Zenon DEF IsRule, r

LEMMA JoinedFree ==
  ASSUME NEW T, NEW s \in Seq(T), NEW t \in Seq(T), NEW m, FreeOf(s, m), FreeOf(t, m)
  PROVE  FreeOf(s \o t, m)
<1> DEFINE x == s \o t
<1>1. /\ Len(x) = Len(s) + Len(t) /\ Len(s) \in Nat /\ Len(t) \in Nat
      /\ \A k \in 1 .. Len(s) : x[k] = s[k]
      /\ \A k \in 1 .. Len(t) : x[Len(s) + k] = t[k]
  OBVIOUS
<1> HIDE DEF x
<1>2. \A k \in 1 .. Len(x) :
        k \in 1 .. Len(s) \/ (k - Len(s) \in 1 .. Len(t) /\ Len(s) + (k - Len(s)) = k)
  BY <1>1
<1>3. FreeOf(x, m)
  BY <1>1, <1>2, Zenon DEF FreeOf
<1> QED BY <1>3 DEF x

LEMMA StringIs ==
  ASSUME NEW r, NEW T, Signs \subseteq T, IsRule(r, T)
  PROVE  String(r) = Joined3(r.method, <<Space>>, r.url) \o ActionsText(r.actions)
BY Zenon DEF String, Joined3

LEMMA StringIsText ==
  ASSUME NEW T, Signs \subseteq T, NEW r, IsRule(r, T)
  PROVE  String(r) \in Seq(T)
<1>1. r.method \in Seq(T) /\ r.url \in Seq(T) /\ <<Space>> \in Seq(T)
  BY DEF IsRule, SpecRead, AddressRead, Signs
<1>2. Joined3(r.method, <<Space>>, r.url) \in Seq(T)
  BY <1>1, Associates, Zenon
<1>3. PICK g : Writes(g, r.actions) /\ \A n \in 0 .. Len(r.actions) : g[n] \in Seq(T)
  BY TextRuns, Zenon DEF IsRule
<1>4. Len(r.actions) \in 0 .. Len(r.actions)
  BY DEF IsRule
<1>5. ActionsText(r.actions) \in Seq(T)
  BY <1>3, <1>4, Zenon DEF Writes
<1>6. \A s \in Seq(T), t \in Seq(T) : s \o t \in Seq(T)
  OBVIOUS
<1> QED BY <1>2, <1>5, <1>6, StringIs, Zenon

(* Rule.String writes a rule so that ParseRule reads the same one.         *)
THEOREM RuleReadsAgain ==
  ASSUME NEW T, Signs \subseteq T, NEW r, IsRule(r, T)
  PROVE  ParseRule(String(r)) = r
<1> DEFINE m == r.method
           u == r.url
           x == r.actions
           o == <<Space>>
           head == Joined3(m, o, u)
           s == String(r)
           parts == Split(s, "::")
<1>1. /\ m \in Seq(T) /\ IsSpec(m) /\ FreeOf(m, Space) /\ FreeOf(m, "::")
      /\ u \in Seq(T) /\ u # <<>> /\ Trimmed(u) /\ FreeOf(u, "::") /\ ~BadPattern(u)
      /\ x \in Seq(PlainActions(T)) /\ x # <<>> /\ Known(x)
      /\ r = [err |-> "none", method |-> m, url |-> u, actions |-> x]
  BY Zenon DEF IsRule, SpecRead, AddressRead
<1>2. Space \in T /\ "::" \in T /\ Space # "::" /\ Space # "#"
  BY DEF Signs, Space
<1>3. s = head \o ActionsText(x)
  BY StringIs, Zenon
<1> HIDE DEF m, u, x, s
<1>4. m # <<>> /\ m[1] # "#" /\ m[1] # Space
  <2>1. m # <<>> /\ m[1] \in KnownMethods \cup {"*"}
    BY <1>1, SpecBegins, Zenon
  <2> QED BY <2>1 DEF KnownMethods, Space
<1>5. head \in Seq(T) /\ head # <<>> /\ head[1] = m[1] /\ Trimmed(head) /\ FreeOf(head, "::")
  <2>1. o \in Seq(T) /\ Len(o) = 1 /\ o[1] = Space /\ o # <<>>
    BY <1>2
  <2> HIDE DEF o
  <2>2. o \o u \in Seq(T) /\ head = m \o (o \o u) /\ head \in Seq(T)
    <3>1. o \o u \in Seq(T)
      BY <1>1, <2>1
    <3> QED BY <1>1, <2>1, <3>1, Associates, Zenon
  <2>3. Joins(o, u)
    BY <1>1, <2>1, JoinsEnds, Zenon
  <2>4. Joins(m, o \o u)
    BY <1>1, <1>4, <2>2, <2>3, JoinsEnds, Zenon DEF Joins
  <2>5. head # <<>> /\ head[1] = m[1] /\ head[Len(head)] = u[Len(u)]
    BY <2>2, <2>3, <2>4, Zenon DEF Joins
  <2>6. u[Len(u)] # Space
    BY <1>1, Zenon DEF Trimmed
  <2>7. Trimmed(head)
    BY <1>4, <2>5, <2>6, Zenon DEF Trimmed
  <2>8. FreeOf(o, "::")
    BY <1>2, <2>1 DEF FreeOf
  <2>9. FreeOf(o \o u, "::")
    BY <1>1, <2>1, <2>8, JoinedFree, Zenon
  <2>10. FreeOf(m \o (o \o u), "::")
    BY <1>1, <2>2, <2>9, JoinedFree, Zenon
  <2> QED BY <2>2, <2>5, <2>7, <2>10, Zenon
<1>6. Heads(head, m, u)
  BY <1>1, <1>2, HeadReads, Zenon
<1> HIDE DEF head
<1>7. WellWritten(s, head, x, Len(x), T)
  BY <1>1, <1>3, <1>5, AllWritten, Zenon
<1>8. s \in Seq(T) /\ s # <<>> /\ s[1] # "#" /\ Trim(s) = s
  <2>1. s \in Seq(T) /\ s # <<>> /\ Trimmed(s) /\ s[1] = head[1]
    BY <1>7, Zenon DEF WellWritten
  <2> QED BY <1>4, <1>5, <2>1, TrimStays, Zenon
<1>9. Trim(parts[1]) = head /\ Says(parts, x)
  BY <1>7, Zenon DEF WellWritten, Says
<1>10. Actions(parts) = x
  <2>1. parts \in Pieces(T) /\ AllFree(parts, "::")
    BY <1>8, SplitIsPieces, SplitIsFree, Zenon
  <2> HIDE DEF parts
  <2> QED BY <1>1, <1>9, <2>1, ActionsRead, Zenon
<1>11. ReadsAs(s, head, x)
  <2>1. ReadsAs(s, Trim(Split(Trim(s), "::")[1]), Actions(Split(Trim(s), "::")))
    BY ParseReads, Zenon
  <2> QED BY <1>8, <1>9, <1>10, <2>1, Zenon
<1>12. ParseRule(s) = [err |-> "none", method |-> m, url |-> u, actions |-> x]
  BY <1>1, <1>6, <1>8, <1>11, Zenon DEF ReadsAs, Heads
<1> QED BY <1>1, <1>12, Zenon DEF s

-----------------------------------------------------------------------------
(* A rule for a flow.                                                      *)

(* What a text is split into does not depend on what follows the next sign *)
(* of separation.                                                          *)
PartsStay(p, parts) ==
  Len(parts) > Len(p) /\ \A k \in 1 .. Len(p) : Trim(parts[k]) = Trim(p[k])

LEMMA PartsBefore ==
  ASSUME NEW T, Space \in T, "::" \in T, NEW s \in Seq(T), NEW t \in Seq(T)
  PROVE  PartsStay(Split(s, "::"), Split(s \o (<<Space, "::", Space>> \o t), "::"))
<1> DEFINE o == <<Space>>
           e == <<>>
           p == Split(s, "::")
           q == Extended(p, o)
           r == Append(q, e)
           w == o \o t
           parts == Split(s \o (<<Space, "::", Space>> \o t), "::")
<1>1. Space # "::"
  BY DEF Space
<1>2. o \in Seq(T) /\ FreeOf(o, "::") /\ s \o o \in Seq(T) /\ e \in Seq(T) /\ FreeOf(e, "::")
      /\ w \in Seq(T) /\ Append(s \o o, "::") \o e = Append(s \o o, "::")
      /\ Append(s \o o, "::") \in Seq(T)
  BY <1>1 DEF FreeOf
<1>3. parts = Split(Append(s \o o, "::") \o w, "::")
  BY Behind, Zenon
<1>4. p \in Pieces(T)
  BY SplitIsPieces, Zenon
<1> HIDE DEF o, e, w, parts
<1>5. Split(s \o o, "::") = q
  BY <1>2, SplitExtends, Zenon DEF Extends
<1>6. Split(Append(s \o o, "::"), "::") = r
  <2>1. EndsPiece(s \o o, e, "::")
    BY <1>2, SplitCloses, Zenon
  <2> QED BY <1>2, <1>5, <2>1, Zenon DEF EndsPiece
<1>7. Keeps(r, parts)
  BY <1>2, <1>3, <1>6, SplitKeeps, Zenon
<1> HIDE DEF p
<1>8. /\ q \in Pieces(T) /\ Len(q) = Len(p) /\ q[Len(p)] = p[Len(p)] \o o
      /\ \A k \in 1 .. Len(p) - 1 : q[k] = p[k]
  BY <1>2, <1>4, ExtendedWhat, Zenon DEF ExtendedIs
<1>9. Trim(q[Len(p)]) = Trim(p[Len(p)])
  <2>1. p[Len(p)] \in Seq(T)
    BY <1>4 DEF Pieces
  <2> QED BY <1>8, <2>1, TrimBehind, Zenon DEF o
<1> HIDE DEF q
<1>10. Len(r) = Len(p) + 1 /\ \A k \in 1 .. Len(p) : r[k] = q[k] /\ k \in 1 .. Len(r) - 1
  BY <1>8 DEF Pieces
<1> HIDE DEF r
<1>11. \A k \in 1 .. Len(p) : parts[k] = q[k]
  BY <1>7, <1>10, Zenon DEF Keeps
<1>12. \A k \in 1 .. Len(p) : k = Len(p) \/ k \in 1 .. Len(p) - 1
  BY <1>4 DEF Pieces
<1>13. \A k \in 1 .. Len(p) : Trim(parts[k]) = Trim(p[k])
  BY <1>8, <1>9, <1>11, <1>12, Zenon
<1>14. Len(parts) > Len(p)
  <2>1. parts \in Pieces(T)
    <3>1. Append(s \o o, "::") \o w \in Seq(T)
      BY <1>2
    <3> QED BY <1>3, <3>1, SplitIsPieces, Zenon
  <2>2. Len(r) <= Len(parts) /\ Len(parts) \in Nat /\ Len(p) \in Nat
    BY <1>4, <1>7, <2>1 DEF Keeps, Pieces
  <2> QED BY <1>10, <2>2
<1> QED BY <1>13, <1>14, Zenon DEF PartsStay, p, parts

Quoted(url) == <<"^">> \o url \o <<"$">>

QuotedIs(url, T) ==
  /\ Quoted(url) \in Seq(T) /\ Quoted(url) # <<>> /\ Trimmed(Quoted(url))
  /\ Quoted(url)[Len(Quoted(url))] = "$"

LEMMA QuotedWhat ==
  ASSUME NEW T, Signs \subseteq T, NEW url \in Seq(T)
  PROVE  QuotedIs(url, T)
<1> DEFINE q == <<"^">> \o url \o <<"$">>
<1>1. "^" \in T /\ "$" \in T /\ "^" # Space /\ "$" # Space
  BY DEF Signs, Space
<1>2. q \in Seq(T) /\ Len(q) = Len(url) + 2 /\ Len(url) \in Nat /\ q[1] = "^" /\ q[Len(url) + 2] = "$"
  BY <1>1
<1> HIDE DEF q
<1>3. q # <<>>
  BY <1>2
<1> QED BY <1>1, <1>2, <1>3, Zenon DEF QuotedIs, Quoted, Trimmed, q

RuleForIs(f) == RuleFor(f) = Joined3(<<f.method>>, <<Space>>, Quoted(f.url))

LEMMA RuleForWhat ==
  ASSUME NEW T, Signs \subseteq T, NEW f, f.method \in T, f.url \in Seq(T)
  PROVE  RuleForIs(f)
<1> DEFINE m == f.method
           u == f.url
<1> HIDE DEF m, u
<1>1. m \in T /\ u \in Seq(T) /\ Space \in T /\ "^" \in T /\ "$" \in T
  BY DEF Signs, m, u
<1>2. <<m, Space, "^">> \o u \o <<"$">> = (<<m>> \o <<Space>>) \o (<<"^">> \o u \o <<"$">>)
  BY <1>1
<1> QED BY <1>2, Zenon DEF RuleForIs, RuleFor, Joined3, Quoted, m, u

(* The last part of an address with "::" in it, and the sign behind.       *)
Breaks(url, i, b) ==
  /\ i \in 1 .. Len(url) /\ url[i] = "::" /\ url = Append(SubSeq(url, 1, i - 1), "::") \o b
  /\ Len(b) = Len(url) - i /\ \A k \in 1 .. Len(b) : b[k] = url[i + k]

LEMMA LastBreak ==
  ASSUME NEW T, NEW url \in Seq(T), ~FreeOf(url, "::")
  PROVE  \E i : \E b \in Seq(T) : Breaks(url, i, b) /\ FreeOf(b, "::")
<1> DEFINE S == {k \in 1 .. Len(url) : url[k] = "::"}
<1>1. S # {} /\ S \subseteq 0 .. Len(url) /\ Len(url) \in Nat
  BY DEF FreeOf
<1>2. PICK i \in S : \A k \in S : i >= k
  <2> HIDE DEF S
  <2> QED BY <1>1, GreatestUpTo, Zenon
<1>3. i \in 1 .. Len(url) /\ url[i] = "::" /\ \A k \in 1 .. Len(url) : url[k] = "::" => i >= k
  BY <1>2
<1> DEFINE b == SubSeq(url, i + 1, Len(url))
<1>4. b \in Seq(T) /\ Len(b) = Len(url) - i /\ \A k \in 1 .. Len(b) : b[k] = url[i + k]
  BY <1>3
<1>5. url = Append(SubSeq(url, 1, i - 1), "::") \o b
  <2> DEFINE a == SubSeq(url, 1, i - 1)
             c == Append(a, "::")
             w == c \o b
  <2>1. a \in Seq(T) /\ Len(a) = i - 1 /\ \A k \in 1 .. i - 1 : a[k] = url[k]
    BY <1>3
  <2>2. "::" \in T /\ i \in Nat /\ Len(url) \in Nat
    BY <1>3
  <2> HIDE DEF a
  <2>3. c \in Seq(T) /\ Len(c) = i /\ \A k \in 1 .. i : c[k] = url[k]
    BY <1>3, <2>1, <2>2
  <2> HIDE DEF c, b
  <2>4. w \in Seq(T) /\ Len(w) = Len(url) /\ \A k \in 1 .. Len(w) : w[k] = url[k]
    <3>1. /\ w \in Seq(T) /\ Len(w) = Len(url)
          /\ \A k \in 1 .. i : w[k] = c[k]
          /\ \A k \in 1 .. Len(b) : w[i + k] = b[k]
      <4>1. JoinedOf(c, b, T)
        BY <1>4, <2>3, JoinedHas, Zenon
      <4>2. i + (Len(url) - i) = Len(url)
        BY <2>2
      <4> QED BY <1>4, <2>3, <4>1, <4>2, Zenon DEF JoinedOf
    <3>2. \A k \in 1 .. Len(url) : k \in 1 .. i \/ (k - i \in 1 .. Len(b) /\ i + (k - i) = k)
      BY <1>4, <2>2
    <3> HIDE DEF w
    <3>3. \A k \in 1 .. Len(url) : w[k] = url[k]
      <4>1. \A k \in 1 .. i : w[k] = url[k]
        BY <2>3, <3>1, Zenon
      <4>2. \A k \in 1 .. Len(b) : w[i + k] = url[i + k]
        BY <1>4, <3>1, Zenon
      <4> QED BY <3>2, <4>1, <4>2, Zenon
    <3> QED BY <3>1, <3>3, Zenon
  <2>5. w = url
    <3> HIDE DEF w
    <3> QED BY <2>4, SeqEqual
  <2> QED BY <2>5 DEF w, c, a
<1>6. FreeOf(b, "::")
  <2> SUFFICES ASSUME NEW k \in 1 .. Len(b), b[k] = "::" PROVE FALSE
    BY Zenon DEF FreeOf
  <2>1. i + k \in 1 .. Len(url) /\ ~(i >= i + k) /\ url[i + k] = "::"
    BY <1>3, <1>4
  <2> QED BY <1>3, <2>1, Zenon
<1> HIDE DEF b
<1> QED BY <1>3, <1>4, <1>5, <1>6, Zenon DEF Breaks

(* What stands behind the last "::" of a quoted address is read as a known *)
(* action only if it looks like one.                                       *)
LEMMA ReadsAsAction ==
  ASSUME NEW T, Signs \subseteq T, NEW b \in Seq(T), FreeOf(b, Space),
         KnownKind(Action(b \o <<"$">>))
  PROVE  Len(b) >= 2 /\ b[1] \in Kinds /\ b[2] = "="
<1> DEFINE s == b \o <<"$">>
           k == Until(s, 1, {"="})
           w == SubSeq(s, 1, k - 1)
<1>1. "$" \in T /\ "$" # Space /\ "$" # "=" /\ "$" \notin Kinds
  BY DEF Signs, Space, Kinds
<1>2. /\ s \in Seq(T) /\ Len(s) = Len(b) + 1 /\ s[Len(b) + 1] = "$" /\ Len(b) \in Nat
      /\ \A j \in 1 .. Len(b) : s[j] = b[j]
  BY <1>1
<1> HIDE DEF s
<1>3. StopsAtOne(s, 1, {"="}, k)
  <2>1. 1 \in 1 .. Len(s) + 1
    BY <1>2
  <2> QED BY <1>2, <2>1, UntilStops, Zenon
<1> HIDE DEF k
<1>4. k \in 1 .. Len(s) + 1 /\ (k <= Len(s) => s[k] = "=")
  BY <1>2, <1>3 DEF StopsAtOne
<1>5. w \in Seq(T) /\ Len(w) = k - 1 /\ \A j \in 1 .. Len(w) : w[j] = s[j] /\ j \in 1 .. Len(s)
  BY <1>2, <1>4
<1>6. FreeOf(s, Space)
  <2>1. \A j \in 1 .. Len(s) : j \in 1 .. Len(b) \/ j = Len(b) + 1
    BY <1>2
  <2> QED BY <1>1, <1>2, <2>1, Zenon DEF FreeOf
<1> HIDE DEF w
<1>7. Trim(w) = w
  <2>1. FreeOf(w, Space)
    BY <1>5, <1>6, Zenon DEF FreeOf
  <2>2. Trimmed(w)
    BY <1>5, <2>1 DEF FreeOf, Trimmed
  <2> QED BY <1>5, <2>2, TrimStays, Zenon
<1> DEFINE g == Trim(SubSeq(s, k + 1, Len(s)))
<1> HIDE DEF g
<1>8. Action(s).kind = w
  <2>1. Action(s) = [kind |-> w, arg |-> g]
    BY <1>7, Zenon DEF Action, k, w, g
  <2> QED BY <2>1
<1>9. PICK K \in Kinds : w = <<K>>
  BY <1>8, Zenon DEF KnownKind, s
<1>10. Len(w) = 1 /\ w[1] = K
  BY <1>9
<1>11. k = 2 /\ s[1] = K /\ Len(s) >= 1
  <2>1. k - 1 = 1 /\ k \in Int /\ 1 \in 1 .. Len(w)
    <3>1. Len(w) = k - 1 /\ Len(w) = 1 /\ k \in 1 .. Len(s) + 1
      BY <1>4, <1>5, <1>10, Zenon
    <3>2. Len(s) \in Nat
      BY <1>2
    <3>3. k \in Int
      BY <3>1, <3>2
    <3>4. k - 1 = 1
      BY <3>1, Zenon
    <3>5. 1 \in 1 .. 1
      OBVIOUS
    <3> QED BY <3>1, <3>3, <3>4, <3>5, Zenon
  <2>2. w[1] = s[1] /\ 1 \in 1 .. Len(s)
    BY <1>5, <2>1, Zenon
  <2> QED BY <1>2, <1>10, <2>1, <2>2
<1>12. Len(b) # 0
  BY <1>1, <1>2, <1>9, <1>11
<1>13. b[1] = K /\ s[2] = "="
  BY <1>2, <1>4, <1>11, <1>12
<1>14. Len(b) # 1
  BY <1>1, <1>2, <1>13
<1> QED BY <1>2, <1>9, <1>12, <1>13, <1>14

SingleOf(c, T) ==
  /\ <<c>> \in Seq(T) /\ Len(<<c>>) = 1 /\ <<c>>[1] = c /\ <<c>> # <<>> /\ 1 \in 1 .. Len(<<c>>)
  /\ 1 \in DOMAIN <<c>>
  /\ \A m : c # m => FreeOf(<<c>>, m)

LEMMA SingleIs ==
  ASSUME NEW T, NEW c \in T
  PROVE  SingleOf(c, T)
<1> DEFINE o == <<c>>
<1>1. o \in Seq(T) /\ Len(o) = 1 /\ o[1] = c /\ o # <<>> /\ 1 \in 1 .. Len(o) /\ 1 \in DOMAIN o
  OBVIOUS
<1> HIDE DEF o
<1>2. ASSUME NEW m, c # m PROVE FreeOf(o, m)
  BY <1>1, <1>2 DEF FreeOf
<1> QED BY <1>1, <1>2, Zenon DEF SingleOf, o

LEMMA LenNat ==
  ASSUME NEW T, NEW s \in Seq(T)
  PROVE  Len(s) \in Nat
OBVIOUS

LEMMA LongIsNotEmpty ==
  ASSUME NEW T, NEW s \in Seq(T), NEW n \in Nat, Len(s) = n + 1
  PROVE  s # <<>>
OBVIOUS

LEMMA Separates ==
  ASSUME NEW T, Space \in T, "::" \in T
  PROVE  <<Space, "::", Space>> \in Seq(T) /\ <<Space, "::", Space>> # <<>>
<1> DEFINE c == <<Space, "::", Space>>
<1>1. c \in Seq(T) /\ Len(c) = 2 + 1
  OBVIOUS
<1> HIDE DEF c
<1>2. c # <<>>
  BY <1>1, LongIsNotEmpty
<1> QED BY <1>1, <1>2, Zenon DEF c

Brackets(u, v, w) == u \o (v \o w) = Joined3(u, v, w)

(* The sign of separation, pulled out of what is put together.             *)
Pulls(o, g, c, b, T) ==
  /\ o \o (Append(g, c) \o b) = Append(o \o g, c) \o b
  /\ o \o g \in Seq(T) /\ Append(o \o g, c) \in Seq(T)

LEMMA Pull ==
  ASSUME NEW T, NEW o \in Seq(T), NEW g \in Seq(T), NEW c \in T, NEW b \in Seq(T)
  PROVE  Pulls(o, g, c, b, T)
<1>1. Append(g, c) \in Seq(T) /\ o \o g \in Seq(T) /\ Append(o \o g, c) \in Seq(T)
  OBVIOUS
<1>2. Brackets(o, Append(g, c), b)
  BY <1>1, Associates, Zenon DEF Brackets
<1>3. Lengthens(o, g, c, T)
  BY AppendLast, Zenon
<1>4. o \o (Append(g, c) \o b) = (o \o Append(g, c)) \o b
  BY <1>2, Zenon DEF Brackets, Joined3
<1>5. o \o Append(g, c) = Append(o \o g, c)
  BY <1>3, Zenon DEF Lengthens
<1> QED BY <1>1, <1>4, <1>5, Zenon DEF Pulls

Regroups(e, o, s, a, c, b, d, T) ==
  /\ e \o (o \o ((s \o (Append(a, c) \o b)) \o d)) = Append(e \o (o \o (s \o a)), c) \o (b \o d)
  /\ e \o (o \o (s \o a)) \in Seq(T) /\ b \o d \in Seq(T)

LEMMA Regroup ==
  ASSUME NEW T, NEW e \in Seq(T), NEW o \in Seq(T), NEW s \in Seq(T), NEW a \in Seq(T),
         NEW c \in T, NEW b \in Seq(T), NEW d \in Seq(T)
  PROVE  Regroups(e, o, s, a, c, b, d, T)
<1>1. b \o d \in Seq(T)
  BY JoinedHas, Zenon DEF JoinedOf
<1>2. Pulls(s, a, c, b, T)
  BY Pull, Zenon
<1>3. (s \o (Append(a, c) \o b)) \o d = Append(s \o a, c) \o (b \o d)
  <2>1. Brackets(Append(s \o a, c), b, d)
    BY <1>2, Associates, Zenon DEF Brackets, Pulls
  <2> QED BY <1>2, <2>1, Zenon DEF Pulls, Brackets, Joined3
<1>4. Pulls(o, s \o a, c, b \o d, T)
  <2>1. s \o a \in Seq(T)
    BY <1>2, Zenon DEF Pulls
  <2> QED BY <1>1, <2>1, Pull, Zenon
<1>5. Pulls(e, o \o (s \o a), c, b \o d, T)
  <2>1. o \o (s \o a) \in Seq(T)
    BY <1>4, Zenon DEF Pulls
  <2> QED BY <1>1, <2>1, Pull, Zenon
<1> QED BY <1>1, <1>3, <1>4, <1>5, Zenon DEF Pulls, Regroups

LEMMA FreeIsTrimmed ==
  ASSUME NEW T, NEW s \in Seq(T), FreeOf(s, Space)
  PROVE  Trimmed(s)
BY DEF FreeOf, Trimmed

EndsWith(p, b) == Len(p) \in Nat /\ Len(p) >= 2 /\ p[Len(p)] = b

LEMMA PiecesOfLast ==
  ASSUME NEW T, NEW s \in Seq(T), NEW b \in Seq(T), NEW m \in T, FreeOf(b, m)
  PROVE  EndsWith(Split(Append(s, m) \o b, m), b)
<1> DEFINE q == Split(s, m)
           p == Split(Append(s, m) \o b, m)
<1>1. q \in Pieces(T)
  BY SplitIsPieces, Zenon
<1>2. EndsPiece(s, b, m)
  BY SplitCloses, Zenon
<1> HIDE DEF q
<1>3. p = Append(q, b)
  BY <1>2, Zenon DEF EndsPiece, q
<1> HIDE DEF p
<1>4. Len(p) \in Nat /\ Len(p) >= 2 /\ p[Len(p)] = b
  BY <1>1, <1>3 DEF Pieces
<1> QED BY <1>4, Zenon DEF EndsWith, p

(* An address with "::" in it keeps its rule from being read unless what   *)
(* stands behind looks like an action.                                     *)
LEMMA LooksLikeAction ==
  ASSUME NEW T, Signs \subseteq T, NEW url \in Seq(T), FreeOf(url, Space), ~FreeOf(url, "::"),
         NEW e \in Seq(T), NEW o \in Seq(T), NEW q, q = e \o (o \o Quoted(url)),
         NEW parts \in Pieces(T), AllFree(parts, "::"), PartsStay(Split(q, "::"), parts),
         Known(Actions(parts))
  PROVE  HoldsAction(url)
<1>1. PICK i : \E b \in Seq(T) : Breaks(url, i, b) /\ FreeOf(b, "::")
  BY LastBreak, Zenon
<1>2. PICK b \in Seq(T) : Breaks(url, i, b) /\ FreeOf(b, "::")
  BY <1>1, Zenon
<1> DEFINE s == <<"^">>
           d == <<"$">>
           g == SubSeq(url, 1, i - 1)
           A == e \o (o \o (s \o g))
           B == b \o d
           p == Split(q, "::")
           j == Len(p)
<1>3. /\ i \in 1 .. Len(url) /\ url[i] = "::" /\ url = Append(g, "::") \o b
      /\ Len(b) = Len(url) - i /\ \A k \in 1 .. Len(b) : b[k] = url[i + k]
  BY <1>2, Zenon DEF Breaks
<1>4. "^" \in T /\ "$" \in T /\ "::" \in T /\ "$" # Space /\ "$" # "::"
  BY DEF Signs, Space
<1>5. s \in Seq(T) /\ d \in Seq(T) /\ FreeOf(d, Space) /\ FreeOf(d, "::") /\ Len(d) = 1
  BY <1>4, SingleIs, Zenon DEF SingleOf
<1>6. Quoted(url) = (s \o url) \o d
  BY Zenon DEF Quoted
<1>7. g \in Seq(T)
  BY <1>3
<1> HIDE DEF s, d, g, p
<1>8. q = Append(A, "::") \o B /\ A \in Seq(T) /\ B \in Seq(T)
  <2>1. Regroups(e, o, s, g, "::", b, d, T)
    BY <1>4, <1>5, <1>7, Regroup, Zenon
  <2> QED BY <1>3, <1>6, <2>1, Zenon DEF Regroups
<1>9. FreeOf(b, Space)
  <2>1. \A k \in 1 .. Len(b) : i + k \in 1 .. Len(url)
    BY <1>3
  <2> QED BY <1>3, <2>1, Zenon DEF FreeOf
<1>10. FreeOf(B, "::") /\ FreeOf(B, Space)
  BY <1>2, <1>5, <1>9, JoinedFree, Zenon
<1>11. Trim(B) = B /\ B # <<>>
  <2>1. Trimmed(B)
    BY <1>8, <1>10, FreeIsTrimmed, Zenon
  <2>2. Len(B) = Len(b) + 1 /\ Len(b) \in Nat
    <3>1. JoinedOf(b, d, T)
      BY <1>5, JoinedHas, Zenon
    <3> QED BY <1>5, <3>1, LenNat, Zenon DEF JoinedOf
  <2> HIDE DEF B
  <2>3. B # <<>>
    BY <1>8, <2>2, LongIsNotEmpty, Zenon
  <2> QED BY <1>8, <2>1, <2>3, TrimStays, Zenon
<1> HIDE DEF A, B
<1>12. j \in Nat /\ j >= 2 /\ p[j] = B
  <2>1. p = Split(Append(A, "::") \o B, "::")
    BY <1>8, Zenon DEF p
  <2>2. EndsWith(Split(Append(A, "::") \o B, "::"), B)
    BY <1>4, <1>8, <1>10, PiecesOfLast, Zenon
  <2> QED BY <2>1, <2>2, Zenon DEF EndsWith
<1> HIDE DEF j
<1>13. j \in 1 .. Len(p) /\ j \in 2 .. Len(parts)
  <2>1. Len(parts) > j /\ j = Len(p)
    BY Zenon DEF PartsStay, p, j
  <2>2. Len(parts) \in Nat
    BY DEF Pieces
  <2> QED BY <1>12, <2>1, <2>2
<1>14. Trim(parts[j]) = B
  BY <1>11, <1>12, <1>13, Zenon DEF PartsStay, p
<1>15. KnownKind(Action(B))
  <2>1. KnownKind(Action(Trim(parts[j])))
    BY <1>11, <1>13, <1>14, AllActionsKnown, Zenon
  <2> QED BY <1>14, <2>1, Zenon
<1>16. Len(b) >= 2 /\ b[1] \in Kinds /\ b[2] = "="
  BY <1>9, <1>15, ReadsAsAction, Zenon DEF B, d
<1>17. i \in 1 .. Len(url) - 2 /\ b[1] = url[i + 1] /\ b[2] = url[i + 2]
  <2>1. 1 \in 1 .. Len(b) /\ 2 \in 1 .. Len(b) /\ i \in 1 .. Len(url) - 2
    BY <1>3, <1>16
  <2> QED BY <1>3, <2>1, Zenon
<1> QED BY <1>3, <1>16, <1>17, Zenon DEF HoldsAction

(* What the shortcuts of the flows' view put together for a flow is read   *)
(* as a rule for that flow, whatever stands behind the address.            *)
THEOREM RuleForFits ==
  ASSUME NEW T, Signs \subseteq T, "," \in T, NEW f, f.method \in KnownMethods,
         f.url \in Seq(T), FreeOf(f.url, Space), ~HoldsAction(f.url),
         NEW t \in Seq(T), t # <<>>, t[Len(t)] # Space,
         ParseRule(RuleFor(f) \o (<<Space, "::", Space>> \o t)).err = "none"
  PROVE  Fits(ParseRule(RuleFor(f) \o (<<Space, "::", Space>> \o t)), f)
<1> DEFINE url == f.url
           m == f.method
           o == <<Space>>
           e == <<m>>
           qu == Quoted(url)
           q == RuleFor(f)
           c == <<Space, "::", Space>>
           line == q \o (c \o t)
           p == Split(q, "::")
           parts == Split(line, "::")
           x == Actions(parts)
           h == Trim(parts[1])
<1>1. /\ m \in T /\ Space \in T /\ "::" \in T /\ "$" \in T /\ "^" \in T
      /\ Space # "::" /\ m # Space /\ m # "::" /\ m # "," /\ m # "#"
      /\ "$" # Space /\ "^" # "::" /\ "$" # "::"
      /\ "^" # Space
  BY DEF Signs, Space, KnownMethods
<1>2. url \in Seq(T)
  OBVIOUS
<1>3. q = Joined3(e, o, qu)
  BY <1>1, RuleForWhat, Zenon DEF RuleForIs
<1>4. qu \in Seq(T) /\ qu # <<>> /\ Trimmed(qu) /\ qu[Len(qu)] = "$"
  BY <1>2, QuotedWhat, Zenon DEF QuotedIs
<1>5. /\ e \in Seq(T) /\ o \in Seq(T) /\ e # <<>> /\ o # <<>>
      /\ e[1] = m /\ o[1] = Space /\ Len(e) = 1 /\ Len(o) = 1
      /\ c \in Seq(T) /\ c # <<>>
  <2>1. SingleOf(m, T) /\ SingleOf(Space, T)
    BY <1>1, SingleIs, Zenon
  <2>2. c \in Seq(T) /\ c # <<>>
    BY <1>1, Separates, Zenon
  <2> QED BY <2>1, <2>2, Zenon DEF SingleOf
<1> HIDE DEF url, m, e, o, qu, q, c
<1>6. FreeOf(e, Space) /\ FreeOf(e, "::") /\ FreeOf(e, ",") /\ FreeOf(o, "::")
  <2>1. SingleOf(m, T) /\ SingleOf(Space, T)
    BY <1>1, SingleIs, Zenon
  <2> QED BY <1>1, <2>1, Zenon DEF SingleOf, e, o
<1>7. q \in Seq(T) /\ q # <<>> /\ q[1] = m /\ Trimmed(q) /\ q = e \o (o \o qu)
  <2>1. o \o qu \in Seq(T)
    BY <1>4, <1>5, JoinedHas, Zenon DEF JoinedOf
  <2>2. q \in Seq(T) /\ q = e \o (o \o qu)
    BY <1>3, <1>4, <1>5, Associates, Zenon
  <2>3. Joins(o, qu)
    BY <1>4, <1>5, JoinsEnds, Zenon
  <2>4. Joins(e, o \o qu)
    BY <1>5, <2>1, <2>3, JoinsEnds, Zenon DEF Joins
  <2>5. q # <<>> /\ q[1] = m /\ q[Len(q)] = "$"
    BY <1>4, <1>5, <2>2, <2>3, <2>4, Zenon DEF Joins
  <2>6. Trimmed(q)
    BY <1>1, <2>5, Zenon DEF Trimmed
  <2> QED BY <2>2, <2>5, <2>6, Zenon
<1>8. line \in Seq(T) /\ line # <<>> /\ line[1] = m /\ Trim(line) = line
  <2>1. c \o t \in Seq(T)
    BY <1>5, JoinedHas, Zenon DEF JoinedOf
  <2>2. Joins(c, t)
    BY <1>5, JoinsEnds, Zenon
  <2>3. Joins(q, c \o t)
    BY <1>7, <2>1, <2>2, JoinsEnds, Zenon DEF Joins
  <2>4. line # <<>> /\ line[1] = m /\ line[Len(line)] = t[Len(t)]
    BY <1>7, <2>2, <2>3, Zenon DEF Joins
  <2>5. Trimmed(line)
    BY <1>1, <2>4, Zenon DEF Trimmed
  <2>6. line \in Seq(T)
    BY <1>7, <2>1, JoinedHas, Zenon DEF JoinedOf
  <2> HIDE DEF line
  <2> QED BY <2>4, <2>5, <2>6, TrimStays, Zenon
<1>9. PartsStay(p, parts)
  BY <1>1, <1>7, PartsBefore, Zenon DEF c
<1>10. ParseRule(line).err = "none"
  BY Zenon DEF line, q, c
<1> HIDE DEF line
<1>11. ReadsAs(line, h, x)
  BY <1>8, ParseReads, Zenon
<1>12. parts \in Pieces(T) /\ AllFree(parts, "::")
  BY <1>8, SplitIsPieces, SplitIsFree, Zenon
<1>13. p \in Pieces(T)
  BY <1>7, SplitIsPieces, Zenon
<1> HIDE DEF p, parts
<1> DEFINE a == Address(h)
           w == Method(h)
           r == ParseRule(line)
<1> HIDE DEF h, x, a, w, r
<1>14. Known(x) /\ r.method = w /\ r.url = a
  <2>1. r = IF Trim(line) = <<>> \/ Trim(line)[1] = "#" THEN [err |-> "empty rule"]
            ELSE IF ~Known(x) THEN [err |-> "unknown action"]
            ELSE IF x = <<>> THEN [err |-> "rule has no actions"]
            ELSE IF BadPattern(a) THEN [err |-> "regexp"]
            ELSE [err |-> "none", method |-> w, url |-> a, actions |-> x]
    BY <1>11, Zenon DEF ReadsAs, Refused, r, w, a
  <2>2. r.err = "none"
    BY <1>10, Zenon DEF r
  <2>3. r = [err |-> "none", method |-> w, url |-> a, actions |-> x] /\ Known(x)
    BY <2>1, <2>2
  <2> QED BY <2>3
<1>15. CASE FreeOf(url, "::")
  <2>1. FreeOf(q, "::")
    <3> DEFINE b == <<"^">>
               d == <<"$">>
    <3>1. b \in Seq(T) /\ d \in Seq(T) /\ FreeOf(b, "::") /\ FreeOf(d, "::") /\ b \o url \in Seq(T)
      <4>1. SingleOf("^", T) /\ SingleOf("$", T)
        BY <1>1, SingleIs, Zenon
      <4>2. b \in Seq(T) /\ d \in Seq(T) /\ FreeOf(b, "::") /\ FreeOf(d, "::")
        BY <1>1, <4>1, Zenon DEF SingleOf
      <4> QED BY <1>2, <4>2, JoinedHas, Zenon DEF JoinedOf
    <3> HIDE DEF b, d
    <3>2. FreeOf(b \o url, "::")
      BY <1>2, <1>15, <3>1, JoinedFree, Zenon
    <3>3. FreeOf((b \o url) \o d, "::")
      BY <3>1, <3>2, JoinedFree, Zenon
    <3>4. FreeOf(qu, "::")
      BY <3>3, Zenon DEF Quoted, qu, b, d
    <3>5. FreeOf(o \o qu, "::")
      BY <1>4, <1>5, <1>6, <3>4, JoinedFree, Zenon
    <3>6. o \o qu \in Seq(T)
      BY <1>4, <1>5, JoinedHas, Zenon DEF JoinedOf
    <3>7. FreeOf(e \o (o \o qu), "::")
      BY <1>5, <1>6, <3>5, <3>6, JoinedFree, Zenon
    <3> QED BY <1>7, <3>7, Zenon
  <2>2. p = <<q>>
    BY <1>7, <2>1, SplitFree, Zenon DEF p
  <2>3. Len(p) = 1 /\ p[1] = q /\ 1 \in 1 .. Len(p)
    BY <1>7, <2>2, SingleIs, Zenon DEF SingleOf
  <2>4. h = q
    <3>1. Trim(q) = q
      BY <1>7, TrimStays, Zenon
    <3> QED BY <1>9, <2>3, <3>1, Zenon DEF PartsStay, h
  <2>5. IsSpec(e)
    BY <1>5, Zenon DEF IsSpec, IsMethod, m
  <2>6. Heads(q, e, qu)
    BY <1>1, <1>3, <1>4, <1>5, <1>6, <2>5, HeadReads, Zenon DEF o
  <2>7. w = e /\ a = qu
    BY <2>4, <2>6, Zenon DEF Heads, w, a
  <2>8. MethodFits(e, m)
    <3>1. Split(e, ",") = <<e>>
      BY <1>5, <1>6, SplitFree, Zenon
    <3> DEFINE z == <<e>>
    <3>2. z[1] = e /\ 1 \in 1 .. Len(z) /\ 1 \in DOMAIN z
      BY <1>5, SingleIs, Zenon DEF SingleOf
    <3> HIDE DEF z
    <3>3. e \in ToSet(z)
      BY <3>2, Zenon DEF ToSet
    <3> QED BY <3>1, <3>3, Zenon DEF MethodFits, z, e
  <2> QED BY <1>14, <2>7, <2>8, Zenon DEF Fits, r, Quoted, qu, url, m, line, q, c
<1>16. CASE ~FreeOf(url, "::")
  <2>1. FreeOf(url, Space)
    BY Zenon DEF url
  <2>2. q = e \o (o \o Quoted(url))
    BY <1>7, Zenon DEF qu
  <2>3. Known(Actions(parts))
    BY <1>14, Zenon DEF x
  <2>4. PartsStay(Split(q, "::"), parts)
    BY <1>9, Zenon DEF p
  <2>5. HoldsAction(url)
    BY <1>2, <1>5, <1>12, <1>16, <2>1, <2>2, <2>3, <2>4, LooksLikeAction, Zenon
  <2> QED BY <2>5, Zenon DEF url
<1> QED BY <1>15, <1>16, Zenon DEF r, line, q, c

-----------------------------------------------------------------------------
(* The inductive invariant: the texts are texts, a prompt for a flow has   *)
(* one, and the rule is one that can be read.                              *)

(* All that a text is made of.                                             *)
Letters == STRING \cup Signs \cup {",", "tmp", "both"}

TextsAre == text \in Seq(Letters) /\ filterText \in Seq(Letters)

HasItsFlow == purpose \in {"redirect", "file"} => flow \in Flows

RuleKept == rule = NoRule \/ IsRule(rule, Letters)

RulesAre ==
  /\ madeFor \in Flows \cup {NoFlow} /\ RuleKept /\ FitsItsFlow

PInv == LineTypeOK /\ TextsAre /\ HasItsFlow /\ RulesAre

LEMMA LettersAre ==
  /\ Signs \subseteq Letters /\ STRING \subseteq Letters
  /\ "," \in Letters /\ "tmp" \in Letters /\ "both" \in Letters
  /\ Space \in Letters /\ "::" \in Letters /\ "=" \in Letters
  /\ "break" \in Letters /\ "file" \in Letters /\ "redirect" \in Letters
BY DEF Letters, Signs, Kinds

(* What the assumption says of a flow.                                     *)
Flowing(f) ==
  /\ f.url \in Seq(Letters) /\ FreeOf(f.url, Space) /\ f.method \in Letters
  /\ RuleFor(f) \in Seq(Letters)

LEMMA WordsAreTexts ==
  ASSUME NEW T, NEW U, NEW c, U \ {c} \subseteq T, NEW s \in Seq(U \ {c})
  PROVE  s \in Seq(T) /\ FreeOf(s, c)
<1>1. s \in Seq(T) /\ \A k \in 1 .. Len(s) : s[k] \in U \ {c}
  OBVIOUS
<1> QED BY <1>1 DEF FreeOf

LEMMA FlowIs ==
  ASSUME NEW f \in Flows
  PROVE  Flowing(f)
<1> DEFINE u == f.url
           m == f.method
           a == <<m>>
           o == <<Space>>
           q == Quoted(u)
<1>1. m \in Letters /\ u \in Seq(STRING \ {Space})
  BY PromptsAssumption, LettersAre
<1> HIDE DEF u, m
<1>2. u \in Seq(Letters) /\ FreeOf(u, Space)
  <2>1. STRING \ {Space} \subseteq Letters
    BY LettersAre
  <2> QED BY <1>1, <2>1, WordsAreTexts, Zenon
<1>3. SingleOf(m, Letters) /\ SingleOf(Space, Letters)
  BY <1>1, LettersAre, SingleIs, Zenon
<1>4. q \in Seq(Letters)
  BY <1>2, LettersAre, QuotedWhat, Zenon DEF QuotedIs, Signs
<1>5. a \in Seq(Letters) /\ o \in Seq(Letters)
  BY <1>3, Zenon DEF SingleOf
<1> HIDE DEF q, a, o
<1>6. Joined3(a, o, q) \in Seq(Letters)
  BY <1>4, <1>5, Associates, Zenon
<1>7. RuleForIs(f)
  BY <1>1, <1>2, LettersAre, RuleForWhat, Zenon DEF u, m
<1>8. RuleFor(f) \in Seq(Letters)
  BY <1>6, <1>7, Zenon DEF RuleForIs, a, o, q, u, m
<1> QED BY <1>1, <1>2, <1>8, Zenon DEF Flowing, u, m

-----------------------------------------------------------------------------
(* What reading a line makes of the rule.                                  *)

(* A line that makes a rule for this flow, if it can be read.              *)
IsFor(line, f) ==
  /\ line \in Seq(Letters) /\ f \in Flows \cup {NoFlow}
  /\ f # NoFlow /\ f.method \in KnownMethods /\ ~HoldsAction(f.url)
     /\ ParseRule(line).err = "none" => Fits(ParseRule(line), f)

LEMMA ReadsARule ==
  ASSUME RulesAre, NEW line, NEW f, IsFor(line, f), Reads(line, f)
  PROVE  RulesAre'
<1> DEFINE r == ParseRule(line)
<1>1. CASE r.err = "none"
  <2>1. rule' = r /\ madeFor' = f
    BY <1>1, Zenon DEF Reads
  <2>2. IsRule(r, Letters)
    BY <1>1, LettersAre, RuleRead, Zenon DEF IsFor
  <2> HIDE DEF r
  <2>3. RuleKept'
    BY <2>1, <2>2, Zenon DEF RuleKept
  <2>4. f # NoFlow /\ f.method \in KnownMethods /\ ~HoldsAction(f.url) => Fits(r, f)
    BY <1>1, Zenon DEF IsFor, r
  <2>5. FitsItsFlow'
    BY <2>1, <2>4, Zenon DEF FitsItsFlow
  <2>6. madeFor' \in Flows \cup {NoFlow}
    BY <2>1, Zenon DEF IsFor
  <2> QED BY <2>3, <2>5, <2>6, Zenon DEF RulesAre
<1>2. CASE r.err # "none"
  <2>1. rule' = rule /\ madeFor' = madeFor
    BY <1>2, Zenon DEF Reads
  <2> QED BY <2>1, Zenon DEF RulesAre, RuleKept, FitsItsFlow
<1> QED BY <1>1, <1>2, Zenon

LEMMA RulesStay ==
  ASSUME RulesAre, UNCHANGED <<rule, madeFor>>
  PROVE  RulesAre'
<1>1. rule' = rule /\ madeFor' = madeFor
  OBVIOUS
<1> QED BY <1>1, Zenon DEF RulesAre, RuleKept, FitsItsFlow

LEMMA TypedIsFor ==
  ASSUME NEW line \in Seq(Letters)
  PROVE  IsFor(line, NoFlow)
BY Zenon DEF IsFor

MadeFrom(f, t) == RuleFor(f) \o (<<Space, "::", Space>> \o t)

LEMMA MadeIsFor ==
  ASSUME NEW f \in Flows, NEW t \in Seq(Letters), t # <<>>, t[Len(t)] # Space
  PROVE  IsFor(MadeFrom(f, t), f)
<1> DEFINE line == MadeFrom(f, t)
           c == <<Space, "::", Space>>
<1>1. Flowing(f)
  BY FlowIs, Zenon
<1>2. line \in Seq(Letters)
  <2>1. c \in Seq(Letters)
    BY LettersAre, Separates, Zenon DEF Signs
  <2> HIDE DEF c
  <2>2. c \o t \in Seq(Letters)
    BY <2>1, JoinedHas, Zenon DEF JoinedOf
  <2>3. RuleFor(f) \o (c \o t) \in Seq(Letters)
    BY <1>1, <2>2, JoinedHas, Zenon DEF JoinedOf, Flowing
  <2> QED BY <2>3, Zenon DEF MadeFrom, c
<1>3. ASSUME f.method \in KnownMethods, ~HoldsAction(f.url), ParseRule(line).err = "none"
      PROVE  Fits(ParseRule(line), f)
  <2>1. f.url \in Seq(Letters) /\ FreeOf(f.url, Space)
    BY <1>1, Zenon DEF Flowing
  <2>2. ParseRule(RuleFor(f) \o (c \o t)).err = "none"
    BY <1>3, Zenon DEF MadeFrom
  <2>3. Fits(ParseRule(RuleFor(f) \o (c \o t)), f)
    BY <1>3, <2>1, <2>2, LettersAre, RuleForFits, Zenon
  <2> QED BY <2>3, Zenon DEF MadeFrom
<1> HIDE DEF line
<1>4. f \in Flows \cup {NoFlow}
  OBVIOUS
<1>5. IsFor(line, f)
  BY <1>2, <1>3, <1>4, Zenon DEF IsFor
<1> QED BY <1>5, Zenon DEF line

-----------------------------------------------------------------------------
(* The keys that write and move.                                           *)

Edited(s, t, n) == t \in Seq(Letters) /\ Len(t) \in Nat /\ Len(t) = Len(s) + n

LEMMA Inserts ==
  ASSUME NEW s \in Seq(Letters), NEW i \in 0 .. Len(s), NEW c \in Letters
  PROVE  Edited(s, InsertAt(s, i + 1, c), 1)
<1> DEFINE a == SubSeq(s, 1, i)
           b == SubSeq(s, i + 1, Len(s))
<1>1. a \in Seq(Letters) /\ Len(a) = i /\ b \in Seq(Letters) /\ Len(b) = Len(s) - i
  OBVIOUS
<1>2. InsertAt(s, i + 1, c) = a \o <<c>> \o b
  <2>1. (i + 1) - 1 = i
    OBVIOUS
  <2> QED BY <2>1, Zenon DEF InsertAt
<1> HIDE DEF a, b
<1>3. Edited(s, a \o <<c>> \o b, 1)
  BY <1>1 DEF Edited
<1> QED BY <1>2, <1>3, Zenon

LEMMA Removes ==
  ASSUME NEW s \in Seq(Letters), NEW i \in 1 .. Len(s)
  PROVE  Edited(s, RemoveAt(s, i), -1)
<1> DEFINE a == SubSeq(s, 1, i - 1)
           b == SubSeq(s, i + 1, Len(s))
<1>1. a \in Seq(Letters) /\ Len(a) = i - 1 /\ b \in Seq(Letters) /\ Len(b) = Len(s) - i
  OBVIOUS
<1>2. RemoveAt(s, i) = a \o b
  BY Zenon DEF RemoveAt
<1> HIDE DEF a, b
<1>3. Edited(s, a \o b, -1)
  BY <1>1 DEF Edited
<1> QED BY <1>2, <1>3, Zenon

(* What a key leaves as it was.                                            *)
LEMMA PressKeeps ==
  ASSUME PInv, Press
  PROVE  /\ keys' = keys /\ keys \in FilterKeys \cup RuleKeys /\ pressed' \in 0 .. MaxPressed[keys]
         /\ purpose' = purpose /\ flow' = flow
         /\ HasItsFlow' /\ RulesAre'
<1>1. /\ keys' = keys /\ purpose' = purpose /\ flow' = flow /\ rule' = rule /\ madeFor' = madeFor
      /\ pressed' = pressed + 1 /\ pressed < MaxPressed[keys]
  BY Zenon DEF Press
<1>2. keys \in FilterKeys \cup RuleKeys /\ pressed \in 0 .. MaxPressed[keys]
  BY Zenon DEF PInv, LineTypeOK
<1>3. MaxPressed[keys] \in Nat
  BY <1>2, PromptsAssumption
<1>4. pressed' \in 0 .. MaxPressed[keys]
  BY <1>1, <1>2, <1>3
<1>5. RulesAre'
  BY <1>1, RulesStay, Zenon DEF PInv
<1>6. HasItsFlow'
  BY <1>1, Zenon DEF HasItsFlow, PInv
<1> QED BY <1>1, <1>2, <1>4, <1>5, <1>6, Zenon

LEMMA BecomesAText ==
  ASSUME PInv, Press, NEW line \in Seq(Letters), NEW place \in 0 .. Len(line),
         Becomes(line, place)
  PROVE  PInv'
<1>1. text' = line /\ caret' = place /\ filterText' \in Seq(Letters)
  BY Zenon DEF Becomes, PInv, TextsAre
<1>2. LineTypeOK'
  BY <1>1, PressKeeps, Zenon DEF LineTypeOK, PInv, RulesAre
<1>3. TextsAre'
  BY <1>1, Zenon DEF TextsAre
<1> QED BY <1>2, <1>3, PressKeeps, Zenon DEF PInv

LEMMA CaretIs ==
  ASSUME PInv
  PROVE  caret \in Nat /\ Len(text) \in Nat /\ caret <= Len(text) /\ text \in Seq(Letters)
<1>1. caret \in 0 .. Len(text) /\ text \in Seq(Letters)
  BY Zenon DEF PInv, LineTypeOK, TextsAre
<1> QED BY <1>1

LEMMA Typing ==
  ASSUME PInv, Type
  PROVE  PInv'
<1>1. PICK c \in keys : Becomes(InsertAt(text, caret + 1, c), caret + 1)
  BY Zenon DEF Type
<1>2. c \in Letters
  <2>1. keys \subseteq STRING
    BY PromptsAssumption DEF PInv, LineTypeOK
  <2> QED BY <2>1, LettersAre
<1> DEFINE t == InsertAt(text, caret + 1, c)
<1>3. Edited(text, t, 1)
  <2>1. caret \in 0 .. Len(text) /\ text \in Seq(Letters)
    BY CaretIs
  <2> QED BY <1>2, <2>1, Inserts, Zenon
<1> HIDE DEF t
<1>4. t \in Seq(Letters) /\ caret + 1 \in 0 .. Len(t)
  BY <1>3, CaretIs DEF Edited
<1>5. Press /\ Becomes(t, caret + 1)
  BY <1>1, Zenon DEF Type, t
<1> QED BY <1>4, <1>5, BecomesAText, Zenon

LEMMA Erasing ==
  ASSUME PInv, Backspace
  PROVE  PInv'
<1> DEFINE t == RemoveAt(text, caret)
<1>1. Press /\ caret > 0 /\ Becomes(t, caret - 1)
  BY Zenon DEF Backspace
<1>2. Edited(text, t, -1)
  <2>1. caret \in 1 .. Len(text) /\ text \in Seq(Letters)
    BY <1>1, CaretIs
  <2> QED BY <2>1, Removes, Zenon
<1> HIDE DEF t
<1>3. t \in Seq(Letters) /\ caret - 1 \in 0 .. Len(t)
  BY <1>1, <1>2, CaretIs DEF Edited
<1> QED BY <1>1, <1>3, BecomesAText, Zenon

LEMMA Deleting ==
  ASSUME PInv, Delete
  PROVE  PInv'
<1> DEFINE t == RemoveAt(text, caret + 1)
<1>1. Press /\ caret < Len(text) /\ Becomes(t, caret)
  BY Zenon DEF Delete
<1>2. Edited(text, t, -1)
  <2>1. caret + 1 \in 1 .. Len(text) /\ text \in Seq(Letters)
    BY <1>1, CaretIs
  <2> QED BY <2>1, Removes, Zenon
<1> HIDE DEF t
<1>3. t \in Seq(Letters) /\ caret \in 0 .. Len(t)
  BY <1>1, <1>2, CaretIs DEF Edited
<1> QED BY <1>1, <1>3, BecomesAText, Zenon

LEMMA GreaterOf ==
  ASSUME NEW x \in Int, NEW y \in Int
  PROVE  Max({x, y}) = IF x >= y THEN x ELSE y
<1>1. CASE x >= y
  <2>1. IsMax({x, y}, x)
    <3>1. {x, y} \subseteq Int /\ x \in {x, y} /\ \A z \in {x, y} : x >= z
      BY <1>1
    <3> QED BY <3>1, MaxIs
  <2> QED BY <1>1, <2>1 DEF IsMax
<1>2. CASE ~(x >= y)
  <2>1. IsMax({x, y}, y)
    <3>1. {x, y} \subseteq Int /\ y \in {x, y} /\ \A z \in {x, y} : y >= z
      BY <1>2
    <3> QED BY <3>1, MaxIs
  <2> QED BY <1>2, <2>1 DEF IsMax
<1> QED BY <1>1, <1>2

LEMMA LesserOf ==
  ASSUME NEW x \in Int, NEW y \in Int
  PROVE  Min({x, y}) = IF x <= y THEN x ELSE y
<1>1. CASE x <= y
  <2>1. IsMin({x, y}, x)
    <3>1. {x, y} \subseteq Int /\ x \in {x, y} /\ \A z \in {x, y} : x <= z
      BY <1>1
    <3> QED BY <3>1, MinIs
  <2> QED BY <1>1, <2>1 DEF IsMin
<1>2. CASE ~(x <= y)
  <2>1. IsMin({x, y}, y)
    <3>1. {x, y} \subseteq Int /\ y \in {x, y} /\ \A z \in {x, y} : y <= z
      BY <1>2
    <3> QED BY <3>1, MinIs
  <2> QED BY <1>2, <2>1 DEF IsMin
<1> QED BY <1>1, <1>2

LEMMA Moving ==
  ASSUME PInv, Move
  PROVE  PInv'
<1>1. /\ Press /\ text' = text /\ filterText' = filterText
      /\ caret' \in {Max({caret - 1, 0}), Min({caret + 1, Len(text)}), 0, Len(text)}
  BY Zenon DEF Move
<1>2. caret \in Nat /\ Len(text) \in Nat /\ caret <= Len(text)
  BY CaretIs
<1>3. Max({caret - 1, 0}) = IF caret - 1 >= 0 THEN caret - 1 ELSE 0
  BY <1>2, GreaterOf
<1>4. Min({caret + 1, Len(text)}) = IF caret + 1 <= Len(text) THEN caret + 1 ELSE Len(text)
  BY <1>2, LesserOf
<1>5. Max({caret - 1, 0}) \in 0 .. Len(text) /\ Min({caret + 1, Len(text)}) \in 0 .. Len(text)
  BY <1>2, <1>3, <1>4
<1>6. caret' \in 0 .. Len(text)
  BY <1>1, <1>2, <1>5
<1>7. LineTypeOK'
  BY <1>1, <1>6, PressKeeps, Zenon DEF LineTypeOK, PInv, RulesAre
<1>8. TextsAre'
  BY <1>1, Zenon DEF TextsAre, PInv
<1> QED BY <1>1, <1>7, <1>8, PressKeeps, Zenon DEF PInv

-----------------------------------------------------------------------------
(* The keys that open and close a prompt.                                  *)

LEMMA OpensAPrompt ==
  ASSUME PInv, NEW why \in {"filter", "new", "edit", "redirect", "file"},
         NEW line \in Seq(Letters), NEW f \in Flows \cup {NoFlow},
         why \in {"redirect", "file"} => f \in Flows,
         Opens(why, line, f)
  PROVE  PInv'
<1>1. /\ purpose' = why /\ text' = line /\ caret' = Len(line) /\ flow' = f /\ keys' = keys
      /\ pressed' = pressed /\ filterText' = filterText /\ rule' = rule /\ madeFor' = madeFor
  BY Zenon DEF Opens
<1>2. caret' \in 0 .. Len(text')
  <2>1. Len(line) \in 0 .. Len(line)
    OBVIOUS
  <2> QED BY <1>1, <2>1, Zenon
<1>3. RulesAre'
  BY <1>1, RulesStay, Zenon DEF PInv
<1>4. why \in {"closed", "filter", "new", "edit", "redirect", "file"}
  OBVIOUS
<1>5. LineTypeOK'
  BY <1>1, <1>2, <1>3, <1>4, Zenon DEF LineTypeOK, PInv, RulesAre
<1>6. TextsAre'
  BY <1>1, Zenon DEF TextsAre, PInv
<1>7. HasItsFlow'
  BY <1>1, Zenon DEF HasItsFlow
<1> QED BY <1>3, <1>5, <1>6, <1>7, Zenon DEF PInv

LEMMA EmptyText == <<>> \in Seq(Letters) /\ 0 \in 0 .. Len(<<>>)
OBVIOUS

LEMMA Opening ==
  ASSUME PInv, OpenFilter \/ OpenNew \/ OpenEdit \/ OpenRedirect \/ OpenMock
  PROVE  PInv'
<1>1. /\ {"filter", "new", "edit", "redirect", "file"} \cap {"redirect", "file"} = {"redirect", "file"}
      /\ "filter" \notin {"redirect", "file"} /\ "new" \notin {"redirect", "file"}
      /\ "edit" \notin {"redirect", "file"}
  OBVIOUS
<1>2. NoFlow \in Flows \cup {NoFlow} /\ \A f \in Flows : f \in Flows \cup {NoFlow}
  OBVIOUS
<1>3. CASE OpenFilter
  <2>1. filterText \in Seq(Letters)
    BY Zenon DEF PInv, TextsAre
  <2> QED BY <1>1, <1>2, <1>3, <2>1, OpensAPrompt, Zenon DEF OpenFilter
<1>4. CASE OpenNew
  BY <1>1, <1>2, <1>4, EmptyText, OpensAPrompt, Zenon DEF OpenNew
<1>5. CASE OpenEdit
  <2>1. String(rule) \in Seq(Letters)
    <3>1. IsRule(rule, Letters)
      BY <1>5, Zenon DEF OpenEdit, PInv, RulesAre, RuleKept
    <3> QED BY <3>1, LettersAre, StringIsText, Zenon
  <2> QED BY <1>1, <1>2, <1>5, <2>1, OpensAPrompt, Zenon DEF OpenEdit
<1>6. CASE OpenRedirect
  BY <1>1, <1>2, <1>6, EmptyText, OpensAPrompt, Zenon DEF OpenRedirect
<1>7. CASE OpenMock
  <2>1. <<"tmp">> \in Seq(Letters)
    BY LettersAre, SingleIs, Zenon DEF SingleOf
  <2> QED BY <1>1, <1>2, <1>7, <2>1, OpensAPrompt, Zenon DEF OpenMock
<1> QED BY <1>3, <1>4, <1>5, <1>6, <1>7, Zenon

LEMMA ClosesAPrompt ==
  ASSUME PInv, Closes, filterText' \in Seq(Letters), RulesAre'
  PROVE  PInv'
<1>1. /\ purpose' = "closed" /\ text' = <<>> /\ caret' = 0 /\ flow' = NoFlow
      /\ keys' = keys /\ pressed' = pressed
  BY Zenon DEF Closes
<1>2. /\ "closed" \in {"closed", "filter", "new", "edit", "redirect", "file"}
      /\ "closed" \notin {"redirect", "file"} /\ NoFlow \in Flows \cup {NoFlow}
  OBVIOUS
<1>3. LineTypeOK'
  BY <1>1, <1>2, EmptyText, Zenon DEF LineTypeOK, PInv, RulesAre
<1>4. TextsAre' /\ HasItsFlow'
  BY <1>1, <1>2, EmptyText, Zenon DEF TextsAre, HasItsFlow
<1> QED BY <1>3, <1>4, Zenon DEF PInv

LEMMA Cancelling ==
  ASSUME PInv, Escape
  PROVE  PInv'
<1>1. Closes /\ rule' = rule /\ madeFor' = madeFor
  BY Zenon DEF Escape
<1>2. filterText' \in Seq(Letters)
  BY EmptyText, Zenon DEF Escape, PInv, TextsAre
<1>3. RulesAre'
  BY <1>1, RulesStay, Zenon DEF PInv
<1> QED BY <1>1, <1>2, <1>3, ClosesAPrompt, Zenon

LEMMA Filtering ==
  ASSUME PInv, SubmitFilter
  PROVE  PInv'
<1>1. Closes /\ rule' = rule /\ madeFor' = madeFor /\ filterText' = filterText
  BY Zenon DEF SubmitFilter
<1>2. filterText' \in Seq(Letters)
  BY <1>1, Zenon DEF PInv, TextsAre
<1>3. RulesAre'
  BY <1>1, RulesStay, Zenon DEF PInv
<1> QED BY <1>1, <1>2, <1>3, ClosesAPrompt, Zenon

LEMMA Submitting ==
  ASSUME PInv, SubmitRule
  PROVE  PInv'
<1>1. Closes /\ Reads(text, NoFlow) /\ filterText' = filterText
  BY Zenon DEF SubmitRule
<1>2. filterText' \in Seq(Letters) /\ text \in Seq(Letters)
  BY <1>1, Zenon DEF PInv, TextsAre
<1>3. IsFor(text, NoFlow)
  BY <1>2, TypedIsFor, Zenon
<1>4. RulesAre'
  BY <1>1, <1>3, ReadsARule, Zenon DEF PInv
<1> QED BY <1>1, <1>2, <1>4, ClosesAPrompt, Zenon

-----------------------------------------------------------------------------
(* The rules for a flow: what is put behind the address ends in no blank.  *)

Ending(t) == t \in Seq(Letters) /\ t # <<>> /\ t[Len(t)] # Space

LEMMA TwoAre ==
  ASSUME NEW T, NEW a \in T, NEW b \in T
  PROVE  <<a, b>> \in Seq(T) /\ Len(<<a, b>>) = 1 + 1
OBVIOUS

LEMMA ThreeAre ==
  ASSUME NEW T, NEW a \in T, NEW b \in T, NEW c \in T
  PROVE  <<a, b, c>> \in Seq(T) /\ Len(<<a, b, c>>) = 2 + 1 /\ <<a, b, c>>[3] = c
OBVIOUS

LEMMA BothIsEnding ==
  Ending(<<"break", "=", "both">>)
<1> DEFINE t == <<"break", "=", "both">>
<1>1. t \in Seq(Letters) /\ Len(t) = 2 + 1 /\ t[3] = "both"
  BY LettersAre, ThreeAre, Zenon
<1> HIDE DEF t
<1>2. t # <<>>
  BY <1>1, LongIsNotEmpty
<1>3. t[Len(t)] # Space
  <2>1. 2 + 1 = 3 /\ "both" # Space
    BY DEF Space
  <2> QED BY <1>1, <2>1, Zenon
<1> QED BY <1>1, <1>2, <1>3, Zenon DEF Ending, t

LEMMA TypedIsEnding ==
  ASSUME NEW why \in {"redirect", "file"}, NEW s \in Seq(Letters), Trim(s) # <<>>
  PROVE  Ending(<<why, "=">> \o Trim(s))
<1> DEFINE c == <<why, "=">>
           t == Trim(s)
<1>1. c \in Seq(Letters) /\ Len(c) = 1 + 1
  <2>1. why \in Letters
    BY LettersAre
  <2> QED BY <2>1, LettersAre, TwoAre, Zenon
<1>2. t \in Seq(Letters) /\ t[Len(t)] # Space
  BY TrimIs, Zenon DEF IsTrim, Trimmed
<1> HIDE DEF c, t
<1>3. c # <<>> /\ t # <<>>
  BY <1>1, LongIsNotEmpty DEF t
<1>4. Joins(c, t)
  BY <1>1, <1>2, <1>3, JoinsEnds, Zenon
<1>5. c \o t \in Seq(Letters)
  BY <1>1, <1>2, JoinedHas, Zenon DEF JoinedOf
<1>6. Ending(c \o t)
  BY <1>2, <1>4, <1>5, Zenon DEF Joins, Ending
<1> QED BY <1>6, Zenon DEF c, t

BreakText(q, a, b, c, d, e) == q \o <<a, b, a, c, d, e>> = q \o (<<a, b, a>> \o <<c, d, e>>)

TypedText(q, a, b, c, d, t) ==
  (q \o <<a, b, a, c, d>>) \o t = q \o (<<a, b, a>> \o (<<c, d>> \o t))

LEMMA ThreeAndThree ==
  ASSUME NEW T, NEW q \in Seq(T), NEW a \in T, NEW b \in T, NEW c \in T, NEW d \in T, NEW e \in T
  PROVE  BreakText(q, a, b, c, d, e)
<1>1. <<a, b, a, c, d, e>> = <<a, b, a>> \o <<c, d, e>>
  OBVIOUS
<1> QED BY <1>1, Zenon DEF BreakText

LEMMA ThreeAndTwo ==
  ASSUME NEW T, NEW q \in Seq(T), NEW a \in T, NEW b \in T, NEW c \in T, NEW d \in T,
         NEW t \in Seq(T)
  PROVE  TypedText(q, a, b, c, d, t)
<1> DEFINE x == <<a, b, a>>
           y == <<c, d>>
<1>1. <<a, b, a, c, d>> = x \o y /\ x \in Seq(T) /\ y \in Seq(T)
  OBVIOUS
<1> HIDE DEF x, y
<1>2. y \o t \in Seq(T) /\ x \o y \in Seq(T)
  BY <1>1, JoinedHas, Zenon DEF JoinedOf
<1>3. Brackets(x, y, t)
  BY <1>1, Associates, Zenon DEF Brackets
<1>4. Brackets(q, x \o y, t)
  BY <1>2, Associates, Zenon DEF Brackets
<1> QED BY <1>1, <1>3, <1>4, Zenon DEF Brackets, Joined3, TypedText, x, y

LEMMA Breaking ==
  ASSUME PInv, BreakSelected
  PROVE  PInv'
<1> DEFINE t == <<"break", "=", "both">>
           line(f) == RuleFor(f) \o <<Space, "::", Space, "break", "=", "both">>
<1>1. PICK f \in Flows : Reads(line(f), f)
  BY Zenon DEF BreakSelected
<1>2. RuleFor(f) \in Seq(Letters)
  BY FlowIs, Zenon DEF Flowing
<1>3. line(f) = MadeFrom(f, t)
  <2>1. BreakText(RuleFor(f), Space, "::", "break", "=", "both")
    BY <1>2, LettersAre, ThreeAndThree, Zenon
  <2> QED BY <2>1, Zenon DEF MadeFrom, BreakText
<1>4. IsFor(MadeFrom(f, t), f)
  BY BothIsEnding, MadeIsFor, Zenon DEF Ending
<1>5. Reads(MadeFrom(f, t), f)
  BY <1>1, <1>3, Zenon
<1>6. RulesAre'
  BY <1>4, <1>5, ReadsARule, Zenon DEF PInv
<1>7. /\ keys' = keys /\ pressed' = pressed /\ purpose' = purpose /\ text' = text
      /\ caret' = caret /\ flow' = flow /\ filterText' = filterText
  BY Zenon DEF BreakSelected
<1> HIDE DEF line, t
<1>8. LineTypeOK'
  BY <1>6, <1>7, Zenon DEF LineTypeOK, PInv, RulesAre
<1>9. TextsAre' /\ HasItsFlow'
  BY <1>7, Zenon DEF TextsAre, HasItsFlow, PInv
<1> QED BY <1>6, <1>8, <1>9, Zenon DEF PInv

LEMMA SubmittingForFlow ==
  ASSUME PInv, SubmitForFlow
  PROVE  PInv'
<1> DEFINE t == <<purpose, "=">> \o Trim(text)
           line == RuleFor(flow) \o <<Space, "::", Space, purpose, "=">> \o Trim(text)
<1>1. Closes /\ filterText' = filterText /\ purpose \in {"redirect", "file"}
  BY Zenon DEF SubmitForFlow
<1>2. filterText' \in Seq(Letters) /\ text \in Seq(Letters) /\ flow \in Flows
  BY <1>1, Zenon DEF PInv, TextsAre, HasItsFlow
<1>3. CASE Trim(text) = <<>>
  <2>1. rule' = rule /\ madeFor' = madeFor
    BY <1>3, Zenon DEF SubmitForFlow
  <2>2. RulesAre'
    BY <2>1, RulesStay, Zenon DEF PInv
  <2> QED BY <1>1, <1>2, <2>2, ClosesAPrompt, Zenon
<1>4. CASE Trim(text) # <<>>
  <2>1. Reads(line, flow)
    BY <1>4, Zenon DEF SubmitForFlow
  <2>2. Ending(t)
    BY <1>1, <1>2, <1>4, TypedIsEnding, Zenon
  <2>3. line = MadeFrom(flow, t)
    <3>1. purpose \in Letters
      BY <1>1, LettersAre, Zenon
    <3>2. RuleFor(flow) \in Seq(Letters) /\ Trim(text) \in Seq(Letters)
      BY <1>2, FlowIs, TrimIs, Zenon DEF Flowing, IsTrim
    <3>3. TypedText(RuleFor(flow), Space, "::", purpose, "=", Trim(text))
      BY <3>1, <3>2, LettersAre, ThreeAndTwo, Zenon
    <3> QED BY <3>3, Zenon DEF MadeFrom, TypedText
  <2> HIDE DEF t, line
  <2>4. IsFor(MadeFrom(flow, t), flow)
    BY <1>2, <2>2, MadeIsFor, Zenon DEF Ending
  <2>5. RulesAre'
    BY <2>1, <2>3, <2>4, ReadsARule, Zenon DEF PInv
  <2> QED BY <1>1, <1>2, <2>5, ClosesAPrompt, Zenon
<1> QED BY <1>3, <1>4, Zenon

-----------------------------------------------------------------------------

LEMMA PInvInit == ASSUME LineInit PROVE PInv
<1>1. /\ keys \in FilterKeys \cup RuleKeys /\ pressed = 0 /\ purpose = "closed" /\ text = <<>>
      /\ caret = 0 /\ flow = NoFlow /\ filterText = <<>> /\ rule = NoRule /\ madeFor = NoFlow
  BY Zenon DEF LineInit
<1>2. pressed \in 0 .. MaxPressed[keys]
  BY <1>1, PromptsAssumption
<1>3. /\ "closed" \in {"closed", "filter", "new", "edit", "redirect", "file"}
      /\ "closed" \notin {"redirect", "file"} /\ NoFlow \in Flows \cup {NoFlow}
  OBVIOUS
<1>4. LineTypeOK
  BY <1>1, <1>2, <1>3, EmptyText, Zenon DEF LineTypeOK
<1> QED BY <1>1, <1>3, <1>4, EmptyText, Zenon
        DEF PInv, TextsAre, HasItsFlow, RulesAre, RuleKept, FitsItsFlow

LEMMA PInvNext == ASSUME PInv, [LineNext]_lineVars PROVE PInv'
<1>1. CASE LineNext
  BY <1>1, Opening, Breaking, Typing, Erasing, Deleting, Moving, Cancelling, Filtering,
     Submitting, SubmittingForFlow, Zenon DEF LineNext
<1>2. CASE UNCHANGED lineVars
  <2>1. /\ keys' = keys /\ pressed' = pressed /\ purpose' = purpose /\ text' = text /\ caret' = caret
        /\ flow' = flow /\ filterText' = filterText /\ rule' = rule /\ madeFor' = madeFor
    BY <1>2, Zenon DEF lineVars
  <2>2. RulesAre'
    BY <2>1, RulesStay, Zenon DEF PInv
  <2>3. LineTypeOK' /\ TextsAre' /\ HasItsFlow'
    BY <2>1, Zenon DEF PInv, LineTypeOK, TextsAre, HasItsFlow
  <2> QED BY <2>2, <2>3, Zenon DEF PInv
<1> QED BY <1>1, <1>2, Zenon

LEMMA PInvMeans == ASSUME PInv PROVE RuleIsMeant
<1>1. SurvivesEdit
  <2>1. CASE rule = NoRule
    BY <2>1, Zenon DEF SurvivesEdit
  <2>2. CASE IsRule(rule, Letters)
    BY <2>2, LettersAre, RuleReadsAgain, Zenon DEF SurvivesEdit
  <2> QED BY <2>1, <2>2, Zenon DEF PInv, RulesAre, RuleKept
<1> QED BY <1>1, Zenon DEF PInv, RulesAre, RuleIsMeant

(* A rule stays what it is through an edit, and one made for a flow is for *)
(* that flow: whatever is typed, at any length and over any alphabet, and  *)
(* whatever the flows are (RuleIsMeant).                                   *)
THEOREM RuleIsMeantAlways == LineSpec => []RuleIsMeant
<1>1. LineInit => PInv
  BY PInvInit
<1>2. PInv /\ [LineNext]_lineVars => PInv'
  BY PInvNext
<1>3. PInv => RuleIsMeant
  BY PInvMeans
<1> QED BY <1>1, <1>2, <1>3, PTL DEF LineSpec

=============================================================================
