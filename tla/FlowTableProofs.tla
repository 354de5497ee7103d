--------------------------- MODULE FlowTableProofs ---------------------------
(* Proofs about FlowTable, for any filters, sizes of the terminal and      *)
(* limits: the table shows what it is asked to, and the operator keeps the *)
(* flow he has selected.                                                   *)
EXTENDS FlowTable, FiniteSetTheorems, WellFoundedInduction, TLAPS

-----------------------------------------------------------------------------
(* Induction over the natural numbers, by sets.                            *)

(* A set of natural numbers has a least element.                           *)
LEMMA LeastNat ==
  ASSUME NEW S, S \subseteq Nat, S # {}
  PROVE  \E x \in S : \A y \in S : x <= y
<1> DEFINE R == OpToRel(<, Nat)
<1>1. \E x \in S : \A y \in S : ~ (<<y, x>> \in R)
  <2>1. IsWellFoundedOn(R, Nat)
    BY NatLessThanWellFounded
  <2> HIDE DEF R
  <2> QED BY <2>1, WFMin
<1>2. ASSUME NEW x \in Nat, NEW y \in Nat, y < x PROVE <<y, x>> \in R
  BY <1>2 DEF OpToRel
<1>3. PICK x \in S : \A y \in S : ~ (<<y, x>> \in R)
  BY <1>1
<1>4. ASSUME NEW y \in S PROVE ~ (y < x)
  BY <1>4, <1>3, <1>2, Zenon
<1> QED BY <1>4

(* A set that holds 0, and with every number up to N the next one, holds   *)
(* every number up to N.                                                   *)
LEMMA UpTo ==
  ASSUME NEW N \in Nat, NEW S, 0 \in S, \A n \in 0 .. N - 1 : n \in S => n + 1 \in S
  PROVE  \A n \in 0 .. N : n \in S
<1> DEFINE T == (0 .. N) \ S
<1> SUFFICES ASSUME T # {} PROVE FALSE
  OBVIOUS
<1>1. PICK x \in T : \A y \in T : x <= y
  <2>1. T \subseteq Nat
    OBVIOUS
  <2> HIDE DEF T
  <2> QED BY <2>1, LeastNat
<1>2. x # 0 /\ x - 1 \in 0 .. N - 1
  BY <1>1
<1> QED BY <1>1, <1>2

-----------------------------------------------------------------------------
(* What the loop of applyFilter lets through.                              *)

Step(k, l, text, on, n) ==
  IF n = 0 THEN <<>>
  ELSE IF LetThrough(l[n], text, on) THEN Append(k[n - 1], l[n]) ELSE k[n - 1]

Partial(k, l, text, on, N) == k = [n \in 0 .. N |-> Step(k, l, text, on, n)]

(* The loop runs through: its table of partial results exists.             *)
LEMMA LoopRuns ==
  ASSUME NEW l, NEW text, NEW on, NEW N \in Nat
  PROVE  \E k : Partial(k, l, text, on, N)
<1> DEFINE Runs(m) == \E k : k = [n \in 0 .. m |-> Step(k, l, text, on, n)]
           S == {m \in 0 .. N : Runs(m)}
<1>1. Runs(0)
  <2>1. [n \in 0 .. 0 |-> <<>>] = [n \in 0 .. 0 |-> Step([i \in 0 .. 0 |-> <<>>], l, text, on, n)]
    BY DEF Step
  <2> QED BY <2>1, Zenon
<1>2. ASSUME NEW m \in 0 .. N - 1, Runs(m) PROVE Runs(m + 1)
  <2>1. PICK k : k = [n \in 0 .. m |-> Step(k, l, text, on, n)]
    BY <1>2, Zenon
  <2> DEFINE g == [n \in 0 .. m + 1 |-> IF n = m + 1 THEN Step(k, l, text, on, n) ELSE k[n]]
  <2>2. ASSUME NEW n \in 0 .. m + 1 PROVE g[n] = Step(g, l, text, on, n)
    <3>1. n # 0 => g[n - 1] = k[n - 1]
      OBVIOUS
    <3>2. Step(g, l, text, on, n) = Step(k, l, text, on, n)
      BY <3>1 DEF Step
    <3>3. n # m + 1 => k[n] = Step(k, l, text, on, n)
      <4>1. n # m + 1 => n \in 0 .. m
        OBVIOUS
      <4> QED BY <2>1, <4>1, Zenon
    <3> QED BY <3>2, <3>3
  <2>3. g = [n \in 0 .. m + 1 |-> g[n]]
    OBVIOUS
  <2>4. g = [n \in 0 .. m + 1 |-> Step(g, l, text, on, n)]
    <3> HIDE DEF g
    <3> QED BY <2>2, <2>3, Zenon
  <2> HIDE DEF g
  <2> QED BY <2>4, Zenon
<1>3. \A n \in 0 .. N - 1 : n \in S => n + 1 \in S
  <2> HIDE DEF Runs
  <2> QED BY <1>2
<1>4. 0 \in S
  <2> HIDE DEF Runs
  <2> QED BY <1>1
<1>5. N \in S
  <2> HIDE DEF S
  <2> QED BY <1>3, <1>4, UpTo
<1> QED BY <1>5, Zenon DEF Partial

(* Passing returns exactly the flows that both filters let through, in the *)
(* order they are listed in.                                               *)
THEOREM PassingIsWhatMatches ==
  ASSUME NEW l \in Seq(Flow), NEW text, NEW on
  PROVE  /\ Passing(l, text, on) \in Seq(Flow)
         /\ ToSet(Passing(l, text, on)) = {f \in ToSet(l) : LetThrough(f, text, on)}
         /\ Ascending(l) => Ascending(Passing(l, text, on))
<1> DEFINE kept == CHOOSE k : k = [n \in 0 .. Len(l) |-> Step(k, l, text, on, n)]
           First(n) == {l[i] : i \in 1 .. n}
           Good(n) == /\ kept[n] \in Seq(Flow)
                      /\ ToSet(kept[n]) = {f \in First(n) : LetThrough(f, text, on)}
                      /\ Ascending(l) => Ascending(kept[n])
           S == {n \in 0 .. Len(l) : Good(n)}
<1>1. Passing(l, text, on) = kept[Len(l)]
  BY Zenon DEF Passing, Step
<1>2. ASSUME NEW n \in 0 .. Len(l) PROVE kept[n] = Step(kept, l, text, on, n)
  <2>1. Len(l) \in Nat
    OBVIOUS
  <2>2. \E k : Partial(k, l, text, on, Len(l))
    BY <2>1, LoopRuns, Zenon
  <2>3. kept = [i \in 0 .. Len(l) |-> Step(kept, l, text, on, i)]
    BY <2>2, Zenon DEF Partial
  <2> HIDE DEF kept
  <2> QED BY <2>3, Zenon
<1> HIDE DEF kept
<1>3. Good(0)
  <2>1. kept[0] = <<>>
    BY <1>2 DEF Step
  <2> QED BY <2>1 DEF ToSet, Ascending
<1>4. ASSUME NEW n \in 0 .. Len(l) - 1, Good(n) PROVE Good(n + 1)
  <2> DEFINE f == l[n + 1]
  <2>1. f \in Flow /\ First(n + 1) = First(n) \cup {f}
    OBVIOUS
  <2>2. kept[n + 1] = IF LetThrough(f, text, on) THEN Append(kept[n], f) ELSE kept[n]
    BY <1>2 DEF Step
  <2>3. CASE ~ LetThrough(f, text, on)
    <3>1. {g \in First(n + 1) : LetThrough(g, text, on)} = {g \in First(n) : LetThrough(g, text, on)}
      BY <2>1, <2>3, Zenon
    <3> QED BY <2>2, <2>3, <3>1, <1>4, Zenon
  <2>4. CASE LetThrough(f, text, on)
    <3>1. {g \in First(n + 1) : LetThrough(g, text, on)} = {g \in First(n) : LetThrough(g, text, on)} \cup {f}
      BY <2>1, <2>4, Zenon
    <3> DEFINE k == kept[n]
    <3>2. kept[n + 1] = Append(k, f) /\ k \in Seq(Flow)
      BY <2>2, <2>4, <1>4
    <3>3. ToSet(Append(k, f)) = ToSet(k) \cup {f} /\ Append(k, f) \in Seq(Flow)
      <4> HIDE DEF k, f
      <4>1. Append(k, f) \in Seq(Flow) /\ DOMAIN Append(k, f) = DOMAIN k \cup {Len(k) + 1}
        BY <2>1, <3>2
      <4>2. (\A i \in DOMAIN k : Append(k, f)[i] = k[i]) /\ Append(k, f)[Len(k) + 1] = f
        BY <2>1, <3>2
      <4> QED BY <4>1, <4>2, Zenon DEF ToSet
    <3>4. ASSUME Ascending(l) PROVE Ascending(Append(k, f))
      <4>1. ASSUME NEW i \in DOMAIN k PROVE k[i].id < f.id
        <5>1. k[i] \in First(n)
          BY <1>4 DEF ToSet
        <5>2. PICK j \in 1 .. n : k[i] = l[j]
          BY <5>1
        <5> QED BY <5>2, <3>4 DEF Ascending
      <4>2. Ascending(k)
        BY <1>4, <3>4
      <4> HIDE DEF k, f
      <4> QED BY <4>1, <4>2, <3>2, <2>1 DEF Ascending
    <3> QED BY <1>4, <3>1, <3>2, <3>3, <3>4, Zenon
  <2> QED BY <2>3, <2>4
<1>5. Good(Len(l))
  <2>1. 0 \in S /\ (\A n \in 0 .. Len(l) - 1 : n \in S => n + 1 \in S)
    <3> HIDE DEF Good
    <3> QED BY <1>3, <1>4
  <2> HIDE DEF S
  <2>2. Len(l) \in Nat /\ Len(l) \in 0 .. Len(l)
    OBVIOUS
  <2>3. Len(l) \in S
    BY <2>1, <2>2, UpTo, Zenon
  <2> USE DEF S
  <2> HIDE DEF Good
  <2> QED BY <2>3
<1>6. First(Len(l)) = ToSet(l)
  BY DEF ToSet
<1> HIDE DEF First
<1> QED BY <1>1, <1>5, <1>6

-----------------------------------------------------------------------------
(* The table, as the helpers of its keys and applyFilter leave it.         *)

(* The two of a pair that Min and Max choose.                              *)
LEMMA Pair ==
  ASSUME NEW a \in Int, NEW b \in Int
  PROVE  /\ Min({a, b}) = IF a <= b THEN a ELSE b
         /\ Max({a, b}) = IF a <= b THEN b ELSE a
<1>1. \A x \in {a, b} : (\A y \in {a, b} : x <= y) <=> x = IF a <= b THEN a ELSE b
  OBVIOUS
<1>2. \A x \in {a, b} : (\A y \in {a, b} : x >= y) <=> x = IF a <= b THEN b ELSE a
  OBVIOUS
<1>3. Min({a, b}) = IF a <= b THEN a ELSE b
  <2>1. \E x \in {a, b} : \A y \in {a, b} : x <= y
    BY <1>1
  <2>2. Min({a, b}) \in {a, b} /\ \A y \in {a, b} : Min({a, b}) <= y
    BY <2>1, Zenon DEF Min
  <2> QED BY <1>1, <2>2
<1>4. Max({a, b}) = IF a <= b THEN b ELSE a
  <2>1. \E x \in {a, b} : \A y \in {a, b} : x >= y
    BY <1>2
  <2>2. Max({a, b}) \in {a, b} /\ \A y \in {a, b} : Max({a, b}) >= y
    BY <2>1, Zenon DEF Max
  <2> QED BY <1>2, <2>2
<1> QED BY <1>3, <1>4

Table == [shown : Seq(Flow), sel : Int, follow : BOOLEAN, scroll : Nat]
Row == Nat \ {0}

(* The selection is in the table, and at its end if it follows it.         *)
Inside(t) ==
  /\ t \in Table /\ Ascending(t.shown)
  /\ t.shown = <<>> => t.sel \in {-1, 0}
  /\ t.shown # <<>> => /\ t.sel \in 0 .. Len(t.shown) - 1
                       /\ t.follow => t.sel = Len(t.shown) - 1

(* The selection is among the rows drawn.                                  *)
Fits(t, n) == t.shown # <<>> => t.sel \in t.scroll .. t.scroll + n - 1

(* ensureVisible scrolls, and no more than scrolls.                        *)
LEMMA EnsureVisibleFits ==
  ASSUME rows \in Row, NEW t \in Table
  PROVE  /\ EnsureVisible(t) \in Table
         /\ EnsureVisible(t).shown = t.shown /\ EnsureVisible(t).sel = t.sel
         /\ EnsureVisible(t).follow = t.follow
         /\ t.sel >= 0 => Fits(EnsureVisible(t), rows)
<1> DEFINE low == Min({t.scroll, t.sel})
           top == IF t.sel >= low + rows THEN t.sel - rows + 1 ELSE low
           s == Max({0, top})
           r == [t EXCEPT !.scroll = s]
<1>1. t.scroll \in Nat /\ t.sel \in Int /\ rows \in Nat /\ rows > 0
  BY DEF Table, Row
<1>2. low = IF t.scroll <= t.sel THEN t.scroll ELSE t.sel
  BY <1>1, Pair
<1>3. top \in Int
  BY <1>1, <1>2
<1>4. s = IF 0 <= top THEN top ELSE 0
  <2> HIDE DEF top
  <2> QED BY <1>3, Pair
<1>5. s \in Nat /\ (t.sel >= 0 => t.sel \in s .. s + rows - 1)
  <2> HIDE DEF s
  <2>1. low \in Int
    BY <1>1, <1>2
  <2> HIDE DEF low
  <2> QED BY <1>1, <1>2, <1>4, <2>1
<1>6. EnsureVisible(t) = r
  BY Zenon DEF EnsureVisible
<1>7. /\ r \in Table /\ r.shown = t.shown /\ r.sel = t.sel /\ r.follow = t.follow
      /\ r.scroll = s
  <2> HIDE DEF s
  <2> QED BY <1>5 DEF Table
<1> HIDE DEF s, r
<1> QED BY <1>5, <1>6, <1>7 DEF Fits

(* What the keys of the table leave: a selection moved into the table.     *)
LEMMA ClampedInside ==
  ASSUME rows \in Row, NEW t \in Table, Ascending(t.shown),
         t.follow => t.sel >= Len(t.shown) - 1
  PROVE  /\ Inside(Clamped(t)) /\ Fits(Clamped(t), rows) /\ Clamped(t).shown = t.shown
<1> DEFINE sel == Min({Max({0, t.sel}), Len(t.shown) - 1})
           r == [t EXCEPT !.sel = sel]
<1>1. t.sel \in Int /\ Len(t.shown) \in Nat /\ (t.shown = <<>> <=> Len(t.shown) = 0)
  BY DEF Table
<1>2. Max({0, t.sel}) = IF 0 <= t.sel THEN t.sel ELSE 0
  <2>1. 0 \in Int /\ t.sel \in Int
    BY <1>1
  <2> QED BY <2>1, Pair, Zenon
<1>3. sel = IF Max({0, t.sel}) <= Len(t.shown) - 1 THEN Max({0, t.sel}) ELSE Len(t.shown) - 1
  <2>1. Max({0, t.sel}) \in Int /\ Len(t.shown) - 1 \in Int
    BY <1>1, <1>2
  <2> QED BY <2>1, Pair
<1>4. sel \in Int
  <2> HIDE DEF sel
  <2> QED BY <1>1, <1>2, <1>3
<1>5. /\ t.shown = <<>> => sel = -1
      /\ t.shown # <<>> => /\ sel \in 0 .. Len(t.shown) - 1
                           /\ t.follow => sel = Len(t.shown) - 1
  <2> HIDE DEF sel
  <2> QED BY <1>1, <1>2, <1>3
<1>6. r \in Table /\ r.shown = t.shown /\ r.sel = sel /\ r.follow = t.follow
  <2> HIDE DEF sel
  <2> QED BY <1>4 DEF Table
<1>7. Clamped(t) = EnsureVisible(r)
  BY Zenon DEF Clamped
<1> HIDE DEF sel, r
<1>8. /\ EnsureVisible(r) \in Table
      /\ EnsureVisible(r).shown = r.shown /\ EnsureVisible(r).sel = r.sel
      /\ EnsureVisible(r).follow = r.follow
      /\ r.sel >= 0 => Fits(EnsureVisible(r), rows)
  BY <1>6, EnsureVisibleFits
<1>9. Inside(EnsureVisible(r))
  BY <1>5, <1>6, <1>8 DEF Inside
<1>10. Fits(EnsureVisible(r), rows)
  BY <1>5, <1>6, <1>8 DEF Fits
<1> QED BY <1>6, <1>7, <1>8, <1>9, <1>10

(* applyFilter.  A selection that neither follows the newest flow nor lies *)
(* behind the end of the table stays where it is.                          *)
LEMMA FilteredInside ==
  ASSUME rows \in Row, NEW t \in Table, NEW l \in Seq(Flow), Ascending(l), NEW text, NEW on
  PROVE  /\ Inside(Filtered(t, l, text, on)) /\ Fits(Filtered(t, l, text, on), rows)
         /\ Filtered(t, l, text, on).shown = Passing(l, text, on)
         /\ ~ t.follow /\ t.sel \in 0 .. Len(Passing(l, text, on)) - 1 =>
              Filtered(t, l, text, on).sel = t.sel /\ ~ Filtered(t, l, text, on).follow
<1> DEFINE shown == Passing(l, text, on)
           last == Len(shown) - 1
           follow == t.follow \/ t.sel > last
           sel == Max({0, IF follow THEN last ELSE t.sel})
           r == [t EXCEPT !.shown = shown, !.follow = follow, !.sel = sel]
<1>1. shown \in Seq(Flow) /\ Ascending(shown)
  BY PassingIsWhatMatches
<1> HIDE DEF shown
<1>2. /\ Len(shown) \in Nat /\ (shown = <<>> <=> Len(shown) = 0)
      /\ t.sel \in Int /\ t.follow \in BOOLEAN /\ follow \in BOOLEAN
  BY <1>1 DEF Table
<1>3. sel = IF 0 <= (IF follow THEN last ELSE t.sel) THEN IF follow THEN last ELSE t.sel ELSE 0
  <2>1. 0 \in Int /\ (IF follow THEN last ELSE t.sel) \in Int
    BY <1>2
  <2> HIDE DEF follow, last
  <2> QED BY <2>1, Pair, Zenon
<1>4. /\ sel \in Nat
      /\ shown = <<>> => sel = 0
      /\ shown # <<>> => sel \in 0 .. last /\ (follow => sel = last)
      /\ ~ t.follow /\ t.sel \in 0 .. last => sel = t.sel /\ ~ follow
  <2> HIDE DEF sel
  <2> QED BY <1>2, <1>3
<1>5. r \in Table /\ r.shown = shown /\ r.sel = sel /\ r.follow = follow
  <2>1. sel \in Int /\ follow \in BOOLEAN
    BY <1>2, <1>4
  <2> HIDE DEF sel, follow
  <2> QED BY <1>1, <2>1 DEF Table
<1>6. Filtered(t, l, text, on) = EnsureVisible(r)
  BY Zenon DEF Filtered, shown
<1> HIDE DEF sel, r, follow
<1>7. /\ EnsureVisible(r) \in Table
      /\ EnsureVisible(r).shown = r.shown /\ EnsureVisible(r).sel = r.sel
      /\ EnsureVisible(r).follow = r.follow
      /\ r.sel >= 0 => Fits(EnsureVisible(r), rows)
  BY <1>5, EnsureVisibleFits
<1>8. Inside(EnsureVisible(r)) /\ Fits(EnsureVisible(r), rows)
  BY <1>1, <1>4, <1>5, <1>7 DEF Inside
<1>9. EnsureVisible(r).shown = shown
  BY <1>5, <1>7
<1>10. ~ t.follow /\ t.sel \in 0 .. Len(shown) - 1 =>
         EnsureVisible(r).sel = t.sel /\ ~ EnsureVisible(r).follow
  BY <1>4, <1>5, <1>7
<1> QED BY <1>6, <1>8, <1>9, <1>10 DEF shown

-----------------------------------------------------------------------------
(* What refresh takes for the flow of the detail view.                     *)

LatestIn(l, f) ==
  IF \E g \in ToSet(l) : g.id = f.id THEN CHOOSE g \in ToSet(l) : g.id = f.id ELSE f

(* Flows are numbered from one.                                            *)
LEMMA FlowIDs == /\ MaxID \in Nat /\ MaxFlows \in Nat \ {0}
                 /\ \A f \in Flow : f.id \in 1 .. MaxID /\ f.settled \in BOOLEAN
                 /\ NoFlow.id = 0 /\ NoFlow \notin Flow
<1>1. MaxID \in Nat /\ MaxFlows \in Nat \ {0}
  BY FlowTableAssumption, Zenon
<1>2. \A f \in Flow : f.id \in 1 .. MaxID /\ f.settled \in BOOLEAN
  BY Zenon DEF Flow
<1>3. NoFlow.id = 0
  BY Zenon DEF NoFlow
<1>4. 0 \notin 1 .. MaxID
  BY <1>1
<1> QED BY <1>1, <1>2, <1>3, <1>4, Zenon

(* It is the listed flow of that number, or the flow itself.               *)
LEMMA LatestIsListed ==
  ASSUME NEW l \in Seq(Flow), Ascending(l), NEW f \in Flow
  PROVE  /\ LatestIn(l, f) \in Flow
         /\ LatestIn(l, LatestIn(l, f)) = LatestIn(l, f)
         /\ f \in ToSet(l) => LatestIn(l, f) = f
<1>1. \A g \in ToSet(l) : g \in Flow
  BY DEF ToSet
<1> \A i \in DOMAIN l : i \in Nat /\ l[i].id \in Int
  <2>1. \A i \in DOMAIN l : i \in Nat /\ l[i] \in Flow
    OBVIOUS
  <2> QED BY <2>1, FlowIDs
<1>2. ASSUME NEW g \in ToSet(l), NEW h \in ToSet(l), g.id = h.id PROVE g = h
  <2>1. PICK i \in DOMAIN l : g = l[i]
    BY DEF ToSet
  <2>2. PICK j \in DOMAIN l : h = l[j]
    BY DEF ToSet
  <2>3. i = j
    BY <1>2, <2>1, <2>2 DEF Ascending
  <2> QED BY <2>1, <2>2, <2>3
<1>3. ASSUME NEW e, \E g \in ToSet(l) : g.id = e.id
      PROVE  LatestIn(l, e) \in ToSet(l) /\ LatestIn(l, e).id = e.id
  BY <1>3, Zenon DEF LatestIn
<1>4. ASSUME NEW e \in ToSet(l) PROVE LatestIn(l, e) = e
  BY <1>2, <1>3, <1>4, Zenon
<1>5. CASE \E g \in ToSet(l) : g.id = f.id
  BY <1>1, <1>3, <1>4, <1>5, Zenon
<1>6. CASE ~ \E g \in ToSet(l) : g.id = f.id
  <2>1. LatestIn(l, f) = f
    BY <1>6, Zenon DEF LatestIn
  <2> QED BY <1>6, <2>1, Zenon
<1> QED BY <1>5, <1>6, Zenon

-----------------------------------------------------------------------------
(* TableInv in the terms of the lemmas.                                    *)

Lists ==
  /\ stored \in Seq(Flow) /\ flows \in Seq(Flow) /\ nextID \in 0 .. MaxID
  /\ Ascending(stored) /\ Ascending(flows) /\ \A f \in ToSet(stored) : f.id <= nextID
  /\ signal \in BOOLEAN /\ (~signal => flows = stored)

Prompts == {"none", "filter", "other"}

Types ==
  /\ size \in Sizes /\ rows \in Row /\ filterText \in Filters /\ view \in Views
  /\ prompt \in Prompts /\ {saved, redrawn, switched} \subseteq BOOLEAN

Details ==
  /\ detail \in Flow \cup {NoFlow}
  /\ view = "detail" => detail \in Flow /\ (~signal => detail = LatestIn(stored, detail))

TheTable == Inside(table) /\ (~redrawn => Fits(table, rows))

Shown ==
  /\ ToSet(table.shown) \subseteq ToSet(flows)
  /\ ~switched => table.shown = Passing(flows, filterText, saved)

(* The conjuncts of TableInv, ordered by what they speak of.               *)
LEMMA TableInvIs ==
  TableInv <=> Lists /\ Types /\ Details /\ TheTable /\ Shown /\ BarIsSeen
<1>1. Latest(detail) = LatestIn(stored, detail)
  BY Zenon DEF Latest, LatestIn
<1>3. ASSUME Details
      PROVE  /\ detail \in Flow \cup {NoFlow} /\ (view = "detail" => detail # NoFlow)
             /\ DetailIsCurrent
  BY <1>1, <1>3, FlowIDs, Zenon DEF Details, DetailIsCurrent
<1>4. TypeOK /\ DetailIsCurrent => Details
  BY <1>1, Zenon DEF Details, DetailIsCurrent, TypeOK
<1>5. ASSUME table \in Table
      PROVE  TheTable <=>
               /\ Ascending(table.shown) /\ SelectionIsDrawn /\ FollowsNewest
               /\ table.sel \in -1 .. Max({0, End}) /\ (table.sel = -1 => table.shown = <<>>)
  <2>1. /\ Len(table.shown) \in Nat /\ (table.shown = <<>> <=> Len(table.shown) = 0)
        /\ End = Len(table.shown) - 1 /\ End \in Int
    BY <1>5 DEF Table, End
  <2>2. Max({0, End}) = IF 0 <= End THEN End ELSE 0
    <3>1. 0 \in Int /\ End \in Int
      BY <2>1
    <3> QED BY <3>1, Pair, Zenon
  <2>3. table.sel \in Int /\ table.follow \in BOOLEAN /\ table.shown \in Seq(Flow)
    BY <1>5 DEF Table
  <2>4. /\ table.sel \in -1 .. Max({0, End}) <=> table.sel >= -1 /\ table.sel <= Max({0, End})
        /\ table.sel \in 0 .. Len(table.shown) - 1 <=> table.sel >= 0 /\ table.sel <= End
        /\ table.sel \in {-1, 0} <=> table.sel = -1 \/ table.sel = 0
    BY <2>1, <2>2, <2>3
  <2>5. /\ Inside(table) <=>
             /\ Ascending(table.shown)
             /\ table.shown = <<>> => table.sel = -1 \/ table.sel = 0
             /\ table.shown # <<>> => /\ table.sel >= 0 /\ table.sel <= End
                                      /\ table.follow => table.sel = End
        /\ (~redrawn => Fits(table, rows)) <=> SelectionIsDrawn
    BY <1>5, <2>1, <2>4, Zenon DEF Inside, Fits, SelectionIsDrawn
  <2>6. (/\ table.shown = <<>> => table.sel = -1 \/ table.sel = 0
         /\ table.shown # <<>> => /\ table.sel >= 0 /\ table.sel <= End
                                  /\ table.follow => table.sel = End) <=>
        (/\ table.sel >= -1 /\ table.sel <= Max({0, End})
         /\ table.sel = -1 => table.shown = <<>>
         /\ table.follow /\ table.shown # <<>> => table.sel = End)
    BY <2>1, <2>2, <2>3
  <2> QED BY <2>4, <2>5, <2>6, Zenon DEF TheTable, FollowsNewest
<1>6. TableInv => table \in Table
  BY DEF TableInv, TypeOK, Table
<1>7. TheTable => table \in Table
  BY DEF TheTable, Inside
<1>8. ASSUME TableInv PROVE Lists /\ Types /\ Details /\ TheTable /\ Shown /\ BarIsSeen
  <2>1. TypeOK /\ Numbered /\ ShownIsMeant /\ SelectionIsDrawn /\ FollowsNewest /\ DetailIsCurrent /\ BarIsSeen
    BY <1>8 DEF TableInv
  <2>2. Lists
    BY <2>1, Zenon DEF Lists, TypeOK, Numbered, ShownIsMeant
  <2>3. Types
    BY <2>1, Zenon DEF Types, TypeOK, Prompts, Row
  <2>4. TheTable
    BY <1>5, <1>6, <1>8, <2>1, Zenon DEF TypeOK, Numbered
  <2> QED BY <1>4, <2>1, <2>2, <2>3, <2>4, Zenon DEF Shown, ShownIsMeant
<1>9. ASSUME Lists, Types, Details, TheTable, Shown, BarIsSeen PROVE TableInv
  <2>1. table \in Table /\ Ascending(table.shown) /\ SelectionIsDrawn /\ FollowsNewest
    BY <1>5, <1>7, <1>9, Zenon
  <2>2. /\ detail \in Flow \cup {NoFlow} /\ (view = "detail" => detail # NoFlow)
        /\ DetailIsCurrent
    BY <1>3, <1>9, Zenon
  <2>3. table.sel \in -1 .. Max({0, End}) /\ (table.sel = -1 => table.shown = <<>>)
    BY <1>5, <1>7, <1>9, Zenon
  <2>4. TypeOK
    BY <1>9, <2>1, <2>2, <2>3, Zenon DEF TypeOK, Lists, Types, Prompts, Row, Table
  <2>5. Numbered /\ ShownIsMeant
    BY <1>9, <2>1, Zenon DEF Numbered, Lists, Shown, ShownIsMeant
  <2> QED BY <1>9, <2>1, <2>2, <2>4, <2>5, Zenon DEF TableInv
<1> QED BY <1>8, <1>9, Zenon

-----------------------------------------------------------------------------
(* How events keep TableInv.                                               *)

(* What only looks at the store, or refreshes.                             *)
LEMMA ListsKept ==
  ASSUME Lists, UNCHANGED <<stored, nextID>>,
         UNCHANGED <<signal, flows>> \/ (signal' \in BOOLEAN /\ flows' = stored)
  PROVE  Lists'
<1>1. CASE UNCHANGED <<signal, flows>>
  <2>1. stored' = stored /\ nextID' = nextID /\ signal' = signal /\ flows' = flows
    BY <1>1
  <2> QED BY <2>1 DEF Lists
<1>2. CASE signal' \in BOOLEAN /\ flows' = stored
  <2>1. stored' = stored /\ nextID' = nextID /\ signal' \in BOOLEAN /\ flows' = stored
    BY <1>2
  <2> QED BY <2>1 DEF Lists
<1> QED BY <1>1, <1>2

(* Exchanges that come and go signal, and leave the screen as it is.       *)
LEMMA StoreKeeps ==
  ASSUME TableInv, Captured \/ Settles
  PROVE  TableInv'
<1> Lists /\ Types /\ Details /\ TheTable /\ Shown /\ BarIsSeen
  BY TableInvIs
<1>1. signal' = TRUE /\ UNCHANGED screen
  BY DEF Captured, Settles
<1>2. /\ stored' \in Seq(Flow) /\ Ascending(stored') /\ nextID' \in 0 .. MaxID
      /\ \A f \in ToSet(stored') : f.id <= nextID'
  <2>1. /\ stored \in Seq(Flow) /\ Ascending(stored) /\ nextID \in 0 .. MaxID
        /\ \A i \in DOMAIN stored : stored[i].id <= nextID /\ stored[i].id \in Nat
    <3>1. \A i \in DOMAIN stored : stored[i] \in Flow /\ stored[i] \in ToSet(stored)
      BY DEF Lists, ToSet
    <3>2. \A i \in DOMAIN stored : stored[i].id \in 1 .. MaxID
      BY <3>1, FlowIDs, Zenon
    <3> QED BY <3>1, <3>2, FlowIDs DEF Lists
  <2>2. SUFFICES /\ stored' \in Seq(Flow) /\ Ascending(stored') /\ nextID' \in 0 .. MaxID
                 /\ \A i \in DOMAIN stored' : stored'[i].id <= nextID'
    BY Zenon DEF ToSet
  <2>3. CASE Captured
    <3> DEFINE f == [id |-> nextID', settled |-> FALSE]
               l == Append(stored, f)
    <3>1. /\ nextID' = nextID + 1 /\ nextID' \in 0 .. MaxID
          /\ stored' = IF Len(l) > MaxFlows THEN Tail(l) ELSE l
      BY <2>1, <2>3, FlowIDs DEF Captured
    <3>2. f \in Flow /\ f.id = nextID'
      BY <2>1, <3>1, FlowIDs DEF Flow
    <3> HIDE DEF f
    <3>3. /\ l \in Seq(Flow) /\ Len(l) = Len(stored) + 1 /\ l # <<>>
          /\ \A i \in DOMAIN l : l[i] = IF i = Len(l) THEN f ELSE stored[i]
      BY <2>1, <3>2
    <3>4. Ascending(l) /\ (\A i \in DOMAIN l : l[i].id <= nextID')
      <4> HIDE DEF l
      <4>1. DOMAIN stored = 1 .. Len(stored) /\ DOMAIN l = 1 .. Len(l) /\ Len(stored) \in Nat
        BY <2>1, <3>3
      <4> QED BY <2>1, <3>1, <3>2, <3>3, <4>1 DEF Ascending
    <3>5. /\ Tail(l) \in Seq(Flow) /\ Ascending(Tail(l))
          /\ \A i \in DOMAIN Tail(l) : Tail(l)[i].id <= nextID'
      <4> HIDE DEF l
      <4>1. /\ Tail(l) \in Seq(Flow) /\ DOMAIN Tail(l) = 1 .. Len(l) - 1
            /\ \A i \in DOMAIN Tail(l) : i \in Nat /\ i + 1 \in DOMAIN l /\ Tail(l)[i] = l[i + 1]
        BY <3>3
      <4> QED BY <3>4, <4>1 DEF Ascending
    <3> HIDE DEF l
    <3> QED BY <3>1, <3>3, <3>4, <3>5
  <2>4. CASE Settles
    <3>1. PICK k \in 1 .. Len(stored) : stored' = [stored EXCEPT ![k].settled = TRUE]
      BY <2>4 DEF Settles
    <3> DEFINE f == [stored[k] EXCEPT !.settled = TRUE]
    <3>2. f \in Flow /\ f.id = stored[k].id
      <4>1. stored[k] \in Flow
        BY <2>1
      <4> QED BY <4>1 DEF Flow
    <3> HIDE DEF f
    <3>3. stored' = [stored EXCEPT ![k] = f]
      BY <3>1, Zenon DEF f
    <3>4. /\ stored' \in Seq(Flow) /\ DOMAIN stored' = DOMAIN stored
          /\ \A i \in DOMAIN stored : stored'[i].id = stored[i].id
      BY <2>1, <3>2, <3>3
    <3>5. nextID' = nextID
      BY <2>4 DEF Settles
    <3> QED BY <2>1, <3>4, <3>5 DEF Ascending
  <2> QED BY <2>3, <2>4
<1>3. Lists'
  BY <1>1, <1>2 DEF Lists, screen
<1>4. (Types /\ TheTable /\ Shown /\ BarIsSeen)'
  BY <1>1 DEF screen, chosen, Types, TheTable, Shown, BarIsSeen
<1>5. Details'
  BY <1>1 DEF screen, Details
<1> QED BY <1>3, <1>4, <1>5, TableInvIs, PTL

(* Every event that draws the screen ends with a table t and a prompt p;   *)
(* d is the flow shown outside of the flows' view.                         *)
LEMMA DrawnKeeps ==
  ASSUME TableInv, Lists',
         view' \in Views, filterText' \in Filters, {saved', switched', redrawn'} \subseteq BOOLEAN,
         NEW t, Inside(t), NEW p \in Prompts, NEW d \in Flow \cup {NoFlow},
         \/ EndsWith(t, p)
         \/ prompt' = p /\ table' = t /\ (p = "filter" => view' \in {"flows", "editor"}),
         Drawn(d),
         view' = "detail" => d \in Flow /\ (~signal' => d = LatestIn(stored', d)),
         ~redrawn' => rows' = rows /\ Fits(t, rows),
         ToSet(t.shown) \subseteq ToSet(flows'),
         ~switched' => t.shown = Passing(flows', filterText', saved')
  PROVE  TableInv'
<1> DEFINE r == Filtered(t, flows', filterText', saved')
<1>1. rows \in Row /\ size \in Sizes
  BY TableInvIs DEF Types
<1>2. t \in Table /\ flows' \in Seq(Flow) /\ Ascending(flows')
  BY DEF Inside, Lists
<1>3. Inside(r) /\ Fits(r, rows) /\ r.shown = Passing(flows', filterText', saved')
  <2>1. ASSUME NEW l \in Seq(Flow), Ascending(l), NEW text, NEW on
        PROVE  /\ Inside(Filtered(t, l, text, on)) /\ Fits(Filtered(t, l, text, on), rows)
               /\ Filtered(t, l, text, on).shown = Passing(l, text, on)
    BY <1>1, <1>2, <2>1, FilteredInside
  <2> QED BY <1>2, <2>1, Zenon
<1>4. ToSet(Passing(flows', filterText', saved')) \subseteq ToSet(flows')
  BY <1>2, PassingIsWhatMatches
<1> HIDE DEF r
<1>5. /\ \/ table' = t \/ table' = r
      /\ prompt' \in Prompts /\ (prompt' = "filter" => view' \in {"flows", "editor"})
  BY DEF EndsWith, r, Prompts
<1>6. /\ Inside(table') /\ (~redrawn' => Fits(table', rows))
      /\ ToSet(table'.shown) \subseteq ToSet(flows')
      /\ ~switched' => table'.shown = Passing(flows', filterText', saved')
  BY <1>3, <1>4, <1>5, Zenon
<1>7. size' \in Sizes /\ rows' \in Row
  <2>1. size.away \in Row /\ size.plain \in Row /\ size.prompted \in Row
    BY <1>1, FlowTableAssumption, Zenon DEF Row
  <2>2. size' = size /\ rows' \in {size.away, size.plain, size.prompted}
    BY DEF Drawn
  <2> QED BY <1>1, <2>1, <2>2
<1>8. Types'
  BY <1>5, <1>7 DEF Types
<1>9. Details'
  <2>1. \A i : At(table', i) \in Flow \cup {NoFlow}
    BY <1>6 DEF At, Inside, Table
  <2>2. detail' = IF view' = "flows" THEN At(table', table'.sel) ELSE d
    BY DEF Drawn
  <2>3. detail' \in Flow \cup {NoFlow} /\ (view' = "detail" => detail' = d)
    BY <2>1, <2>2
  <2> QED BY <2>3, Zenon DEF Details
<1>10. TheTable'
  BY <1>6, Zenon DEF TheTable
<1>11. Shown' /\ BarIsSeen'
  BY <1>5, <1>6, Zenon DEF Shown, BarIsSeen
<1> QED BY <1>8, <1>9, <1>10, <1>11, TableInvIs, PTL

(* A refresh makes the table anew, and looks up the flow shown in detail.  *)
LEMMA RefreshesKeeps ==
  ASSUME TableInv, UNCHANGED <<stored, nextID>>, signal' \in BOOLEAN,
         view' \in Views, filterText' \in Filters, saved' \in BOOLEAN,
         view' = "detail" => view = "detail",
         NEW p \in Prompts, Refreshes(p)
  PROVE  TableInv'
<1> Lists /\ Types /\ Details /\ TheTable
  BY TableInvIs
<1> DEFINE t == Filtered(table, stored, filterText', saved')
           d == IF view' = "detail" THEN Latest(detail) ELSE detail
<1>1. /\ flows' = stored /\ EndsWith(t, p) /\ Drawn(d)
      /\ redrawn' = (rows' # rows) /\ switched' = FALSE
  BY Zenon DEF Refreshes, Fitted
<1>2. Lists'
  BY <1>1, ListsKept
<1>3. rows \in Row /\ table \in Table /\ stored \in Seq(Flow) /\ Ascending(stored)
  BY DEF Types, TheTable, Inside, Lists
<1>4. Inside(t) /\ Fits(t, rows) /\ t.shown = Passing(stored, filterText', saved')
  <2>1. ASSUME NEW l \in Seq(Flow), Ascending(l), NEW text, NEW on
        PROVE  LET r == Filtered(table, l, text, on)
               IN Inside(r) /\ Fits(r, rows) /\ r.shown = Passing(l, text, on)
    BY <1>3, <2>1, FilteredInside
  <2> QED BY <1>3, <2>1, Zenon
<1>5. ToSet(t.shown) \subseteq ToSet(flows')
  <2>1. ToSet(Passing(stored, filterText', saved')) \subseteq ToSet(stored)
    BY <1>3, PassingIsWhatMatches
  <2> HIDE DEF t
  <2> QED BY <1>1, <1>4, <2>1, Zenon
<1>6. /\ d \in Flow \cup {NoFlow}
      /\ view' = "detail" => d \in Flow /\ (~signal' => d = LatestIn(stored', d))
  <2>1. Latest(detail) = LatestIn(stored, detail) /\ stored' = stored
    BY Zenon DEF Latest, LatestIn
  <2>2. CASE view' = "detail"
    <3>1. detail \in Flow
      BY <2>2 DEF Details
    <3>2. LatestIn(stored, detail) \in Flow
          /\ LatestIn(stored, LatestIn(stored, detail)) = LatestIn(stored, detail)
      BY <1>3, <3>1, LatestIsListed
    <3> QED BY <2>1, <2>2, <3>2, Zenon
  <2>3. CASE view' # "detail"
    BY <2>3 DEF Details
  <2> QED BY <2>2, <2>3
<1>7. {saved', switched', redrawn'} \subseteq BOOLEAN /\ (~redrawn' => rows' = rows)
  BY <1>1
<1> HIDE DEF t, d
<1> QED BY <1>1, <1>2, <1>4, <1>5, <1>6, <1>7, DrawnKeeps, Zenon

(* An event of the table that only looks at the flows.                     *)
LEMMA TableKeeps ==
  ASSUME TableInv, UNCHANGED <<store, flows, saved, switched>>,
         view' \in Views, filterText' \in Filters, redrawn' \in BOOLEAN,
         NEW t, Inside(t), NEW p \in Prompts, NEW d \in Flow \cup {NoFlow},
         \/ EndsWith(t, p)
         \/ prompt' = p /\ table' = t /\ (p = "filter" => view' \in {"flows", "editor"}),
         Drawn(d),
         view' = "detail" => \/ d \in ToSet(table.shown)
                             \/ view = "detail" /\ d = detail,
         ~redrawn' => rows' = rows /\ Fits(t, rows),
         \/ t.shown = table.shown /\ filterText' = filterText
         \/ t.shown = Passing(flows, filterText', saved)
  PROVE  TableInv'
<1> Lists /\ Types /\ Details /\ TheTable /\ Shown
  BY TableInvIs
<1>1. /\ stored' = stored /\ nextID' = nextID /\ signal' = signal /\ flows' = flows
      /\ saved' = saved /\ switched' = switched
  BY DEF store
<1>2. Lists'
  BY <1>1, ListsKept
<1>3. {saved', switched', redrawn'} \subseteq BOOLEAN
  BY <1>1 DEF Types
<1>4. /\ ToSet(t.shown) \subseteq ToSet(flows')
      /\ ~switched' => t.shown = Passing(flows', filterText', saved')
  <2>1. ToSet(Passing(flows, filterText', saved)) \subseteq ToSet(flows)
    <3>1. flows \in Seq(Flow)
      BY DEF Lists
    <3> QED BY <3>1, PassingIsWhatMatches
  <2>2. Passing(flows', filterText', saved') = Passing(flows, filterText', saved)
    BY <1>1, Zenon
  <2>3. ASSUME t.shown = table.shown, filterText' = filterText, ~switched'
        PROVE  t.shown = Passing(flows, filterText', saved)
    <3>1. table.shown = Passing(flows, filterText, saved)
      BY <1>1, <2>3 DEF Shown
    <3> QED BY <2>3, <3>1, Zenon
  <2>4. ToSet(t.shown) \subseteq ToSet(flows)
    BY <2>1, Zenon DEF Shown
  <2> QED BY <1>1, <2>2, <2>3, <2>4, Zenon
<1>5. ASSUME view' = "detail" PROVE d \in Flow /\ (~signal' => d = LatestIn(stored', d))
  <2>1. CASE d \in ToSet(table.shown)
    <3>1. d \in ToSet(flows) /\ flows \in Seq(Flow) /\ Ascending(flows)
      BY <2>1 DEF Shown, Lists
    <3>2. d \in Flow
      BY <3>1 DEF ToSet
    <3>3. LatestIn(flows, d) = d
      BY <3>1, <3>2, LatestIsListed, Zenon
    <3> QED BY <1>1, <3>2, <3>3, Zenon DEF Lists
  <2>2. CASE view = "detail" /\ d = detail
    BY <1>1, <2>2, Zenon DEF Details
  <2> QED BY <1>5, <2>1, <2>2
<1> QED BY <1>2, <1>3, <1>4, <1>5, DrawnKeeps, Zenon

(* A move changes where the selection is and whether it follows.           *)
LEMMA Moved ==
  ASSUME table \in Table, NEW sel \in Int, NEW follow \in BOOLEAN
  PROVE  LET t == [table EXCEPT !.sel = sel, !.follow = follow]
         IN /\ t \in Table /\ t.shown = table.shown /\ t.sel = sel /\ t.follow = follow
            /\ t.scroll = table.scroll
BY DEF Table

(* Moved by a key, paged, or sent to an end, the table stays what it is.   *)
LEMMA MovedInside ==
  ASSUME rows \in Row, Inside(table), NEW t \in Steps \cup Jumps
  PROVE  /\ Inside(Clamped(t)) /\ Fits(Clamped(t), rows) /\ Clamped(t).shown = table.shown
<1> DEFINE moved(sel, follow) == [table EXCEPT !.sel = sel, !.follow = follow]
<1>1. /\ table \in Table /\ Ascending(table.shown) /\ table.sel \in Int /\ rows \in Int
      /\ End = Len(table.shown) - 1 /\ End \in Int
  BY DEF Inside, Table, Row, End
<1>2. ASSUME NEW sel \in Int, NEW follow \in BOOLEAN, follow => sel >= End
      PROVE  /\ Inside(Clamped(moved(sel, follow))) /\ Fits(Clamped(moved(sel, follow)), rows)
             /\ Clamped(moved(sel, follow)).shown = table.shown
  <2> DEFINE r == moved(sel, follow)
  <2>1. /\ r \in Table /\ r.shown = table.shown /\ r.sel = sel /\ r.follow = follow
    BY <1>1 DEF Table
  <2> HIDE DEF r
  <2>2. Ascending(r.shown) /\ (r.follow => r.sel >= Len(r.shown) - 1)
    BY <1>1, <1>2, <2>1
  <2>3. Inside(Clamped(r)) /\ Fits(Clamped(r), rows) /\ Clamped(r).shown = r.shown
    BY <2>1, <2>2, ClampedInside
  <2> QED BY <2>1, <2>3 DEF r
<1>3. PICK sel \in Int, follow \in BOOLEAN : (follow => sel >= End) /\ t = moved(sel, follow)
  <2>1. CASE t = [table EXCEPT !.sel = @ - 1, !.follow = FALSE]
    <3>1. t = moved(table.sel - 1, FALSE)
      BY <2>1, Zenon
    <3>2. table.sel - 1 \in Int /\ FALSE \in BOOLEAN
      BY <1>1
    <3> HIDE DEF moved
    <3> QED BY <3>1, <3>2, Zenon
  <2>2. CASE t = [table EXCEPT !.sel = @ - rows, !.follow = FALSE]
    <3>1. t = moved(table.sel - rows, FALSE)
      BY <2>2, Zenon
    <3>2. table.sel - rows \in Int /\ FALSE \in BOOLEAN
      BY <1>1
    <3> HIDE DEF moved
    <3> QED BY <3>1, <3>2, Zenon
  <2>3. CASE t = [table EXCEPT !.sel = @ + rows, !.follow = table.sel + rows >= End]
    <3>1. t = moved(table.sel + rows, table.sel + rows >= End)
      BY <2>3, Zenon
    <3>2. table.sel + rows \in Int /\ (table.sel + rows >= End) \in BOOLEAN
      BY <1>1
    <3> HIDE DEF moved
    <3> QED BY <3>1, <3>2, Zenon
  <2>4. CASE t = [table EXCEPT !.sel = 0, !.follow = FALSE]
    <3>1. t = moved(0, FALSE)
      BY <2>4, Zenon
    <3>2. 0 \in Int /\ FALSE \in BOOLEAN
      OBVIOUS
    <3> HIDE DEF moved
    <3> QED BY <3>1, <3>2, Zenon
  <2>5. CASE t = [table EXCEPT !.sel = End, !.follow = TRUE]
    <3>1. End >= End
      BY <1>1
    <3> QED BY <1>1, <2>5, <3>1, Zenon
  <2>6. CASE t = [table EXCEPT !.sel = @ + 1] /\ ~ (table.sel + 1 >= End)
    <3>1. t = moved(table.sel + 1, table.follow)
      BY <1>1, <2>6 DEF Table
    <3>2. table.follow \in BOOLEAN /\ ~ table.follow
      BY <1>1, <2>6 DEF Inside, Table
    <3>3. table.sel + 1 \in Int
      BY <1>1
    <3> HIDE DEF moved
    <3> QED BY <3>1, <3>2, <3>3, Zenon
  <2> QED BY <2>1, <2>2, <2>3, <2>4, <2>5, <2>6, Zenon DEF Steps, Jumps
<1> QED BY <1>2, <1>3, Zenon

(* The wheel stops at either end.                                          *)
LEMMA WheeledInside ==
  ASSUME rows \in Row, Inside(table), NEW step \in {-3, 3}
  PROVE  LET sel == Max({0, table.sel + step})
             t == EnsureVisible(
                    IF sel > End THEN [table EXCEPT !.sel = End, !.follow = TRUE]
                    ELSE [table EXCEPT !.sel = sel, !.follow = sel >= End])
         IN Inside(t) /\ Fits(t, rows) /\ t.shown = table.shown
<1> DEFINE sel == Max({0, table.sel + step})
           new == IF sel > End THEN End ELSE sel
           r == IF sel > End THEN [table EXCEPT !.sel = End, !.follow = TRUE]
                ELSE [table EXCEPT !.sel = sel, !.follow = sel >= End]
           t == EnsureVisible(r)
<1>1. /\ table \in Table /\ Ascending(table.shown) /\ table.sel \in Int /\ rows \in Int
      /\ End = Len(table.shown) - 1 /\ End \in Int
      /\ Len(table.shown) \in Nat /\ (table.shown = <<>> <=> Len(table.shown) = 0)
  BY DEF Inside, Table, Row, End
<1>2. sel \in Nat
  <2>1. 0 \in Int /\ table.sel + step \in Int
    BY <1>1
  <2>2. sel = IF 0 <= table.sel + step THEN table.sel + step ELSE 0
    BY <2>1, Pair, Zenon
  <2> HIDE DEF sel
  <2> QED BY <2>1, <2>2
<1> HIDE DEF sel
<1>3. r \in Table /\ r.shown = table.shown /\ r.sel = new /\ r.follow = (new >= End)
  <2>1. CASE sel > End
    <3>1. r = [table EXCEPT !.sel = End, !.follow = TRUE] /\ new = End /\ End >= End
      BY <1>1, <2>1
    <3> HIDE DEF r, new
    <3> QED BY <1>1, <3>1 DEF Table
  <2>2. CASE ~ (sel > End)
    <3> DEFINE follow == sel >= End
    <3>1. r = [table EXCEPT !.sel = sel, !.follow = follow] /\ new = sel /\ follow \in BOOLEAN
      BY <1>1, <2>2
    <3> HIDE DEF follow
    <3>2. ASSUME NEW f \in BOOLEAN
          PROVE  LET q == [table EXCEPT !.sel = sel, !.follow = f]
                 IN q \in Table /\ q.shown = table.shown /\ q.sel = sel /\ q.follow = f
      <4>1. sel \in Int
        BY <1>2
      <4> QED BY <1>1, <4>1, Moved, Zenon
    <3>3. r \in Table /\ r.shown = table.shown /\ r.sel = new /\ r.follow = follow
      <4> HIDE DEF r, new
      <4> QED BY <3>1, <3>2, Zenon
    <3>4. follow = (new >= End)
      BY <3>1 DEF follow
    <3> QED BY <3>3, <3>4, Zenon
  <2> QED BY <2>1, <2>2
<1>4. /\ table.shown = <<>> => new = -1
      /\ table.shown # <<>> => new \in 0 .. Len(table.shown) - 1
      /\ new >= End => new = Len(table.shown) - 1
  BY <1>1, <1>2
<1> HIDE DEF r, new
<1> r.follow => new = Len(table.shown) - 1
  BY <1>3, <1>4
<1>5. /\ t \in Table /\ t.shown = r.shown /\ t.sel = r.sel /\ t.follow = r.follow
      /\ r.sel >= 0 => Fits(t, rows)
  BY <1>3, EnsureVisibleFits
<1> HIDE DEF t
<1>6. Inside(t)
  <2>1. t.follow => t.sel = Len(t.shown) - 1
    BY <1>3, <1>5
  <2>2. t \in Table /\ t.shown = table.shown /\ t.sel = new
    BY <1>3, <1>5
  <2> QED BY <1>1, <1>4, <2>1, <2>2 DEF Inside
<1>7. Fits(t, rows)
  BY <1>3, <1>4, <1>5 DEF Fits
<1> QED BY <1>3, <1>5, <1>6, <1>7 DEF t, r, sel

(* A click selects a flow that is drawn.                                   *)
LEMMA ClickedInside ==
  ASSUME rows \in Row, Inside(table),
         NEW idx \in table.scroll .. Min({End, table.scroll + rows - 1})
  PROVE  LET t == [table EXCEPT !.sel = idx, !.follow = idx >= End]
         IN /\ Inside(t) /\ Fits(t, rows) /\ t.shown = table.shown
            /\ At(table, idx) \in ToSet(table.shown)
<1> DEFINE follow == idx >= End
           t == [table EXCEPT !.sel = idx, !.follow = follow]
<1>1. /\ table \in Table /\ Ascending(table.shown) /\ table.scroll \in Nat /\ rows \in Int
      /\ End = Len(table.shown) - 1 /\ End \in Int /\ Len(table.shown) \in Nat
      /\ table.shown \in Seq(Flow)
  BY DEF Inside, Table, Row, End
<1>2. idx \in 0 .. End /\ idx \in table.scroll .. table.scroll + rows - 1
  <2> DEFINE bottom == table.scroll + rows - 1
  <2>1. bottom \in Int
    BY <1>1
  <2>2. Min({End, bottom}) = IF End <= bottom THEN End ELSE bottom
    BY <1>1, <2>1, Pair, Zenon
  <2>3. bottom = table.scroll + rows - 1 /\ idx \in table.scroll .. Min({End, bottom})
    OBVIOUS
  <2> HIDE DEF bottom
  <2> QED BY <1>1, <2>1, <2>2, <2>3
<1>3. t \in Table /\ t.shown = table.shown /\ t.sel = idx /\ t.follow = follow /\ t.scroll = table.scroll
  <2>1. follow \in BOOLEAN /\ idx \in Int
    BY <1>1, <1>2
  <2> HIDE DEF follow
  <2> QED BY <1>1, <2>1 DEF Table
<1>4. follow => idx = Len(table.shown) - 1
  BY <1>1, <1>2
<1> HIDE DEF follow
<1>5. Inside(t) /\ Fits(t, rows)
  <2> HIDE DEF t
  <2> QED BY <1>1, <1>2, <1>3, <1>4 DEF Inside, Fits
<1>6. At(table, idx) \in ToSet(table.shown)
  BY <1>1, <1>2 DEF At, ToSet
<1> QED BY <1>3, <1>5, <1>6 DEF follow

(* A key that does not move the selection makes it fit, or leaves it.      *)
LEMMA TouchedInside ==
  ASSUME rows \in Row, Inside(table), NEW t \in Touched
  PROVE  /\ Inside(t) /\ t.shown = table.shown
         /\ Fits(table, rows) => Fits(t, rows)
<1>1. table \in Table /\ Ascending(table.shown)
      /\ (table.follow => table.sel >= Len(table.shown) - 1)
  BY DEF Inside, Table
<1>2. Inside(Clamped(table)) /\ Fits(Clamped(table), rows) /\ Clamped(table).shown = table.shown
  BY <1>1, ClampedInside
<1>3. t = table \/ t = Clamped(table)
  BY DEF Touched
<1> QED BY <1>2, <1>3, Zenon

(* Every step keeps TableInv.                                              *)
LEMMA TableInvStep == TableInv /\ [Next]_vars => TableInv'
<1> SUFFICES ASSUME TableInv, [Next]_vars PROVE TableInv'
  OBVIOUS
<1> /\ Lists /\ Types /\ Details /\ TheTable /\ Shown /\ BarIsSeen
    /\ rows \in Row /\ Inside(table) /\ (~redrawn => Fits(table, rows))
    /\ view \in Views /\ prompt \in Prompts /\ filterText \in Filters
    /\ detail \in Flow \cup {NoFlow}
  BY TableInvIs DEF Types, TheTable, Details
<1> signal \in BOOLEAN /\ saved \in BOOLEAN /\ redrawn \in BOOLEAN
  BY DEF Lists, Types
<1>1. CASE UNCHANGED vars
  <2>1. (Lists /\ Types /\ Details /\ TheTable /\ Shown /\ BarIsSeen)'
    BY <1>1
    DEF vars, store, chosen, Lists, Types, Details, TheTable, Shown, BarIsSeen
  <2> QED BY <2>1, TableInvIs, PTL
<1>2. CASE Captured \/ Settles
  BY <1>2, StoreKeeps
<1>3. CASE Refresh
  <2>1. /\ signal' = FALSE /\ stored' = stored /\ nextID' = nextID
        /\ filterText' = filterText /\ saved' = saved /\ view' = view
        /\ Refreshes(prompt)
    BY <1>3, Zenon DEF Refresh, chosen
  <2>2. signal' \in BOOLEAN /\ saved' \in BOOLEAN
    BY <2>1
  <2> QED BY <2>1, <2>2, RefreshesKeeps, Zenon
<1>4. CASE Resize
  <2>1. /\ stored' = stored /\ nextID' = nextID /\ signal' = signal /\ flows' = flows
        /\ table' = table /\ filterText' = filterText /\ saved' = saved /\ view' = view
        /\ prompt' = prompt /\ detail' = detail /\ switched' = switched
        /\ redrawn' = (redrawn \/ rows' # rows)
        /\ size' \in Sizes /\ rows' \in {size'.plain, size'.prompted}
    BY <1>4 DEF Resize, NotFitted, store, chosen
  <2>2. rows' \in Row
    <3>1. size'.plain \in Row /\ size'.prompted \in Row
      BY <2>1, FlowTableAssumption, Zenon DEF Row
    <3> QED BY <2>1, <3>1
  <2>3. (Lists /\ Types /\ Details /\ TheTable /\ Shown /\ BarIsSeen)'
    BY <2>1, <2>2 DEF Lists, Types, Details, TheTable, Shown, BarIsSeen
  <2> QED BY <2>3, TableInvIs, PTL
<1>5. CASE Jump
  <2>1. /\ UNCHANGED <<store, flows, saved, switched>> /\ table' = table /\ prompt' = prompt
        /\ filterText' = filterText /\ view' = "editor" /\ Drawn(detail)
        /\ redrawn' = (redrawn \/ rows' # rows)
    BY <1>5, Zenon DEF Jump, NotFitted, chosen
  <2>2. view' \in Views /\ redrawn' \in BOOLEAN /\ (~redrawn' => rows' = rows /\ Fits(table, rows))
        /\ view' \in {"flows", "editor"} /\ view' # "detail"
    BY <2>1 DEF Views
  <2> QED BY <2>1, <2>2, TableKeeps, Zenon
<1>6. CASE Moves
  <2>1. PICK t \in Steps \cup Jumps : EndsWith(Clamped(t), prompt)
    BY <1>6 DEF Moves
  <2>2. /\ UNCHANGED <<store, flows, saved, switched>> /\ filterText' = filterText /\ view' = view
        /\ Drawn(detail) /\ redrawn' = (rows' # rows)
    BY <1>6, Zenon DEF Moves, Fitted, chosen
  <2>3. Inside(Clamped(t)) /\ Fits(Clamped(t), rows) /\ Clamped(t).shown = table.shown
    BY MovedInside
  <2>4. redrawn' \in BOOLEAN /\ (~redrawn' => rows' = rows)
    BY <2>2
  <2> QED BY <2>1, <2>2, <2>3, <2>4, TableKeeps, Zenon
<1>7. CASE Wheel
  <2>1. PICK step \in {-3, 3} :
          LET sel == Max({0, table.sel + step})
          IN EndsWith(EnsureVisible(
               IF sel > End THEN [table EXCEPT !.sel = End, !.follow = TRUE]
               ELSE [table EXCEPT !.sel = sel, !.follow = sel >= End]), prompt)
    BY <1>7, Zenon DEF Wheel
  <2> DEFINE sel == Max({0, table.sel + step})
             t == EnsureVisible(
                    IF sel > End THEN [table EXCEPT !.sel = End, !.follow = TRUE]
                    ELSE [table EXCEPT !.sel = sel, !.follow = sel >= End])
  <2>2. Inside(t) /\ Fits(t, rows) /\ t.shown = table.shown
    BY WheeledInside, Zenon
  <2>3. EndsWith(t, prompt)
    BY <2>1, Zenon
  <2>4. /\ UNCHANGED <<store, flows, saved, switched>> /\ filterText' = filterText /\ view' = view
        /\ Drawn(detail) /\ redrawn' = (rows' # rows)
    BY <1>7, Zenon DEF Wheel, Fitted, chosen
  <2>5. redrawn' \in BOOLEAN /\ (~redrawn' => rows' = rows)
    BY <2>4
  <2> HIDE DEF t
  <2> QED BY <2>2, <2>3, <2>4, <2>5, TableKeeps, Zenon
<1>8. CASE Click
  <2>1. PICK idx \in table.scroll .. Min({End, table.scroll + rows - 1}) :
          /\ view' \in {"flows", "detail"}
          /\ EndsWith([table EXCEPT !.sel = idx, !.follow = idx >= End], prompt)
          /\ Drawn(At(table, idx))
    BY <1>8, Zenon DEF Click
  <2> DEFINE t == [table EXCEPT !.sel = idx, !.follow = idx >= End]
  <2>2. Inside(t) /\ Fits(t, rows) /\ t.shown = table.shown /\ At(table, idx) \in ToSet(table.shown)
    BY ClickedInside, Zenon
  <2>3. EndsWith(t, prompt)
    BY <2>1, Zenon
  <2>4. /\ UNCHANGED <<store, flows, saved, switched>> /\ filterText' = filterText
        /\ redrawn' = (rows' # rows)
    BY <1>8, Zenon DEF Click, Fitted, chosen
  <2>5. redrawn' \in BOOLEAN /\ (~redrawn' => rows' = rows) /\ view' \in Views
    BY <2>1, <2>4 DEF Views
  <2>6. At(table, idx) \in Flow \cup {NoFlow}
    BY <2>2 DEF Inside, Table, ToSet
  <2> HIDE DEF t
  <2> QED BY <2>1, <2>2, <2>3, <2>4, <2>5, <2>6, TableKeeps, Zenon
<1>9. CASE Open
  <2>1. PICK t \in Touched : EndsWith(t, prompt)
    BY <1>9, Zenon DEF Open
  <2>2. /\ UNCHANGED <<store, flows, saved, switched>> /\ filterText' = filterText
        /\ view' = "detail" /\ Selected # NoFlow /\ Drawn(Selected)
        /\ redrawn' = (redrawn \/ rows' # rows)
    BY <1>9, Zenon DEF Open, NotFitted, chosen
  <2>3. Inside(t) /\ t.shown = table.shown /\ (Fits(table, rows) => Fits(t, rows))
    BY TouchedInside
  <2>4. redrawn' \in BOOLEAN /\ (~redrawn' => rows' = rows /\ Fits(t, rows)) /\ view' \in Views
    BY <2>2, <2>3 DEF Views
  <2>5. Selected \in ToSet(table.shown) /\ Selected \in Flow \cup {NoFlow}
    BY <2>2 DEF Selected, At, Inside, Table, ToSet
  <2> QED BY <2>1, <2>2, <2>3, <2>4, <2>5, TableKeeps, Zenon
<1>10. CASE ClearAll
  <2>1. /\ stored' = <<>> /\ nextID' = nextID /\ signal' = TRUE /\ flows' = flows
        /\ filterText' = filterText /\ saved' = saved /\ view' = "flows" /\ prompt' = prompt
        /\ switched' = switched /\ Drawn(detail) /\ redrawn' = (redrawn \/ rows' # rows)
        /\ table' \in Touched
    BY <1>10 DEF ClearAll, NotFitted, chosen
  <2>2. Inside(table') /\ table'.shown = table.shown /\ (Fits(table, rows) => Fits(table', rows))
    BY <2>1, TouchedInside, Zenon
  <2>3. Lists'
    BY <2>1 DEF Lists, Ascending, ToSet
  <2>4. {saved', switched', redrawn'} \subseteq BOOLEAN /\ view' \in Views /\ view' # "detail"
        /\ (~redrawn' => rows' = rows /\ Fits(table', rows))
    BY <2>1, <2>2 DEF Types, Views
  <2>5. /\ ToSet(table'.shown) \subseteq ToSet(flows')
        /\ ~switched' => table'.shown = Passing(flows', filterText', saved')
    BY <2>1, <2>2 DEF Shown
  <2> QED BY <2>1, <2>2, <2>3, <2>4, <2>5, DrawnKeeps, Zenon
<1>11. CASE OpenPrompt
  <2>1. /\ UNCHANGED <<store, flows, saved, switched>> /\ filterText' = filterText /\ view' = view
        /\ Drawn(detail) /\ redrawn' = (redrawn \/ rows' # rows)
        /\ prompt' \in {"filter", "other"} /\ (prompt' = "filter" => view = "flows")
        /\ table' \in Touched
    BY <1>11 DEF OpenPrompt, NotFitted, chosen, Touched
  <2>2. Inside(table') /\ table'.shown = table.shown /\ (Fits(table, rows) => Fits(table', rows))
    BY <2>1, TouchedInside, Zenon
  <2>3. redrawn' \in BOOLEAN /\ (~redrawn' => rows' = rows /\ Fits(table', rows))
        /\ prompt' \in Prompts /\ (prompt' = "filter" => view' \in {"flows", "editor"})
    BY <2>1, <2>2 DEF Prompts
  <2> QED BY <2>1, <2>2, <2>3, TableKeeps, Zenon
<1>12. CASE FilterKey
  <2> DEFINE t == Filtered(table, flows, filterText', saved)
  <2>1. PICK p \in {"none", "filter"} : EndsWith(t, p)
    BY <1>12, Zenon DEF FilterKey
  <2>2. /\ UNCHANGED <<store, flows, saved, switched>> /\ filterText' \in Filters /\ view' = view
        /\ Drawn(detail) /\ redrawn' = (rows' # rows)
    BY <1>12, Zenon DEF FilterKey, Fitted
  <2>3. Inside(t) /\ Fits(t, rows) /\ t.shown = Passing(flows, filterText', saved)
    <3>1. table \in Table /\ flows \in Seq(Flow) /\ Ascending(flows)
      BY DEF Inside, Lists
    <3>2. ASSUME NEW text
          PROVE  LET r == Filtered(table, flows, text, saved)
                 IN Inside(r) /\ Fits(r, rows) /\ r.shown = Passing(flows, text, saved)
      BY <3>1, FilteredInside
    <3> QED BY <3>2, Zenon
  <2>4. redrawn' \in BOOLEAN /\ (~redrawn' => rows' = rows) /\ p \in Prompts
    BY <2>2 DEF Prompts
  <2> HIDE DEF t
  <2> QED BY <2>1, <2>2, <2>3, <2>4, TableKeeps, Zenon
<1>13. CASE Answer
  <2>1. UNCHANGED store /\ filterText' = filterText /\ view' = view
    BY <1>13, Zenon DEF Answer
  <2>2. CASE saved' \in BOOLEAN /\ Refreshes("none")
    <3>1. "none" \in Prompts /\ stored' = stored /\ nextID' = nextID /\ signal' \in BOOLEAN
      BY <2>1 DEF Prompts, store
    <3> QED BY <2>1, <2>2, <3>1, RefreshesKeeps, Zenon
  <2>3. CASE /\ UNCHANGED <<flows, saved, table, switched>> /\ prompt' = "none"
             /\ Drawn(detail) /\ NotFitted
    <3>1. /\ UNCHANGED <<store, flows, saved, switched>> /\ table' = table /\ prompt' = "none"
          /\ redrawn' = (redrawn \/ rows' # rows)
      BY <2>1, <2>3, Zenon DEF NotFitted
    <3>2. redrawn' \in BOOLEAN /\ (~redrawn' => rows' = rows /\ Fits(table, rows))
          /\ "none" \in Prompts /\ "none" # "filter"
      BY <3>1 DEF Prompts
    <3> QED BY <2>1, <2>3, <3>1, <3>2, TableKeeps, Zenon
  <2> QED BY <1>13, <2>2, <2>3, Zenon DEF Answer
<1>14. CASE Visit
  <2>1. /\ view' \in {"flows", "filters", "other"} /\ Refreshes(prompt)
        /\ stored' = stored /\ nextID' = nextID /\ signal' = signal
        /\ filterText' = filterText /\ saved' = saved
    BY <1>14, Zenon DEF Visit, store, chosen
  <2>2. view' \in Views /\ view' # "detail" /\ signal' \in BOOLEAN /\ saved' \in BOOLEAN
    BY <2>1 DEF Views
  <2> QED BY <2>1, <2>2, RefreshesKeeps, Zenon
<1>15. CASE Wander
  <2>1. /\ UNCHANGED <<store, flows, saved, switched>> /\ filterText' = filterText
        /\ EndsWith(table, prompt) /\ Drawn(detail) /\ redrawn' = (redrawn \/ rows' # rows)
    BY <1>15, Zenon DEF Wander, NotFitted, chosen
  <2>2. view' \in Views /\ view' # "detail"
    BY <1>15 DEF Wander, Views
  <2>3. redrawn' \in BOOLEAN /\ (~redrawn' => rows' = rows /\ Fits(table, rows))
    BY <2>1
  <2> QED BY <2>1, <2>2, <2>3, TableKeeps, Zenon
<1>16. CASE SwitchSaved
  <2>1. /\ saved' \in BOOLEAN /\ switched' = TRUE
        /\ stored' = stored /\ nextID' = nextID /\ signal' = signal /\ flows' = flows
        /\ table' = table /\ size' = size /\ rows' = rows /\ filterText' = filterText
        /\ view' = view /\ prompt' = prompt /\ detail' = detail /\ redrawn' = redrawn
    BY <1>16 DEF SwitchSaved, store
  <2>2. (Lists /\ Types /\ Details /\ TheTable /\ Shown /\ BarIsSeen)'
    BY <2>1 DEF Lists, Types, Details, TheTable, Shown, BarIsSeen
  <2> QED BY <2>2, TableInvIs, PTL
<1>17. CASE ChangeSaved
  <2>1. /\ Refreshes(prompt) /\ stored' = stored /\ nextID' = nextID /\ signal' = signal
        /\ filterText' = filterText /\ saved' = ~saved /\ view' = view
    BY <1>17, Zenon DEF ChangeSaved, store
  <2>2. signal' \in BOOLEAN /\ saved' \in BOOLEAN
    BY <2>1
  <2> QED BY <2>1, <2>2, RefreshesKeeps, Zenon
<1> QED BY <1>1, <1>2, <1>3, <1>4, <1>5, <1>6, <1>7, <1>8, <1>9, <1>10, <1>11, <1>12, <1>13, <1>14,
           <1>15, <1>16, <1>17, Zenon DEF Next

(* The table of a program that has just started is empty.                  *)
LEMMA TableInvInit == Init => TableInv
<1> SUFFICES ASSUME Init PROVE TableInv
  OBVIOUS
<1>1. /\ stored = <<>> /\ nextID = 0 /\ signal = FALSE /\ flows = <<>> /\ filterText = ""
      /\ table = [shown |-> <<>>, sel |-> 0, follow |-> TRUE, scroll |-> 0]
      /\ size \in Sizes /\ rows = size.plain /\ saved = FALSE
      /\ view = "flows" /\ prompt = "none" /\ detail = NoFlow
      /\ redrawn = FALSE /\ switched = FALSE
  BY Zenon DEF Init
<1>2. Lists
  <2>1. <<>> \in Seq(Flow) /\ Ascending(<<>>) /\ ToSet(<<>>) = {} /\ 0 \in 0 .. MaxID
    BY FlowIDs DEF Ascending, ToSet
  <2> QED BY <1>1, <2>1 DEF Lists
<1>3. Types
  <2>1. size.plain \in Row /\ "" \in Filters
    BY <1>1, FlowTableAssumption, Zenon DEF Row
  <2> QED BY <1>1, <2>1 DEF Types, Views, Prompts
<1>4. TheTable
  <2> DEFINE t == [shown |-> <<>>, sel |-> 0, follow |-> TRUE, scroll |-> 0]
  <2>1. t.shown = <<>> /\ t.sel = 0 /\ <<>> \in Seq(Flow) /\ Ascending(<<>>)
    BY DEF Ascending
  <2>2. t \in Table
    BY <2>1 DEF Table
  <2>3. table = t
    BY <1>1, Zenon
  <2> HIDE DEF t
  <2> QED BY <2>1, <2>2, <2>3 DEF TheTable, Inside, Fits
<1>5. Shown
  <2>1. <<>> \in Seq(Flow) /\ ToSet(<<>>) = {}
    BY DEF ToSet
  <2>2. Passing(<<>>, "", FALSE) \in Seq(Flow) /\ ToSet(Passing(<<>>, "", FALSE)) = {}
    BY <2>1, PassingIsWhatMatches
  <2>3. Passing(<<>>, "", FALSE) = <<>>
    <3> DEFINE q == Passing(<<>>, "", FALSE)
    <3>1. q \in Seq(Flow) /\ ToSet(q) = {}
      BY <2>2
    <3> HIDE DEF q
    <3>2. q = <<>>
      BY <3>1 DEF ToSet
    <3> QED BY <3>2 DEF q
  <2>4. table.shown = <<>>
    BY <1>1
  <2>5. Passing(flows, filterText, saved) = <<>> /\ flows = <<>>
    BY <1>1, <2>3, Zenon
  <2> QED BY <2>1, <2>4, <2>5, Zenon DEF Shown
<1>6. Details /\ BarIsSeen
  BY <1>1 DEF Details, BarIsSeen
<1> QED BY <1>2, <1>3, <1>4, <1>5, <1>6, TableInvIs

(* The table shows what the store holds and the filters let through, its   *)
(* selection is on the screen and follows the newest flow when asked to,   *)
(* the detail view is current, and the filter bar is seen where it reads   *)
(* the keys: whatever the filters, the sizes of the terminal and the limit *)
(* of the store, and however the operator and the exchanges interleave.    *)
THEOREM TableInvAlways == Spec => []TableInv
BY TableInvInit, TableInvStep, PTL DEF Spec

-----------------------------------------------------------------------------
(* The selection keeps its flow.                                           *)

(* As many flows stand before a place in an ascending list as there are    *)
(* numbers among them.                                                     *)
LEMMA SoManyBefore ==
  ASSUME NEW l \in Seq(Flow), Ascending(l), NEW a \in 0 .. Len(l)
  PROVE  Cardinality({l[i].id : i \in 1 .. a}) = a
<1> DEFINE f == [i \in 1 .. a |-> l[i].id]
           S == {l[i].id : i \in 1 .. a}
<1>1. a \in Nat /\ (\A i \in 1 .. a : i \in Nat /\ i \in DOMAIN l /\ l[i].id \in Int)
  <2>1. a \in Nat /\ (\A i \in 1 .. a : i \in Nat /\ i \in DOMAIN l /\ l[i] \in Flow)
    OBVIOUS
  <2> QED BY <2>1, FlowIDs
<1>2. \A i, j \in 1 .. a : f[i] = f[j] => i = j
  BY <1>1 DEF Ascending
<1>3. f \in [1 .. a -> S] /\ (\A s \in S : \E i \in 1 .. a : f[i] = s)
  BY Zenon
<1> HIDE DEF f, S
<1>4. f \in Bijection(1 .. a, S)
  BY <1>2, <1>3, Zenon DEF Bijection, Injection, Surjection, IsInjective
<1>5. ExistsBijection(1 .. a, S)
  BY <1>4, Zenon DEF ExistsBijection
<1> QED BY <1>1, <1>5, FS_CountingElements DEF S

(* A refresh filters once or, when it closes the filter bar, twice.        *)
LEMMA RefreshFilters ==
  ASSUME TableInv, Refresh, ~ table.follow,
         table.sel \in 0 .. Len(Passing(stored, filterText, saved)) - 1
  PROVE  table'.shown = Passing(stored, filterText, saved) /\ table'.sel = table.sel
<1> DEFINE t == Filtered(table, stored, filterText, saved)
           r == Filtered(t, stored, filterText, saved)
           n == Len(Passing(stored, filterText, saved)) - 1
<1>1. table' = t \/ table' = r
  <2>1. flows' = stored /\ filterText' = filterText /\ saved' = saved
        /\ EndsWith(Filtered(table, stored, filterText', saved'), prompt)
    BY Zenon DEF Refresh, Refreshes, chosen
  <2> QED BY <2>1, Zenon DEF EndsWith
<1>2. /\ rows \in Row /\ table \in Table /\ stored \in Seq(Flow) /\ Ascending(stored)
  BY TableInvIs DEF Types, TheTable, Inside, Lists
<1>3. ASSUME NEW q \in Table
      PROVE  LET u == Filtered(q, stored, filterText, saved)
             IN /\ u \in Table /\ u.shown = Passing(stored, filterText, saved)
                /\ ~ q.follow /\ q.sel \in 0 .. n => u.sel = q.sel /\ ~ u.follow
  BY <1>2, FilteredInside DEF Inside
<1>4. t \in Table /\ t.shown = Passing(stored, filterText, saved) /\ t.sel = table.sel /\ ~ t.follow
  BY <1>2, <1>3, Zenon
<1>5. r.shown = Passing(stored, filterText, saved) /\ r.sel = table.sel
  <2>1. t.sel \in 0 .. n
    BY <1>4
  <2> HIDE DEF t
  <2>2. r.shown = Passing(stored, filterText, saved) /\ r.sel = t.sel
    BY <1>3, <1>4, <2>1, Zenon
  <2> QED BY <1>4, <2>2, Zenon
<1> QED BY <1>1, <1>4, <1>5, Zenon

KeepsItsFlowStep ==
  ~table.follow /\ Refresh /\ Selected # NoFlow
    /\ Before(table) = {f.id : f \in {g \in ToSet(table'.shown) : g.id < Selected.id}}
    /\ (\E f \in ToSet(table'.shown) : f.id = Selected.id)
  => At(table', table'.sel).id = Selected.id

(* The flow at the selected place is the one that was selected: as many    *)
(* flows stand before it as before.                                        *)
LEMMA RefreshKeepsItsFlow == TableInv /\ TableInv' => KeepsItsFlowStep
<1> SUFFICES ASSUME TableInv, TableInv', ~table.follow, Refresh, Selected # NoFlow,
                    Before(table) = {f.id : f \in {g \in ToSet(table'.shown) : g.id < Selected.id}},
                    \E f \in ToSet(table'.shown) : f.id = Selected.id
             PROVE  At(table', table'.sel).id = Selected.id
  BY DEF KeepsItsFlowStep
<1> DEFINE old == table.shown
           new == table'.shown
           s == table.sel
<1>1. /\ old \in Seq(Flow) /\ Ascending(old) /\ new \in Seq(Flow) /\ Ascending(new)
  <2>1. TheTable /\ TheTable'
    BY TableInvIs, PTL
  <2> QED BY <2>1 DEF TheTable, Inside, Table
<1> HIDE DEF new
<1>2. s \in 0 .. Len(old) - 1 /\ Selected = old[s + 1]
  BY DEF Selected, At
<1>3. PICK k \in 1 .. Len(new) : new[k].id = Selected.id
  <2>1. PICK f \in ToSet(new) : f.id = Selected.id
    BY DEF new
  <2> QED BY <1>1, <2>1 DEF ToSet
<1>4. Before(table) = {old[i].id : i \in 1 .. s}
  <2>1. Len(old) \in Int /\ s \in Int
    BY <1>1, <1>2
  <2>2. Min({s, Len(old)}) = s
    <3>1. Min({s, Len(old)}) = IF s <= Len(old) THEN s ELSE Len(old)
      BY <2>1, Pair, Zenon
    <3> QED BY <1>1, <1>2, <3>1
  <2> QED BY <2>2, Zenon DEF Before
<1>5. {f.id : f \in {g \in ToSet(new) : g.id < Selected.id}} = {new[i].id : i \in 1 .. k - 1}
  <2>1. \A i \in DOMAIN new : new[i].id < new[k].id <=> i < k
    <3>1. \A i \in DOMAIN new : i \in Int /\ new[i] \in Flow
      BY <1>1
    <3>2. \A i \in DOMAIN new : i \in Int /\ new[i].id \in Int
      BY <3>1, FlowIDs
    <3>3. k \in DOMAIN new
      BY <1>1
    <3> QED BY <1>1, <3>2, <3>3 DEF Ascending
  <2>2. \A i : i \in 1 .. k - 1 <=> i \in DOMAIN new /\ i < k
    BY <1>1
  <2>3. ASSUME NEW i \in DOMAIN new PROVE new[i].id < Selected.id <=> i \in 1 .. k - 1
    BY <1>3, <2>1, <2>2
  <2>4. ASSUME NEW f \in ToSet(new), f.id < Selected.id PROVE \E i \in 1 .. k - 1 : f.id = new[i].id
    <3>1. PICK i \in DOMAIN new : f = new[i]
      BY Zenon DEF ToSet
    <3> QED BY <2>3, <2>4, <3>1, Zenon
  <2>5. ASSUME NEW i \in 1 .. k - 1 PROVE new[i] \in ToSet(new) /\ new[i].id < Selected.id
    <3>1. i \in DOMAIN new
      BY <2>2
    <3> QED BY <2>3, <3>1, Zenon DEF ToSet
  <2> DEFINE these == {f.id : f \in {g \in ToSet(new) : g.id < Selected.id}}
             those == {new[i].id : i \in 1 .. k - 1}
  <2>6. \A x : x \in these => x \in those
    BY <2>4, Zenon
  <2>7. \A x : x \in those => x \in these
    BY <2>5, Zenon
  <2> HIDE DEF these, those
  <2> these = those
    BY <2>6, <2>7, Zenon
  <2> QED BY DEF these, those
<1>6. s = k - 1
  <2>1. {old[i].id : i \in 1 .. s} = {new[i].id : i \in 1 .. k - 1}
    BY <1>4, <1>5, Zenon DEF new
  <2>2. s \in 0 .. Len(old) /\ k - 1 \in 0 .. Len(new)
    BY <1>1, <1>2
  <2>3. Cardinality({old[i].id : i \in 1 .. s}) = s
    BY <1>1, <2>2, SoManyBefore
  <2>4. Cardinality({new[i].id : i \in 1 .. k - 1}) = k - 1
    BY <1>1, <2>2, SoManyBefore
  <2> QED BY <2>1, <2>3, <2>4, Zenon
<1>7. new = Passing(stored, filterText, saved) /\ table'.sel = s
  <2>1. new = Passing(stored, filterText, saved)
    <3>1. filterText' = filterText /\ saved' = saved /\ flows' = stored /\ switched' = FALSE
      BY Zenon DEF Refresh, Refreshes, chosen
    <3>2. Shown'
      BY TableInvIs, PTL
    <3>3. new = Passing(flows', filterText', saved')
      BY <3>1, <3>2 DEF Shown, new
    <3> QED BY <3>1, <3>3, Zenon
  <2>2. s \in 0 .. Len(new) - 1
    BY <1>1, <1>2, <1>6
  <2>3. s \in 0 .. Len(Passing(stored, filterText, saved)) - 1
    BY <2>1, <2>2, Zenon
  <2> QED BY <2>1, <2>3, RefreshFilters, Zenon
<1>8. At(table', table'.sel) = new[k]
  <2>1. s \in 0 .. Len(new) - 1 /\ s + 1 = k
    BY <1>1, <1>2, <1>6
  <2> QED BY <1>7, <2>1 DEF At, new
<1> QED BY <1>3, <1>8, Zenon

(* Exchanges that come and go do not move the operator off the flow he has *)
(* selected, unless he follows the newest one or flows before it leave or  *)
(* enter the table.                                                        *)
THEOREM KeepsItsFlowAlways == Spec => KeepsItsFlow
<1>1. TableInv /\ [Next]_vars => [KeepsItsFlowStep]_vars
  BY TableInvStep, RefreshKeepsItsFlow, Zenon
<1>2. Spec => []TableInv
  BY TableInvAlways
<1>3. Spec => [][KeepsItsFlowStep]_vars
  BY <1>1, <1>2, PTL DEF Spec
<1> QED BY <1>3, PTL DEF KeepsItsFlow, KeepsItsFlowStep
=============================================================================
