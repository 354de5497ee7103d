--------------------------- MODULE SysProxyProofs ---------------------------
(***************************************************************************)
(* Theorems about SysProxy for any number of settings, user values,        *)
(* addresses and processes.                                                *)
(***************************************************************************)
EXTENDS SysProxy, TLAPS

(* The state a process starts in is a state of a process.                  *)
LEMMA FreshIsProcess == Fresh \in Process /\ Fresh.held \in [Keys -> UserValues]
<1>1. (CHOOSE v \in UserValues : TRUE) \in UserValues
  BY SysProxyAssumption
<1>2. (CHOOSE t \in Targets : TRUE) \in Targets
  BY SysProxyAssumption
<1>3. 1 \in 1 .. NKeys + 1
  BY SysProxyAssumption
<1> QED
  BY <1>1, <1>2, <1>3 DEF Fresh, Process, Phases, Config, Values

(* A process that takes a legal state leaves every process in a legal one, *)
(* and the other processes untouched.                                      *)
LEMMA Becoming ==
  ASSUME TypeOK, NEW p \in Procs, NEW r \in Process, Becomes(p, r)
  PROVE  /\ proc' \in [Procs -> Process]
         /\ proc'[p] = r
         /\ \A q \in Procs : q # p => proc'[q] = proc[q]
BY DEF TypeOK, Becomes

(* Writing one setting of a loop that has not ended.                       *)
LEMMA Writing ==
  ASSUME TypeOK, NEW p \in Procs, proc[p].at <= NKeys, NEW v \in Values
  PROVE  /\ proc[p].at \in Keys
         /\ Written(p, v) \in Config
         /\ Written(p, v)[proc[p].at] = v
         /\ \A k \in Keys : k # proc[p].at => Written(p, v)[k] = settings[k]
<1>1. proc[p].at \in 1 .. NKeys + 1
  BY DEF TypeOK, Process
<1>2. proc[p].at \in Keys
  BY <1>1, SysProxyAssumption DEF Keys
<1> QED
  BY <1>2 DEF Written, TypeOK, Config

(* The loops write values a setting may hold.                              *)
LEMMA LoopValues ==
  ASSUME TypeOK, NEW p \in Procs
  PROVE  /\ proc[p] \in Process
         /\ proc[p].listen \in Values
         /\ proc[p].at <= NKeys => proc[p].held[proc[p].at] \in Values
                                   /\ proc[p].at + 1 \in 1 .. NKeys + 1
<1>1. proc[p] \in Process
  BY DEF TypeOK
<1>2. proc[p].at \in 1 .. NKeys + 1 /\ proc[p].held \in Config
      /\ proc[p].listen \in Targets
  BY <1>1 DEF Process
<1>3. proc[p].at <= NKeys => proc[p].at \in Keys /\ proc[p].at + 1 \in 1 .. NKeys + 1
  BY <1>2, SysProxyAssumption DEF Keys
<1> QED
  BY <1>1, <1>2, <1>3 DEF Config, Values

(* Every step keeps every variable in its type, under any faults.          *)
LEMMA TypeStep == ASSUME TypeOK, [Next]_vars PROVE TypeOK'
<1>0. /\ settings \in Config /\ file \in {"absent", "torn", "saved"}
      /\ parked \in Config /\ original \in [Keys -> UserValues]
      /\ 1 \in 1 .. NKeys + 1
  BY SysProxyAssumption DEF TypeOK
<1>1. CASE UserEdits
  BY <1>1 DEF UserEdits, TypeOK, Config, Values
<1>2. CASE UNCHANGED vars
  BY <1>2 DEF vars, TypeOK
<1>3. ASSUME NEW p \in Procs, Launch(p) PROVE TypeOK'
  <2>1. PICK t \in Targets : Becomes(p, [proc[p] EXCEPT
                              !.listen = t,
                              !.pc     = IF file = "saved" THEN "recover" ELSE "idle",
                              !.held   = IF file = "saved" THEN parked ELSE @])
    BY <1>3 DEF Launch
  <2> QED
    BY <1>0, <1>3, <2>1, Becoming, LoopValues DEF Launch, TypeOK, Process, Phases
<1>4. ASSUME NEW p \in Procs, Kill(p) PROVE TypeOK'
  BY <1>0, <1>4, Becoming, FreshIsProcess DEF Kill, TypeOK
<1>5. ASSUME NEW p \in Procs, Operator(p) PROVE TypeOK'
  <2>1. CASE EnableBegins(p)
    BY <1>0, <2>1, Becoming, LoopValues DEF EnableBegins, TypeOK, Process, Phases
  <2>2. CASE \E t \in Targets : ChangePort(p, t)
    BY <1>0, <2>2, Becoming, LoopValues DEF ChangePort, TypeOK, Process, Phases
  <2>3. CASE \E leaving \in BOOLEAN : RestoreBegins(p, leaving)
    BY <1>0, <2>3, Becoming, LoopValues DEF RestoreBegins, TypeOK, Process, Phases
  <2>4. CASE ExitInactive(p)
    BY <1>0, <2>4, Becoming, LoopValues, FreshIsProcess
    DEF ExitInactive, TypeOK, Process, Phases
  <2> QED
    BY <1>5, <2>1, <2>2, <2>3, <2>4 DEF Operator
<1>6. ASSUME NEW p \in Procs, Restoring(p) PROVE TypeOK'
  <2>1. CASE RestoreStep(p)
    BY <1>0, <2>1, Becoming, LoopValues, Writing
    DEF RestoreStep, TypeOK, Process, Phases
  <2>2. CASE RestoreStepFails(p)
    <3>1. settings' \in Config
      BY <1>0, <2>2, LoopValues, Writing DEF RestoreStepFails
    <3>2. proc' \in [Procs -> Process]
      BY <1>0, <2>2, Becoming, LoopValues DEF RestoreStepFails, Process, Phases
    <3> QED
      BY <1>0, <2>2, <3>1, <3>2 DEF RestoreStepFails, TypeOK
  <2>3. CASE RestoreReturns(p)
    BY <1>0, <2>3, Becoming, LoopValues, FreshIsProcess
    DEF RestoreReturns, Returned, TypeOK, Process, Phases
  <2> QED
    BY <1>6, <2>1, <2>2, <2>3 DEF Restoring
<1>7. ASSUME NEW p \in Procs, Enabling(p) PROVE TypeOK'
  <2>1. CASE ParkTruncates(p)
    BY <1>0, <2>1, Becoming, LoopValues DEF ParkTruncates, TypeOK, Process, Phases
  <2>2. CASE ParkWrites(p)
    BY <1>0, <2>2, Becoming, LoopValues DEF ParkWrites, TypeOK, Process, Phases
  <2>3. CASE ParkFails(p)
    BY <1>0, <2>3, Becoming, LoopValues DEF ParkFails, TypeOK, Process, Phases
  <2>4. CASE ApplyStep(p)
    BY <1>0, <2>4, Becoming, LoopValues, Writing
    DEF ApplyStep, TypeOK, Process, Phases
  <2>5. CASE EnableReturns(p)
    BY <1>0, <2>5, Becoming, LoopValues DEF EnableReturns, TypeOK, Process, Phases
  <2>6. CASE EnableFails(p)
    <3>1. settings' \in Config
      BY <1>0, <2>6, LoopValues, Writing DEF EnableFails
    <3>2. proc' \in [Procs -> Process]
      BY <1>0, <2>6, Becoming, LoopValues DEF EnableFails, Process, Phases
    <3> QED
      BY <1>0, <2>6, <3>1, <3>2 DEF EnableFails, TypeOK
  <2>7. CASE RollbackReturns(p)
    BY <1>0, <2>7, Becoming, LoopValues, FreshIsProcess
    DEF RollbackReturns, Returned, TypeOK, Process, Phases
  <2> QED
    BY <1>7, <2>1, <2>2, <2>3, <2>4, <2>5, <2>6, <2>7 DEF Enabling
<1>8. ASSUME NEW p \in Procs, Moving(p) PROVE TypeOK'
  <2>1. CASE MoveReturns(p)
    BY <1>0, <2>1, Becoming, LoopValues DEF MoveReturns, TypeOK, Process, Phases
  <2>2. CASE MoveFails(p)
    <3>1. settings' \in Config
      BY <1>0, <2>2, LoopValues, Writing DEF MoveFails
    <3>2. proc' \in [Procs -> Process]
      BY <1>0, <2>2, Becoming, LoopValues DEF MoveFails, Process, Phases
    <3> QED
      BY <1>0, <2>2, <3>1, <3>2 DEF MoveFails, TypeOK
  <2>3. CASE ReparkTruncates(p)
    BY <1>0, <2>3, Becoming, LoopValues DEF ReparkTruncates, TypeOK, Process, Phases
  <2>4. CASE ReparkWrites(p)
    BY <1>0, <2>4, Becoming, LoopValues DEF ReparkWrites, TypeOK, Process, Phases
  <2>5. CASE ReparkFails(p)
    BY <1>0, <2>5, Becoming, LoopValues DEF ReparkFails, TypeOK, Process, Phases
  <2> QED
    BY <1>8, <2>1, <2>2, <2>3, <2>4, <2>5 DEF Moving
<1> QED
  BY <1>1, <1>2, <1>3, <1>4, <1>5, <1>6, <1>7, <1>8 DEF Next, Working

(* Type correctness: the loop indices, the phases and the contents of the  *)
(* settings and of the recovery copy stay in range, whatever fails.        *)
THEOREM TypeCorrect == Spec => []TypeOK
<1>1. Init => TypeOK
  BY FreshIsProcess, SysProxyAssumption DEF Init, TypeOK, Config, Values
<1> QED
  BY <1>1, TypeStep, PTL DEF Spec

-----------------------------------------------------------------------------
(* From here on a second instance is ruled out; commands, restores and     *)
(* writes of the recovery copy may fail, and processes may die.            *)
OneInstance == "second" \notin Faults

(* A snapshot stays faithful when a setting is pointed at the proxy, or is *)
(* set to what the snapshot holds, or when the command has no effect.      *)
LEMMA FaithfulKept ==
  ASSUME TypeOK, NEW c \in Config, NEW s \in Config, NEW j \in Keys,
         Faithful(c, settings, original),
         \A k \in Keys : k # j => s[k] = settings[k],
         s[j] \in Targets \cup {settings[j], c[j]}
  PROVE  Faithful(c, s, original)
<1>1. original[j] \notin Targets
  BY SysProxyAssumption DEF TypeOK
<1> QED
  BY <1>1 DEF Faithful

(* Two configurations that agree on every setting are equal.               *)
LEMMA SameConfig ==
  ASSUME TypeOK, \A k \in Keys : settings[k] = original[k] PROVE settings = original
BY DEF TypeOK, Config

(* A snapshot that is taken now is faithful.                               *)
LEMMA FaithfulNow == ASSUME TypeOK PROVE Faithful(settings, settings, original)
BY SameConfig DEF Faithful

(* A step of one process leaves the others alone: they are down.           *)
LEMMA OneWrites ==
  ASSUME WriteInv, NEW p \in Procs,
         \A q \in Procs : q # p => proc[q].pc = "down" /\ proc'[q] = proc[q],
         TypeOK', file' = "saved" => Faithful(parked', settings', original'),
         Covered(p)'
  PROVE  WriteInv'
<1>1. Alone'
  BY DEF Alone
<1>2. ASSUME NEW q \in Procs, q # p PROVE Covered(q)'
  <2>1. proc'[q] = proc[q] /\ proc[q].pc = "down" /\ Covered(q)
    BY <1>2 DEF WriteInv
  <2> QED
    BY <2>1 DEF Covered, Remembers, Carries, RestoreLoop, ApplyLoop
<1> QED
  BY <1>1, <1>2 DEF WriteInv

LEMMA OthersDown ==
  ASSUME WriteInv, NEW p \in Procs, proc[p].pc # "down"
  PROVE  \A q \in Procs : q # p => proc[q].pc = "down"
BY DEF WriteInv, Alone

LEMMA WriteInvStep == ASSUME OneInstance, WriteInv, [Next]_vars PROVE WriteInv'
<1>0. /\ TypeOK /\ TypeOK' /\ WriteInv
      /\ file = "saved" => Faithful(parked, settings, original)
      /\ \A q \in Procs : proc[q] \in Process /\ Covered(q)
      /\ 1 \in 1 .. NKeys + 1
      /\ parked \in Config
  BY TypeStep, LoopValues, SysProxyAssumption DEF WriteInv, TypeOK
<1>1. CASE UserEdits
  <2>1. ASSUME NEW q \in Procs PROVE Covered(q)'
    <3>1. proc'[q] = proc[q] /\ proc[q].pc \in {"down", "idle"} /\ ~proc[q].active
          /\ Covered(q) /\ file' = "absent"
      BY <1>0, <1>1 DEF UserEdits
    <3> QED
      BY <3>1 DEF Covered, Remembers, Carries, RestoreLoop, ApplyLoop
  <2> QED
    BY <1>0, <1>1, <2>1 DEF UserEdits, WriteInv, Alone
<1>2. CASE UNCHANGED vars
  BY <1>2 DEF vars, WriteInv, TypeOK, Alone, Covered, Remembers, Carries
<1>3. ASSUME NEW p \in Procs, Launch(p) PROVE WriteInv'
  <2>1. PICK t \in Targets : Becomes(p, [proc[p] EXCEPT
                              !.listen = t,
                              !.pc     = IF file = "saved" THEN "recover" ELSE "idle",
                              !.held   = IF file = "saved" THEN parked ELSE @])
    BY <1>3 DEF Launch
  <2> DEFINE r == [proc[p] EXCEPT
                     !.listen = t,
                     !.pc     = IF file = "saved" THEN "recover" ELSE "idle",
                     !.held   = IF file = "saved" THEN parked ELSE @]
  <2>2. r \in Process /\ r.active = proc[p].active
        /\ r.at = proc[p].at
        /\ r.failed = proc[p].failed
        /\ r.pc = (IF file = "saved" THEN "recover" ELSE "idle")
        /\ (file = "saved" => r.held = parked)
    BY <1>0 DEF TypeOK, Process, Phases
  <2>3. proc'[p] = r /\ \A q \in Procs : q # p => proc'[q] = proc[q]
    BY <1>0, <2>1, <2>2, Becoming
  <2> HIDE DEF r
  <2>4. ~proc[p].active /\ proc[p].at = 1
    BY <1>0, <1>3 DEF Launch, Covered, RestoreLoop, ApplyLoop
  <2>5. UNCHANGED <<settings, original, file, parked>>
    BY <1>3 DEF Launch
  <2>6. Covered(p)'
    BY <1>0, <2>2, <2>3, <2>4, <2>5
    DEF Covered, Remembers, Carries, RestoreLoop, ApplyLoop, Keys
  <2>7. \A q \in Procs : q # p => proc[q].pc = "down"
    BY <1>3 DEF Launch, OneInstance
  <2> QED
    BY <1>0, <2>3, <2>5, <2>6, <2>7, OneWrites
<1>4. ASSUME NEW p \in Procs, Kill(p) PROVE WriteInv'
  <2>1. Covered(p)'
    BY <1>0, <1>4, Becoming, FreshIsProcess
    DEF Kill, Fresh, Covered, Remembers, Carries, RestoreLoop, ApplyLoop
  <2> QED
    BY <1>0, <1>4, <2>1, Becoming, FreshIsProcess, OneWrites, OthersDown DEF Kill
<1>5. ASSUME NEW p \in Procs, Operator(p) PROVE WriteInv'
  <2>1. CASE EnableBegins(p)
    <3> DEFINE r == [proc[p] EXCEPT !.pc = "park", !.held = settings]
    <3>1. r \in Process /\ r.pc = "park"
          /\ r.active = proc[p].active /\ r.held = settings
          /\ r.at = proc[p].at /\ r.listen = proc[p].listen
          /\ r.failed = proc[p].failed /\ r.target = proc[p].target
      BY <1>0, <2>1, LoopValues, SysProxyAssumption, ZenonT(60)
      DEF EnableBegins, TypeOK, Process, Phases
    <3>2. proc'[p] = r /\ \A q \in Procs : q # p => proc'[q] = proc[q]
      BY <1>0, <2>1, <3>1, Becoming DEF EnableBegins
    <3> HIDE DEF r
    <3>4. Covered(p)' /\ (file' = "saved" => Faithful(parked', settings', original'))
      BY <1>0, <2>1, <3>1, <3>2, FaithfulNow
      DEF EnableBegins, Covered, Remembers, Carries, RestoreLoop, ApplyLoop
    <3> QED
      BY <1>0, <2>1, <3>2, <3>4, OneWrites, OthersDown DEF EnableBegins
  <2>2. CASE \E t \in Targets : ChangePort(p, t)
    <3>0. PICK t \in Targets : ChangePort(p, t)
      BY <2>2
    <3> DEFINE r == [proc[p] EXCEPT !.listen = t,
                     !.pc = IF proc[p].active /\ proc[p].target # t
                            THEN "move" ELSE "idle"]
    <3>1. r \in Process
          /\ r.pc = (IF proc[p].active /\ proc[p].target # t THEN "move" ELSE "idle")
          /\ r.active = proc[p].active /\ r.held = proc[p].held
          /\ r.at = proc[p].at /\ r.listen = t
          /\ r.failed = proc[p].failed /\ r.target = proc[p].target
      BY <1>0, <3>0, LoopValues, SysProxyAssumption, ZenonT(60)
      DEF ChangePort, TypeOK, Process, Phases
    <3>2. proc'[p] = r /\ \A q \in Procs : q # p => proc'[q] = proc[q]
      BY <1>0, <3>0, <3>1, Becoming DEF ChangePort
    <3> HIDE DEF r
    <3>4. Covered(p)' /\ (file' = "saved" => Faithful(parked', settings', original'))
      BY <1>0, <3>0, <3>1, <3>2
      DEF ChangePort, Covered, Remembers, Carries, RestoreLoop, ApplyLoop, Keys
    <3> QED
      BY <1>0, <3>0, <3>2, <3>4, OneWrites, OthersDown DEF ChangePort
  <2>3. CASE \E leaving \in BOOLEAN : RestoreBegins(p, leaving)
    <3>0. PICK leaving \in BOOLEAN : RestoreBegins(p, leaving)
      BY <2>3
    <3> DEFINE r == [proc[p] EXCEPT !.pc = "restore", !.active = FALSE,
                     !.failed = FALSE, !.leaving = leaving]
    <3>1. r \in Process /\ r.pc = "restore" /\ r.active = FALSE /\ r.held = proc[p].held
          /\ r.at = proc[p].at /\ r.listen = proc[p].listen
          /\ r.failed = FALSE /\ r.target = proc[p].target
      BY <1>0, <3>0, LoopValues, SysProxyAssumption
      DEF RestoreBegins, TypeOK, Process, Phases
    <3>2. proc'[p] = r /\ \A q \in Procs : q # p => proc'[q] = proc[q]
      BY <1>0, <3>0, <3>1, Becoming DEF RestoreBegins
    <3> HIDE DEF r
    <3>4. Covered(p)' /\ (file' = "saved" => Faithful(parked', settings', original'))
      BY <1>0, <3>0, <3>1, <3>2
      DEF RestoreBegins, Covered, Remembers, Carries, RestoreLoop, ApplyLoop, Keys
    <3> QED
      BY <1>0, <3>0, <3>2, <3>4, OneWrites, OthersDown DEF RestoreBegins
  <2>4. CASE ExitInactive(p)
    <3>1. Covered(p)' /\ (file' = "saved" => Faithful(parked', settings', original'))
      BY <1>0, <2>4, Becoming, FreshIsProcess
      DEF ExitInactive, Fresh, Covered, Remembers, Carries, RestoreLoop, ApplyLoop
    <3> QED
      BY <1>0, <2>4, <3>1, Becoming, FreshIsProcess, OneWrites, OthersDown
      DEF ExitInactive
  <2> QED
    BY <1>5, <2>1, <2>2, <2>3, <2>4 DEF Operator
<1>6. ASSUME NEW p \in Procs, Restoring(p) PROVE WriteInv'
  <2>1. CASE RestoreStep(p)
    <3> DEFINE r == [proc[p] EXCEPT !.at = @ + 1]
    <3>1. r \in Process /\ r.pc = proc[p].pc
          /\ r.active = proc[p].active /\ r.held = proc[p].held
          /\ r.at = proc[p].at + 1 /\ r.listen = proc[p].listen
          /\ r.failed = proc[p].failed /\ r.target = proc[p].target
      BY <1>0, <2>1, LoopValues, SysProxyAssumption
      DEF RestoreStep, TypeOK, Process, Phases
    <3>2. proc'[p] = r /\ \A q \in Procs : q # p => proc'[q] = proc[q]
      BY <1>0, <2>1, <3>1, Becoming DEF RestoreStep
    <3> HIDE DEF r
    <3>3. /\ proc[p].at \in Keys /\ settings' \in Config
          /\ \A k \in Keys : k # proc[p].at => settings'[k] = settings[k]
          /\ settings'[proc[p].at] \in {settings[proc[p].at], proc[p].held[proc[p].at]}
          /\ settings'[proc[p].at] = proc[p].held[proc[p].at]
      BY <1>0, <2>1, LoopValues, Writing DEF RestoreStep, TypeOK
    <3>4. Faithful(proc[p].held, settings', original)
          /\ (file = "saved" => Faithful(parked, settings', original))
      BY <1>0, <2>1, <3>3, FaithfulKept
      DEF RestoreStep, Covered, Remembers, Carries, RestoreLoop, ApplyLoop, Process
    <3>5. Covered(p)' /\ (file' = "saved" => Faithful(parked', settings', original'))
      BY <1>0, <2>1, <3>1, <3>2, <3>3, <3>4
      DEF RestoreStep, Covered, Remembers, Carries, RestoreLoop, ApplyLoop, Keys, Process
    <3> QED
      BY <1>0, <2>1, <3>2, <3>5, OneWrites, OthersDown
      DEF RestoreStep, RestoreLoop, ApplyLoop
  <2>2. CASE RestoreStepFails(p)
    <3> DEFINE r == [proc[p] EXCEPT !.at = @ + 1, !.failed = TRUE]
    <3>1. r \in Process /\ r.pc = proc[p].pc
          /\ r.active = proc[p].active /\ r.held = proc[p].held
          /\ r.at = proc[p].at + 1 /\ r.listen = proc[p].listen
          /\ r.failed = TRUE /\ r.target = proc[p].target
      BY <1>0, <2>2, LoopValues, SysProxyAssumption
      DEF RestoreStepFails, TypeOK, Process, Phases
    <3>2. proc'[p] = r /\ \A q \in Procs : q # p => proc'[q] = proc[q]
      BY <1>0, <2>2, <3>1, Becoming DEF RestoreStepFails
    <3> HIDE DEF r
    <3>3. /\ proc[p].at \in Keys /\ settings' \in Config
          /\ \A k \in Keys : k # proc[p].at => settings'[k] = settings[k]
          /\ settings'[proc[p].at] \in {settings[proc[p].at], proc[p].held[proc[p].at]}
      BY <1>0, <2>2, LoopValues, Writing DEF RestoreStepFails, TypeOK
    <3>4. Faithful(proc[p].held, settings', original)
          /\ (file = "saved" => Faithful(parked, settings', original))
      BY <1>0, <2>2, <3>3, FaithfulKept
      DEF RestoreStepFails, Covered, Remembers, Carries, RestoreLoop, ApplyLoop, Process
    <3>5. Covered(p)' /\ (file' = "saved" => Faithful(parked', settings', original'))
      BY <1>0, <2>2, <3>1, <3>2, <3>3, <3>4
      DEF RestoreStepFails, Covered, Remembers, Carries, RestoreLoop, ApplyLoop, Keys, Process
    <3> QED
      BY <1>0, <2>2, <3>2, <3>5, OneWrites, OthersDown
      DEF RestoreStepFails, RestoreLoop, ApplyLoop
  <2>3. CASE RestoreReturns(p)
    <3>1. Returned(p) \in Process /\ ~Returned(p).active
          /\ Returned(p).at = 1 /\ Returned(p).pc \in {"down", "idle"}
          /\ (Returned(p).pc = "idle" => Returned(p).failed = proc[p].failed)
      BY <1>0, <2>3, FreshIsProcess
      DEF RestoreReturns, LoopEnded, Returned, Fresh, Covered, TypeOK, Process,
          Phases, RestoreLoop
    <3>2. proc'[p] = Returned(p) /\ \A q \in Procs : q # p => proc'[q] = proc[q]
      BY <1>0, <2>3, <3>1, Becoming DEF RestoreReturns
    <3>3. Covered(p)' /\ (file' = "saved" => Faithful(parked', settings', original'))
      BY <1>0, <2>3, <3>1, <3>2
      DEF RestoreReturns, LoopEnded, Covered, Remembers, Carries, RestoreLoop, ApplyLoop
    <3> QED
      BY <1>0, <2>3, <3>2, <3>3, OneWrites, OthersDown
      DEF RestoreReturns, LoopEnded, RestoreLoop
  <2> QED
    BY <1>6, <2>1, <2>2, <2>3 DEF Restoring
<1>7. ASSUME NEW p \in Procs, Enabling(p) PROVE WriteInv'
  <2>1. CASE ParkTruncates(p)
    <3> DEFINE r == [proc[p] EXCEPT !.pc = "parkWrite", !.failed = FALSE]
    <3>1. r \in Process /\ r.pc = "parkWrite"
          /\ r.active = proc[p].active /\ r.held = proc[p].held
          /\ r.at = proc[p].at /\ r.listen = proc[p].listen
          /\ r.failed = FALSE /\ r.target = proc[p].target
      BY <1>0, <2>1, LoopValues, SysProxyAssumption
      DEF ParkTruncates, TypeOK, Process, Phases
    <3>2. proc'[p] = r /\ \A q \in Procs : q # p => proc'[q] = proc[q]
      BY <1>0, <2>1, <3>1, Becoming DEF ParkTruncates
    <3> HIDE DEF r
    <3>4. Covered(p)' /\ (file' = "saved" => Faithful(parked', settings', original'))
      BY <1>0, <2>1, <3>1, <3>2
      DEF ParkTruncates, Covered, Remembers, Carries, RestoreLoop, ApplyLoop
    <3> QED
      BY <1>0, <2>1, <3>2, <3>4, OneWrites, OthersDown DEF ParkTruncates
  <2>2. CASE ParkWrites(p)
    <3> DEFINE r == [proc[p] EXCEPT !.pc = "apply"]
    <3>1. r \in Process /\ r.pc = "apply"
          /\ r.active = proc[p].active /\ r.held = proc[p].held
          /\ r.at = proc[p].at /\ r.listen = proc[p].listen
          /\ r.failed = proc[p].failed /\ r.target = proc[p].target
      BY <1>0, <2>2, LoopValues, SysProxyAssumption
      DEF ParkWrites, TypeOK, Process, Phases
    <3>2. proc'[p] = r /\ \A q \in Procs : q # p => proc'[q] = proc[q]
      BY <1>0, <2>2, <3>1, Becoming DEF ParkWrites
    <3> HIDE DEF r
    <3>4. Covered(p)' /\ (file' = "saved" => Faithful(parked', settings', original'))
      BY <1>0, <2>2, <3>1, <3>2
      DEF ParkWrites, Covered, Remembers, Carries, RestoreLoop, ApplyLoop, Keys
    <3> QED
      BY <1>0, <2>2, <3>2, <3>4, OneWrites, OthersDown DEF ParkWrites
  <2>3. CASE ParkFails(p)
    <3> DEFINE r == [proc[p] EXCEPT !.pc = "idle"]
    <3>1. r \in Process /\ r.pc = "idle"
          /\ r.active = proc[p].active /\ r.held = proc[p].held
          /\ r.at = proc[p].at /\ r.listen = proc[p].listen
          /\ r.failed = proc[p].failed /\ r.target = proc[p].target
      BY <1>0, <2>3, LoopValues, SysProxyAssumption
      DEF ParkFails, TypeOK, Process, Phases
    <3>2. proc'[p] = r /\ \A q \in Procs : q # p => proc'[q] = proc[q]
      BY <1>0, <2>3, <3>1, Becoming DEF ParkFails
    <3> HIDE DEF r
    <3>4. Covered(p)' /\ (file' = "saved" => Faithful(parked', settings', original'))
      BY <1>0, <2>3, <3>1, <3>2
      DEF ParkFails, Covered, Remembers, Carries, RestoreLoop, ApplyLoop
    <3> QED
      BY <1>0, <2>3, <3>2, <3>4, OneWrites, OthersDown DEF ParkFails
  <2>4. CASE ApplyStep(p)
    <3> DEFINE r == [proc[p] EXCEPT !.at = @ + 1]
    <3>1. r \in Process /\ r.pc = proc[p].pc
          /\ r.active = proc[p].active /\ r.held = proc[p].held
          /\ r.at = proc[p].at + 1 /\ r.listen = proc[p].listen
          /\ r.failed = proc[p].failed /\ r.target = proc[p].target
      BY <1>0, <2>4, LoopValues, SysProxyAssumption
      DEF ApplyStep, TypeOK, Process, Phases
    <3>2. proc'[p] = r /\ \A q \in Procs : q # p => proc'[q] = proc[q]
      BY <1>0, <2>4, <3>1, Becoming DEF ApplyStep
    <3> HIDE DEF r
    <3>3. /\ proc[p].at \in Keys /\ settings' \in Config
          /\ \A k \in Keys : k # proc[p].at => settings'[k] = settings[k]
          /\ settings'[proc[p].at] \in {settings[proc[p].at], proc[p].listen}
          /\ settings'[proc[p].at] = proc[p].listen
      BY <1>0, <2>4, LoopValues, Writing DEF ApplyStep, TypeOK
    <3>4. Faithful(proc[p].held, settings', original)
          /\ (file = "saved" => Faithful(parked, settings', original))
      BY <1>0, <2>4, <3>3, FaithfulKept
      DEF ApplyStep, Covered, Remembers, Carries, RestoreLoop, ApplyLoop, Process
    <3>5. Covered(p)' /\ (file' = "saved" => Faithful(parked', settings', original'))
      BY <1>0, <2>4, <3>1, <3>2, <3>3, <3>4
      DEF ApplyStep, Covered, Remembers, Carries, RestoreLoop, ApplyLoop, Keys, Process
    <3> QED
      BY <1>0, <2>4, <3>2, <3>5, OneWrites, OthersDown
      DEF ApplyStep, RestoreLoop, ApplyLoop
  <2>5. CASE EnableReturns(p)
    <3> DEFINE r == [proc[p] EXCEPT !.pc = "idle", !.at = 1,
                     !.active = TRUE, !.target = proc[p].listen]
    <3>1. r \in Process /\ r.pc = "idle" /\ r.active = TRUE /\ r.held = proc[p].held
          /\ r.at = 1 /\ r.listen = proc[p].listen
          /\ r.failed = proc[p].failed /\ r.target = proc[p].listen
      BY <1>0, <2>5, LoopValues, SysProxyAssumption, ZenonT(60)
      DEF EnableReturns, LoopEnded, TypeOK, Process, Phases
    <3>2. proc'[p] = r /\ \A q \in Procs : q # p => proc'[q] = proc[q]
      BY <1>0, <2>5, <3>1, Becoming DEF EnableReturns
    <3> HIDE DEF r
    <3>3. \A k \in Keys : settings[k] = proc[p].listen /\ settings[k] \in Targets
      BY <1>0, <2>5, SysProxyAssumption
      DEF EnableReturns, LoopEnded, Covered, ApplyLoop, Keys, Process
    <3>4. Covered(p)' /\ (file' = "saved" => Faithful(parked', settings', original'))
      BY <1>0, <2>5, <3>1, <3>2, <3>3
      DEF EnableReturns, LoopEnded, Covered, Remembers, Carries, RestoreLoop, ApplyLoop
    <3> QED
      BY <1>0, <2>5, <3>2, <3>4, OneWrites, OthersDown DEF EnableReturns, LoopEnded
  <2>6. CASE EnableFails(p)
    <3> DEFINE r == [proc[p] EXCEPT !.pc = "rollback", !.at = 1]
    <3>1. r \in Process /\ r.pc = "rollback"
          /\ r.active = proc[p].active /\ r.held = proc[p].held
          /\ r.at = 1 /\ r.listen = proc[p].listen
          /\ r.failed = proc[p].failed /\ r.target = proc[p].target
      BY <1>0, <2>6, LoopValues, SysProxyAssumption, ZenonT(60)
      DEF EnableFails, TypeOK, Process, Phases
    <3>2. proc'[p] = r /\ \A q \in Procs : q # p => proc'[q] = proc[q]
      BY <1>0, <2>6, <3>1, Becoming DEF EnableFails
    <3> HIDE DEF r
    <3>3. /\ proc[p].at \in Keys /\ settings' \in Config
          /\ \A k \in Keys : k # proc[p].at => settings'[k] = settings[k]
          /\ settings'[proc[p].at] \in {settings[proc[p].at], proc[p].listen}
      BY <1>0, <2>6, LoopValues, Writing DEF EnableFails, TypeOK
    <3>4. Faithful(proc[p].held, settings', original)
          /\ (file = "saved" => Faithful(parked, settings', original))
      BY <1>0, <2>6, <3>3, FaithfulKept
      DEF EnableFails, Covered, Remembers, Carries, RestoreLoop, ApplyLoop, Process
    <3>5. Covered(p)' /\ (file' = "saved" => Faithful(parked', settings', original'))
      BY <1>0, <2>6, <3>1, <3>2, <3>3, <3>4
      DEF EnableFails, Covered, Remembers, Carries, RestoreLoop, ApplyLoop, Keys, Process
    <3> QED
      BY <1>0, <2>6, <3>2, <3>5, OneWrites, OthersDown
      DEF EnableFails, RestoreLoop, ApplyLoop
  <2>7. CASE RollbackReturns(p)
    <3>1. Returned(p) \in Process /\ ~Returned(p).active
          /\ Returned(p).at = 1 /\ Returned(p).pc \in {"down", "idle"}
          /\ (Returned(p).pc = "idle" => Returned(p).failed = proc[p].failed)
      BY <1>0, <2>7, FreshIsProcess
      DEF RollbackReturns, LoopEnded, Returned, Fresh, Covered, TypeOK, Process,
          Phases, RestoreLoop
    <3>2. proc'[p] = Returned(p) /\ \A q \in Procs : q # p => proc'[q] = proc[q]
      BY <1>0, <2>7, <3>1, Becoming DEF RollbackReturns
    <3>3. Covered(p)' /\ (file' = "saved" => Faithful(parked', settings', original'))
      BY <1>0, <2>7, <3>1, <3>2
      DEF RollbackReturns, LoopEnded, Covered, Remembers, Carries, RestoreLoop, ApplyLoop
    <3> QED
      BY <1>0, <2>7, <3>2, <3>3, OneWrites, OthersDown
      DEF RollbackReturns, LoopEnded, RestoreLoop
  <2> QED
    BY <1>7, <2>1, <2>2, <2>3, <2>4, <2>5, <2>6, <2>7 DEF Enabling
<1>8. ASSUME NEW p \in Procs, Moving(p) PROVE WriteInv'
  <2>1. CASE MoveReturns(p)
    <3> DEFINE r == [proc[p] EXCEPT !.pc = "repark", !.at = 1,
                     !.target = proc[p].listen, !.failed = FALSE]
    <3>1. r \in Process /\ r.pc = "repark"
          /\ r.active = proc[p].active /\ r.held = proc[p].held
          /\ r.at = 1 /\ r.listen = proc[p].listen
          /\ r.failed = FALSE /\ r.target = proc[p].listen
      BY <1>0, <2>1, LoopValues, SysProxyAssumption, ZenonT(60)
      DEF MoveReturns, LoopEnded, TypeOK, Process, Phases
    <3>2. proc'[p] = r /\ \A q \in Procs : q # p => proc'[q] = proc[q]
      BY <1>0, <2>1, <3>1, Becoming DEF MoveReturns
    <3> HIDE DEF r
    <3>3. \A k \in Keys : settings[k] = proc[p].listen /\ settings[k] \in Targets
      BY <1>0, <2>1, SysProxyAssumption
      DEF MoveReturns, LoopEnded, Covered, ApplyLoop, Keys, Process
    <3>4. Covered(p)' /\ (file' = "saved" => Faithful(parked', settings', original'))
      BY <1>0, <2>1, <3>1, <3>2, <3>3
      DEF MoveReturns, LoopEnded, Covered, Remembers, Carries, RestoreLoop, ApplyLoop
    <3> QED
      BY <1>0, <2>1, <3>2, <3>4, OneWrites, OthersDown DEF MoveReturns, LoopEnded
  <2>2. CASE MoveFails(p)
    <3> DEFINE r == [proc[p] EXCEPT !.pc = "idle", !.at = 1, !.failed = TRUE]
    <3>1. r \in Process /\ r.pc = "idle"
          /\ r.active = proc[p].active /\ r.held = proc[p].held
          /\ r.at = 1 /\ r.listen = proc[p].listen
          /\ r.failed = TRUE /\ r.target = proc[p].target
      BY <1>0, <2>2, LoopValues, SysProxyAssumption, ZenonT(60)
      DEF MoveFails, TypeOK, Process, Phases
    <3>2. proc'[p] = r /\ \A q \in Procs : q # p => proc'[q] = proc[q]
      BY <1>0, <2>2, <3>1, Becoming DEF MoveFails
    <3> HIDE DEF r
    <3>3. /\ proc[p].at \in Keys /\ settings' \in Config
          /\ \A k \in Keys : k # proc[p].at => settings'[k] = settings[k]
          /\ settings'[proc[p].at] \in {settings[proc[p].at], proc[p].listen}
      BY <1>0, <2>2, LoopValues, Writing DEF MoveFails, TypeOK
    <3>4. Faithful(proc[p].held, settings', original)
          /\ (file = "saved" => Faithful(parked, settings', original))
      BY <1>0, <2>2, <3>3, FaithfulKept
      DEF MoveFails, Covered, Remembers, Carries, RestoreLoop, ApplyLoop, Process
    <3>5. Covered(p)' /\ (file' = "saved" => Faithful(parked', settings', original'))
      BY <1>0, <2>2, <3>1, <3>2, <3>3, <3>4
      DEF MoveFails, Covered, Remembers, Carries, RestoreLoop, ApplyLoop, Keys, Process
    <3> QED
      BY <1>0, <2>2, <3>2, <3>5, OneWrites, OthersDown
      DEF MoveFails, RestoreLoop, ApplyLoop
  <2>3. CASE ReparkTruncates(p)
    <3> DEFINE r == [proc[p] EXCEPT !.pc = "reparkWrite"]
    <3>1. r \in Process /\ r.pc = "reparkWrite"
          /\ r.active = proc[p].active /\ r.held = proc[p].held
          /\ r.at = proc[p].at /\ r.listen = proc[p].listen
          /\ r.failed = proc[p].failed /\ r.target = proc[p].target
      BY <1>0, <2>3, LoopValues, SysProxyAssumption
      DEF ReparkTruncates, TypeOK, Process, Phases
    <3>2. proc'[p] = r /\ \A q \in Procs : q # p => proc'[q] = proc[q]
      BY <1>0, <2>3, <3>1, Becoming DEF ReparkTruncates
    <3> HIDE DEF r
    <3>4. Covered(p)' /\ (file' = "saved" => Faithful(parked', settings', original'))
      BY <1>0, <2>3, <3>1, <3>2
      DEF ReparkTruncates, Covered, Remembers, Carries, RestoreLoop, ApplyLoop
    <3> QED
      BY <1>0, <2>3, <3>2, <3>4, OneWrites, OthersDown DEF ReparkTruncates
  <2>4. CASE ReparkWrites(p)
    <3> DEFINE r == [proc[p] EXCEPT !.pc = "idle"]
    <3>1. r \in Process /\ r.pc = "idle"
          /\ r.active = proc[p].active /\ r.held = proc[p].held
          /\ r.at = proc[p].at /\ r.listen = proc[p].listen
          /\ r.failed = proc[p].failed /\ r.target = proc[p].target
      BY <1>0, <2>4, LoopValues, SysProxyAssumption
      DEF ReparkWrites, TypeOK, Process, Phases
    <3>2. proc'[p] = r /\ \A q \in Procs : q # p => proc'[q] = proc[q]
      BY <1>0, <2>4, <3>1, Becoming DEF ReparkWrites
    <3> HIDE DEF r
    <3>4. Covered(p)' /\ (file' = "saved" => Faithful(parked', settings', original'))
      BY <1>0, <2>4, <3>1, <3>2
      DEF ReparkWrites, Covered, Remembers, Carries, RestoreLoop, ApplyLoop
    <3> QED
      BY <1>0, <2>4, <3>2, <3>4, OneWrites, OthersDown DEF ReparkWrites
  <2>5. CASE ReparkFails(p)
    <3> DEFINE r == [proc[p] EXCEPT !.pc = "idle"]
    <3>1. r \in Process /\ r.pc = "idle"
          /\ r.active = proc[p].active /\ r.held = proc[p].held
          /\ r.at = proc[p].at /\ r.listen = proc[p].listen
          /\ r.failed = proc[p].failed /\ r.target = proc[p].target
      BY <1>0, <2>5, LoopValues, SysProxyAssumption
      DEF ReparkFails, TypeOK, Process, Phases
    <3>2. proc'[p] = r /\ \A q \in Procs : q # p => proc'[q] = proc[q]
      BY <1>0, <2>5, <3>1, Becoming DEF ReparkFails
    <3> HIDE DEF r
    <3>4. Covered(p)' /\ (file' = "saved" => Faithful(parked', settings', original'))
      BY <1>0, <2>5, <3>1, <3>2
      DEF ReparkFails, Covered, Remembers, Carries, RestoreLoop, ApplyLoop
    <3> QED
      BY <1>0, <2>5, <3>2, <3>4, OneWrites, OthersDown DEF ReparkFails
  <2> QED
    BY <1>8, <2>1, <2>2, <2>3, <2>4, <2>5 DEF Moving
<1> QED
  BY <1>1, <1>2, <1>3, <1>4, <1>5, <1>6, <1>7, <1>8 DEF Next, Working

(* Whoever may write a snapshot back holds one that is on disk, if anything*)
(* is, and that is the user's own or was taken of settings that still are  *)
(* not: whatever fails, as long as instances do not overlap.               *)
THEOREM WriteInvAlways == ASSUME OneInstance PROVE Spec => []WriteInv
<1>1. Init => WriteInv
  <2>1. Init => TypeOK
    BY FreshIsProcess, SysProxyAssumption DEF Init, TypeOK, Config, Values
  <2> QED
    BY <2>1, FreshIsProcess DEF Init, WriteInv, Alone, Covered, Remembers, Carries, Fresh,
        RestoreLoop, ApplyLoop
<1> QED
  BY <1>1, WriteInvStep, PTL DEF Spec

(* The steps that write a setting, and the values they write.              *)
LEMMA WhoWrites ==
  ASSUME [Next]_vars, settings' # settings, original' = original
  PROVE  \E p \in Procs :
           /\ proc[p].pc \in RestoreLoop \cup ApplyLoop /\ proc[p].at <= NKeys
           /\ settings' = Written(p, IF proc[p].pc \in RestoreLoop
                                     THEN proc[p].held[proc[p].at] ELSE proc[p].listen)
<1> DEFINE Writes(p) == RestoreStep(p) \/ RestoreStepFails(p) \/ ApplyStep(p)
                        \/ EnableFails(p) \/ MoveFails(p)
<1>1. \E p \in Procs : Writes(p)
  <2>1. CASE UserEdits
    BY <2>1 DEF UserEdits
  <2>2. CASE UNCHANGED vars
    BY <2>2 DEF vars
  <2>3. ASSUME NEW p \in Procs, Launch(p) \/ Working(p) \/ Operator(p) \/ Kill(p)
        PROVE  Writes(p)
    BY <2>3
    DEF Launch, Working, Operator, Kill, Restoring, RestoreReturns, Enabling,
        ParkTruncates, ParkWrites, ParkFails, EnableReturns, RollbackReturns, Moving,
        MoveReturns, ReparkTruncates, ReparkWrites, ReparkFails,
        EnableBegins, ChangePort, RestoreBegins, ExitInactive
  <2> QED
    BY <2>1, <2>2, <2>3 DEF Next
<1>2. PICK p \in Procs : Writes(p)
  BY <1>1
<1>3. proc[p].pc \in RestoreLoop \cup ApplyLoop /\ proc[p].at <= NKeys
  BY <1>2
  DEF RestoreStep, RestoreStepFails, ApplyStep, EnableFails, MoveFails, ApplyLoop
<1>4. CASE proc[p].pc \in RestoreLoop
  <2>1. settings' = Written(p, proc[p].held[proc[p].at])
    BY <1>2, <1>4
    DEF RestoreStep, RestoreStepFails, ApplyStep, EnableFails, MoveFails,
        RestoreLoop, ApplyLoop
  <2> QED
    BY <1>3, <1>4, <2>1
<1>5. CASE proc[p].pc \notin RestoreLoop
  <2>1. settings' = Written(p, proc[p].listen)
    BY <1>2, <1>5
    DEF RestoreStep, RestoreStepFails, ApplyStep, EnableFails, MoveFails
  <2> QED
    BY <1>3, <1>5, <2>1
<1> QED
  BY <1>4, <1>5

(* The write that takes the settings away from the user's own is by an     *)
(* Enable whose snapshot, the user's own, is on disk.                      *)
LEMMA FirstWrite ==
  ASSUME WriteInv, [Next]_vars,
         settings = original, settings' # original, original' = original
  PROVE  file = "saved" /\ parked = original
<1>1. PICK p \in Procs :
        /\ proc[p].pc \in RestoreLoop \cup ApplyLoop /\ proc[p].at <= NKeys
        /\ settings' = Written(p, IF proc[p].pc \in RestoreLoop
                                  THEN proc[p].held[proc[p].at] ELSE proc[p].listen)
  BY WhoWrites
<1>2. TypeOK /\ Covered(p) /\ proc[p].at \in Keys
  BY <1>1, LoopValues, Writing DEF WriteInv
<1>3. ~proc[p].active
  <2>1. settings[proc[p].at] \notin Targets
    BY <1>2, SysProxyAssumption DEF TypeOK
  <2> QED
    BY <1>2, <2>1 DEF Covered
<1>4. proc[p].pc # "move"
  BY <1>2, <1>3 DEF Covered
<1>5. proc[p].held = original
  BY <1>1, <1>2, <1>4 DEF Covered, Carries, Faithful, ApplyLoop
<1>6. proc[p].pc \notin RestoreLoop
  BY <1>1, <1>2, <1>5 DEF Written, TypeOK
<1> QED
  BY <1>1, <1>2, <1>4, <1>5, <1>6 DEF Covered, ApplyLoop

(* Whatever fails, files and restores included, the first write that takes *)
(* the settings away from the user's own happens with the user's own on    *)
(* disk.                                                                   *)
THEOREM FirstWriteAlwaysCovered ==
  ASSUME OneInstance PROVE Spec => FirstWriteIsCovered
<1>1. WriteInv /\ [Next]_vars =>
        [settings = original /\ settings' # original /\ original' = original
           => file = "saved" /\ parked = original]_vars
  BY FirstWrite
<1> QED
  BY <1>1, WriteInvAlways, PTL DEF Spec, FirstWriteIsCovered

-----------------------------------------------------------------------------
(* The steps that touch the recovery copy.                                 *)
MovesCopy(p) ==
  \/ ParkTruncates(p) \/ ParkWrites(p) \/ ReparkTruncates(p) \/ ReparkWrites(p)
  \/ RestoreReturns(p) \/ RollbackReturns(p) \/ ExitInactive(p)

LEMMA WhoMovesCopy ==
  ASSUME [Next]_vars
  PROVE  \/ UNCHANGED <<original, file, parked>>
         \/ UserEdits
         \/ \E p \in Procs : MovesCopy(p)
BY DEF Next, vars, MovesCopy, Launch, Working, Operator, Kill,
       Restoring, RestoreStep, RestoreStepFails,
       Enabling, ParkFails, ApplyStep, EnableReturns, EnableFails,
       Moving, MoveReturns, MoveFails, ReparkFails,
       EnableBegins, ChangePort, RestoreBegins

(* A restore loop that ended with no failing command has put back all that *)
(* it holds.                                                               *)
LEMMA LoopUndone ==
  ASSUME TypeOK, NEW p \in Procs, Covered(p), proc[p].pc \in RestoreLoop,
         proc[p].at = NKeys + 1, ~proc[p].failed
  PROVE  settings = proc[p].held
<1>1. \A k \in Keys : k < NKeys + 1
  BY SysProxyAssumption DEF Keys
<1>2. \A k \in Keys : settings[k] = proc[p].held[k]
  BY <1>1 DEF Covered
<1> QED
  BY <1>2 DEF TypeOK, Config, Process

(* While the settings are not the user's own, the complete copy of the     *)
(* user's own stays on disk: it goes only when they are back, when a port  *)
(* change writes it anew, or when somebody goes on after a failed restore. *)
THEOREM RecoverableAlways == ASSUME OneInstance PROVE Spec => Recoverable
<1>1. ASSUME WriteInv, [Next]_vars, ~Untouched, OnDisk
      PROVE  (Untouched \/ OnDisk)' \/ \E p \in Procs : ReparkTruncates(p) \/ GoesOn(p)
  <2>0. TypeOK /\ \A p \in Procs : Covered(p)
    BY <1>1 DEF WriteInv
  <2>1. CASE UNCHANGED <<original, file, parked>>
    BY <1>1, <2>1 DEF OnDisk
  <2>2. CASE UserEdits
    BY <1>1, <2>2 DEF UserEdits, OnDisk
  <2>3. ASSUME NEW p \in Procs, ParkTruncates(p) \/ ExitInactive(p) PROVE GoesOn(p)
    BY <1>1, <2>0, <2>3 DEF ParkTruncates, ExitInactive, GoesOn, Covered, OnDisk
  <2>4. ASSUME NEW p \in Procs, ParkWrites(p) PROVE FALSE
    BY <1>1, <2>0, <2>4 DEF ParkWrites, Covered, OnDisk
  <2>5. ASSUME NEW p \in Procs, ReparkWrites(p) PROVE OnDisk'
    BY <1>1, <2>0, <2>5 DEF ReparkWrites, Covered, OnDisk
  <2>6. ASSUME NEW p \in Procs, RestoreReturns(p) PROVE OnDisk'
    BY <1>1, <2>0, <2>6, LoopUndone
    DEF RestoreReturns, LoopEnded, Covered, OnDisk, Untouched, RestoreLoop
  <2>7. ASSUME NEW p \in Procs, RollbackReturns(p) PROVE GoesOn(p)
    BY <1>1, <2>0, <2>7, LoopUndone
    DEF RollbackReturns, LoopEnded, Covered, OnDisk, Untouched, RestoreLoop, GoesOn
  <2> QED
    BY <1>1, <2>1, <2>2, <2>3, <2>4, <2>5, <2>6, <2>7, WhoMovesCopy DEF MovesCopy
<1> QED
  BY <1>1, WriteInvAlways, PTL DEF Spec, Recoverable

-----------------------------------------------------------------------------
(* What the one process that is up holds of the user's settings.           *)
Holds(p) == Remembers(p) /\ proc[p].held = original

LEMMA InMemoryOfOne ==
  ASSUME WriteInv, NEW p \in Procs,
         \A q \in Procs : q # p => proc[q].pc = "down" /\ proc'[q] = proc[q]
  PROVE  (InMemory <=> Holds(p)) /\ (InMemory' <=> Holds(p)')
<1>1. ASSUME NEW q \in Procs, q # p PROVE ~Remembers(q) /\ ~Remembers(q)'
  <2>1. ~proc[q].active /\ proc[q].pc = "down" /\ proc'[q] = proc[q]
    BY <1>1 DEF WriteInv, Covered
  <2> QED
    BY <2>1 DEF Remembers
<1> QED
  BY <1>1 DEF InMemory, Holds

(* A restore that returns leaves its process with no snapshot.             *)
LEMMA ReturnedForgets ==
  ASSUME TypeOK, NEW p \in Procs, Covered(p), proc[p] \in Process,
         \E phase \in RestoreLoop : LoopEnded(p, phase),
         Becomes(p, Returned(p))
  PROVE  ~Remembers(p)'
<1>1. Returned(p) \in Process /\ ~Returned(p).active /\ Returned(p).pc # "restore"
  BY FreshIsProcess, SysProxyAssumption
  DEF Returned, Fresh, LoopEnded, RestoreLoop, Covered, Process, Phases
<1> QED
  BY <1>1, Becoming DEF Remembers

(* When a loop without a failure has ended and the settings are not the    *)
(* user's own, what it put back was not either, and nobody has them.       *)
LEMMA UndoneHasNone ==
  ASSUME TypeOK, ~Untouched, NEW p \in Procs, Covered(p), proc[p].pc \in RestoreLoop,
         proc[p].at = NKeys + 1, ~proc[p].failed
  PROVE  ~OnDisk /\ ~Holds(p)
BY LoopUndone DEF Untouched, OnDisk, Holds, Covered

(* A step of a handler that leaves the settings as they are, while they    *)
(* differ from the user's own, neither closes nor opens a way back, or it  *)
(* is one of the steps that lose it.                                       *)
LEMMA WayBackKept ==
  ASSUME WriteInv, ~Untouched, NEW p \in Procs,
         \A q \in Procs : q # p => proc[q].pc = "down" /\ proc'[q] = proc[q],
         UNCHANGED <<settings, original>>,
         Launch(p) \/ Working(p) \/ Operator(p) \/ Kill(p)
  PROVE  (WayBack' <=> WayBack) \/ Loses(p)
<1>0. /\ TypeOK /\ Covered(p) /\ proc[p] \in Process
      /\ InMemory <=> Holds(p)
      /\ InMemory' <=> Holds(p)'
  BY InMemoryOfOne DEF WriteInv, TypeOK
<1>1. ASSUME UNCHANGED <<file, parked>>, Holds(p)' <=> Holds(p)
      PROVE  WayBack' <=> WayBack
  BY <1>0, <1>1 DEF WayBack, OnDisk
<1>2. CASE Launch(p)
  <2>1. PICK t \in Targets : Becomes(p, [proc[p] EXCEPT
                              !.listen = t,
                              !.pc     = IF file = "saved" THEN "recover" ELSE "idle",
                              !.held   = IF file = "saved" THEN parked ELSE @])
    BY <1>2 DEF Launch
  <2> DEFINE r == [proc[p] EXCEPT
                     !.listen = t,
                     !.pc     = IF file = "saved" THEN "recover" ELSE "idle",
                     !.held   = IF file = "saved" THEN parked ELSE @]
  <2>2. r \in Process /\ r.active = proc[p].active /\ r.pc # "restore"
    BY <1>0 DEF TypeOK, Process, Phases
  <2>3. proc'[p] = r
    BY <1>0, <2>1, <2>2, Becoming
  <2> HIDE DEF r
  <2>4. ~Holds(p) /\ ~Holds(p)'
    BY <1>0, <1>2, <2>2, <2>3 DEF Launch, Holds, Remembers, Covered
  <2> QED
    BY <1>1, <1>2, <2>4 DEF Launch
<1>3. CASE Kill(p)
  <2>1. ~Holds(p)'
    BY <1>0, <1>3, Becoming, FreshIsProcess DEF Kill, Fresh, Holds, Remembers
  <2>2. CASE ~Holds(p)
    BY <1>1, <1>3, <2>1, <2>2 DEF Kill
  <2>3. CASE Holds(p) /\ file = "saved"
    <3>1. parked = original
      BY <1>0, <2>3 DEF Holds, Remembers, Covered, RestoreLoop
    <3> QED
      BY <1>3, <2>3, <3>1 DEF Kill, WayBack, OnDisk
  <2>4. CASE Holds(p) /\ file # "saved"
    <3>1. file = "torn" /\ Remembers(p)
      BY <1>0, <2>4 DEF Holds, Covered, TypeOK
    <3> QED
      BY <1>3, <3>1 DEF Loses
  <2> QED
    BY <2>2, <2>3, <2>4
<1>4. CASE Operator(p)
  <2>1. CASE EnableBegins(p)
    <3>1. ~Holds(p) /\ ~Holds(p)'
      BY <1>0, <2>1 DEF EnableBegins, Becomes, TypeOK, Process, Holds, Remembers
    <3> QED
      BY <1>1, <2>1, <3>1 DEF EnableBegins
  <2>2. ASSUME NEW t \in Targets, ChangePort(p, t) PROVE WayBack' <=> WayBack
    <3>1. Holds(p)' <=> Holds(p)
      BY <1>0, <2>2 DEF ChangePort, Becomes, TypeOK, Process, Holds, Remembers
    <3> QED
      BY <1>1, <2>2, <3>1 DEF ChangePort
  <2>3. ASSUME NEW leaving \in BOOLEAN, RestoreBegins(p, leaving)
        PROVE  WayBack' <=> WayBack
    <3>1. Holds(p)' <=> Holds(p)
      BY <1>0, <2>3 DEF RestoreBegins, Becomes, TypeOK, Process, Holds, Remembers
    <3> QED
      BY <1>1, <2>3, <3>1 DEF RestoreBegins
  <2>4. CASE ExitInactive(p)
    <3>1. ~Holds(p) /\ ~Holds(p)'
      BY <1>0, <2>4, Becoming, FreshIsProcess
      DEF ExitInactive, Fresh, Holds, Remembers
    <3>2. CASE proc[p].failed
      BY <2>4, <3>2 DEF Loses, GoesOn
    <3>3. CASE ~proc[p].failed
      BY <1>0, <2>4, <3>1, <3>3 DEF ExitInactive, Covered, WayBack, OnDisk
    <3> QED
      BY <3>2, <3>3
  <2> QED
    BY <1>4, <2>1, <2>2, <2>3, <2>4 DEF Operator
<1>5. CASE Restoring(p)
  <2>1. CASE RestoreStep(p)
    <3>1. Holds(p)' <=> Holds(p)
      BY <1>0, <2>1 DEF RestoreStep, Becomes, TypeOK, Process, Holds, Remembers
    <3> QED
      BY <1>1, <2>1, <3>1 DEF RestoreStep
  <2>2. CASE RestoreStepFails(p)
    <3>1. Holds(p)' <=> Holds(p)
      BY <1>0, <2>2 DEF RestoreStepFails, Becomes, TypeOK, Process, Holds, Remembers
    <3> QED
      BY <1>1, <2>2, <3>1 DEF RestoreStepFails
  <2>3. CASE RestoreReturns(p)
    <3>0. (\E phase \in RestoreLoop : LoopEnded(p, phase)) /\ Becomes(p, Returned(p))
      BY <2>3 DEF RestoreReturns, RestoreLoop
    <3>1. ~Holds(p)'
      BY <1>0, <3>0, ReturnedForgets DEF Holds
    <3>2. CASE ~proc[p].failed
      BY <1>0, <2>3, <3>1, <3>2, UndoneHasNone
      DEF RestoreReturns, LoopEnded, RestoreLoop, WayBack, OnDisk
    <3>3. CASE proc[p].failed /\ ~Holds(p)
      BY <1>1, <2>3, <3>1, <3>3 DEF RestoreReturns
    <3>4. CASE proc[p].failed /\ Holds(p) /\ file = "saved"
      <4>1. parked = original
        BY <1>0, <3>4 DEF Holds, Remembers, Covered, RestoreLoop
      <4> QED
        BY <2>3, <3>4, <4>1 DEF RestoreReturns, WayBack, OnDisk
    <3>5. CASE proc[p].failed /\ Holds(p) /\ file # "saved"
      <4>1. file = "torn" /\ Remembers(p)
        BY <1>0, <3>5 DEF Holds, Covered, TypeOK
      <4> QED
        BY <2>3, <3>5, <4>1 DEF Loses
    <3> QED
      BY <3>2, <3>3, <3>4, <3>5
  <2> QED
    BY <1>5, <2>1, <2>2, <2>3 DEF Restoring
<1>6. CASE Enabling(p)
  <2>1. CASE ParkTruncates(p)
    <3>1. ~Holds(p) /\ ~Holds(p)'
      BY <1>0, <2>1
      DEF ParkTruncates, Becomes, TypeOK, Process, Holds, Remembers, Covered
    <3>2. CASE proc[p].failed
      BY <2>1, <3>2 DEF Loses, GoesOn
    <3>3. CASE ~proc[p].failed
      BY <1>0, <2>1, <3>1, <3>3 DEF ParkTruncates, Covered, WayBack, OnDisk
    <3> QED
      BY <3>2, <3>3
  <2>2. CASE ParkWrites(p)
    <3>1. ~Holds(p) /\ ~Holds(p)'
      BY <1>0, <2>2
      DEF ParkWrites, Becomes, TypeOK, Process, Holds, Remembers, Covered
    <3> QED
      BY <1>0, <2>2, <3>1 DEF ParkWrites, Covered, WayBack, OnDisk, Untouched
  <2>3. CASE ParkFails(p)
    <3>1. ~Holds(p) /\ ~Holds(p)'
      BY <1>0, <2>3
      DEF ParkFails, Becomes, TypeOK, Process, Holds, Remembers, Covered
    <3> QED
      BY <1>1, <2>3, <3>1 DEF ParkFails
  <2>4. CASE ApplyStep(p)
    <3>1. Holds(p)' <=> Holds(p)
      BY <1>0, <2>4 DEF ApplyStep, Becomes, TypeOK, Process, Holds, Remembers
    <3> QED
      BY <1>1, <2>4, <3>1 DEF ApplyStep
  <2>5. CASE EnableReturns(p)
    <3>1. ~Holds(p) /\ (Holds(p)' <=> proc[p].held = original)
      BY <1>0, <2>5
      DEF EnableReturns, LoopEnded, Becomes, TypeOK, Process, Holds, Remembers, Covered
    <3>2. file = "saved" /\ parked = proc[p].held
      BY <1>0, <2>5 DEF EnableReturns, LoopEnded, Covered
    <3> QED
      BY <1>0, <2>5, <3>1, <3>2 DEF EnableReturns, WayBack, OnDisk
  <2>6. CASE EnableFails(p)
    <3>1. ~Holds(p) /\ ~Holds(p)'
      <4>1. proc'[p] = [proc[p] EXCEPT !.pc = "rollback", !.at = 1]
        BY <1>0, <2>6 DEF EnableFails, Becomes, TypeOK
      <4>2. proc'[p].pc = "rollback" /\ proc'[p].active = proc[p].active
        BY <1>0, <4>1, ZenonT(30) DEF Process
      <4> QED
        BY <1>0, <2>6, <4>2 DEF EnableFails, Holds, Remembers, Covered
    <3> QED
      BY <1>1, <2>6, <3>1 DEF EnableFails
  <2>7. CASE RollbackReturns(p)
    <3>0. (\E phase \in RestoreLoop : LoopEnded(p, phase)) /\ Becomes(p, Returned(p))
      BY <2>7 DEF RollbackReturns, RestoreLoop
    <3>1. ~Holds(p)'
      BY <1>0, <3>0, ReturnedForgets DEF Holds
    <3>2. CASE proc[p].failed
      BY <2>7, <3>2 DEF Loses, GoesOn
    <3>3. CASE ~proc[p].failed
      BY <1>0, <2>7, <3>1, <3>3, UndoneHasNone
      DEF RollbackReturns, LoopEnded, RestoreLoop, WayBack, OnDisk
    <3> QED
      BY <3>2, <3>3
  <2> QED
    BY <1>6, <2>1, <2>2, <2>3, <2>4, <2>5, <2>6, <2>7 DEF Enabling
<1>7. CASE Moving(p)
  <2>0. proc[p].pc # "restore" /\ (file = "saved" => parked = proc[p].held)
        /\ (proc'[p].pc # "restore" /\ proc'[p].held = proc[p].held
              /\ proc'[p].active)
        /\ proc[p].active
    <3>1. proc[p].active /\ proc[p].pc # "restore"
      BY <1>0, <1>7
      DEF Moving, MoveReturns, MoveFails, LoopEnded, ReparkTruncates, ReparkWrites,
          ReparkFails, Covered
    <3>2. file = "saved" => parked = proc[p].held
      BY <1>0, <3>1 DEF Covered
    <3>3. proc'[p].pc \in {"idle", "repark", "reparkWrite"}
          /\ proc'[p].active = proc[p].active /\ proc'[p].held = proc[p].held
      <4>1. CASE MoveReturns(p)
        <5>1. proc'[p] = [proc[p] EXCEPT !.pc = "repark", !.at = 1,
                          !.target = proc[p].listen, !.failed = FALSE]
          BY <1>0, <4>1 DEF MoveReturns, Becomes, TypeOK
        <5> QED
          BY <1>0, <5>1, ZenonT(30) DEF Process
      <4>2. CASE MoveFails(p)
        <5>1. proc'[p] = [proc[p] EXCEPT !.pc = "idle", !.at = 1, !.failed = TRUE]
          BY <1>0, <4>2 DEF MoveFails, Becomes, TypeOK
        <5> QED
          BY <1>0, <5>1, ZenonT(30) DEF Process
      <4>3. CASE ReparkTruncates(p)
        BY <1>0, <4>3 DEF ReparkTruncates, Becomes, TypeOK, Process
      <4>4. CASE ReparkWrites(p)
        BY <1>0, <4>4 DEF ReparkWrites, Becomes, TypeOK, Process
      <4>5. CASE ReparkFails(p)
        BY <1>0, <4>5 DEF ReparkFails, Becomes, TypeOK, Process
      <4> QED
        BY <1>7, <4>1, <4>2, <4>3, <4>4, <4>5 DEF Moving
    <3>4. proc'[p].pc # "restore"
      BY <3>3
    <3> QED
      BY <3>1, <3>2, <3>3, <3>4
  <2>1. (Holds(p) <=> proc[p].held = original) /\ (Holds(p)' <=> Holds(p))
    BY <2>0 DEF Holds, Remembers
  <2>2. OnDisk => Holds(p)
    BY <2>0, <2>1 DEF OnDisk
  <2>3. OnDisk' => Holds(p)
    BY <1>7, <2>0, <2>1, <2>2
    DEF Moving, MoveReturns, MoveFails, ReparkTruncates, ReparkWrites, ReparkFails,
        OnDisk
  <2> QED
    BY <1>0, <2>1, <2>2, <2>3 DEF WayBack
<1> QED
  BY <1>2, <1>3, <1>4, <1>5, <1>6, <1>7 DEF Working

(* A step that writes a setting leaves where the user's own are kept alone.*)
LEMMA WritingKeepsWayBack ==
  ASSUME WriteInv, NEW p \in Procs,
         \A q \in Procs : q # p => proc[q].pc = "down" /\ proc'[q] = proc[q],
         RestoreStep(p) \/ RestoreStepFails(p) \/ ApplyStep(p)
           \/ EnableFails(p) \/ MoveFails(p)
  PROVE  WayBack' <=> WayBack
<1>0. /\ TypeOK /\ Covered(p) /\ proc[p] \in Process
      /\ InMemory <=> Holds(p)
      /\ InMemory' <=> Holds(p)'
      /\ UNCHANGED <<original, file, parked>>
  BY InMemoryOfOne
  DEF WriteInv, TypeOK, RestoreStep, RestoreStepFails, ApplyStep, EnableFails,
      MoveFails
<1>1. Holds(p)' <=> Holds(p)
  <2>1. CASE RestoreStep(p)
    BY <1>0, <2>1 DEF RestoreStep, Becomes, TypeOK, Process, Holds, Remembers
  <2>2. CASE RestoreStepFails(p)
    BY <1>0, <2>2 DEF RestoreStepFails, Becomes, TypeOK, Process, Holds, Remembers
  <2>3. CASE ApplyStep(p)
    BY <1>0, <2>3 DEF ApplyStep, Becomes, TypeOK, Process, Holds, Remembers
  <2>4. CASE EnableFails(p)
    <3>1. proc'[p] = [proc[p] EXCEPT !.pc = "rollback", !.at = 1]
      BY <1>0, <2>4 DEF EnableFails, Becomes, TypeOK
    <3>2. proc'[p].pc = "rollback" /\ proc'[p].active = proc[p].active
      BY <1>0, <3>1, ZenonT(30) DEF Process
    <3> QED
      BY <1>0, <2>4, <3>2 DEF EnableFails, Holds, Remembers, Covered
  <2>5. CASE MoveFails(p)
    <3>1. proc'[p] = [proc[p] EXCEPT !.pc = "idle", !.at = 1, !.failed = TRUE]
      BY <1>0, <2>5 DEF MoveFails, Becomes, TypeOK
    <3>2. proc'[p].pc = "idle" /\ proc'[p].active = proc[p].active
          /\ proc'[p].held = proc[p].held
      BY <1>0, <3>1, ZenonT(30) DEF Process
    <3> QED
      BY <1>0, <2>5, <3>2 DEF MoveFails, Holds, Remembers
  <2> QED
    BY <2>1, <2>2, <2>3, <2>4, <2>5
<1> QED
  BY <1>0, <1>1 DEF WayBack, OnDisk

(* Of the steps of a process, only these write a setting.                  *)
LEMMA OnlyThese ==
  ASSUME NEW p \in Procs, Launch(p) \/ Working(p) \/ Operator(p) \/ Kill(p),
         settings' # settings
  PROVE  RestoreStep(p) \/ RestoreStepFails(p) \/ ApplyStep(p)
           \/ EnableFails(p) \/ MoveFails(p)
BY DEF Launch, Working, Operator, Kill, Restoring, RestoreReturns, Enabling,
       ParkTruncates, ParkWrites, ParkFails, EnableReturns, RollbackReturns, Moving,
       MoveReturns, ReparkTruncates, ReparkWrites, ReparkFails,
       EnableBegins, ChangePort, RestoreBegins, ExitInactive

(* While one process moves the others are down, and stay as they are.      *)
LEMMA OthersStay ==
  ASSUME OneInstance, WriteInv, NEW p \in Procs,
         Launch(p) \/ Working(p) \/ Operator(p) \/ Kill(p)
  PROVE  \A q \in Procs : q # p => proc[q].pc = "down" /\ proc'[q] = proc[q]
<1>1. proc \in [Procs -> Process]
  BY DEF WriteInv, TypeOK
<1>2. \A q \in Procs : q # p => proc'[q] = proc[q]
  BY <1>1
  DEF Becomes, Launch, Working, Operator, Kill, Restoring, RestoreStep,
      RestoreStepFails, RestoreReturns, Enabling, ParkTruncates, ParkWrites, ParkFails,
      ApplyStep, EnableReturns, EnableFails, RollbackReturns, Moving, MoveReturns,
      MoveFails, ReparkTruncates, ReparkWrites, ReparkFails, EnableBegins, ChangePort,
      RestoreBegins, ExitInactive
<1>3. CASE Launch(p)
  BY <1>2, <1>3 DEF Launch, OneInstance
<1>4. CASE ~Launch(p)
  <2>1. proc[p].pc # "down"
    BY <1>4
    DEF Working, Operator, Kill, Restoring, RestoreStep, RestoreStepFails,
        RestoreReturns, LoopEnded, Enabling, ParkTruncates, ParkWrites, ParkFails,
        ApplyStep, EnableReturns, EnableFails, RollbackReturns, Moving, MoveReturns,
        MoveFails, ReparkTruncates, ReparkWrites, ReparkFails, EnableBegins,
        ChangePort, RestoreBegins, ExitInactive, RestoreLoop, ApplyLoop
  <2> QED
    BY <1>2, <2>1, OthersDown
<1> QED
  BY <1>3, <1>4

(* Only a restore loop makes the settings the user's own again, and only   *)
(* one that holds them.                                                    *)
LEMMA ReturnsOwn ==
  ASSUME WriteInv, WriteInv', NEW p \in Procs,
         \A q \in Procs : q # p => proc[q].pc = "down" /\ proc'[q] = proc[q],
         RestoreStep(p) \/ RestoreStepFails(p) \/ ApplyStep(p)
           \/ EnableFails(p) \/ MoveFails(p),
         UNCHANGED original, ~Untouched, Untouched'
  PROVE  WayBack
<1>0. TypeOK /\ TypeOK' /\ Covered(p) /\ proc[p] \in Process
  BY DEF WriteInv, TypeOK
<1>1. proc[p].at <= NKeys /\ proc[p].at \in Keys
  BY <1>0, Writing, LoopValues
  DEF RestoreStep, RestoreStepFails, ApplyStep, EnableFails, MoveFails
<1>2. original[proc[p].at] \notin Targets /\ proc[p].listen \in Targets
  BY <1>0, <1>1, SysProxyAssumption DEF TypeOK, Process
<1>3. settings' = original /\ settings' # settings
  BY DEF Untouched
<1>4. CASE proc[p].pc \in RestoreLoop
  <2>1. Faithful(proc[p].held, settings', original)
    <3>1. settings' = Written(p, proc[p].held[proc[p].at])
      BY <1>3, <1>4
      DEF RestoreStep, RestoreStepFails, ApplyStep, EnableFails, MoveFails,
          RestoreLoop, ApplyLoop
    <3>2. /\ settings' \in Config /\ proc[p].held \in Config
          /\ settings'[proc[p].at] = proc[p].held[proc[p].at]
          /\ \A k \in Keys : k # proc[p].at => settings'[k] = settings[k]
      BY <1>0, <1>1, <3>1, Writing, LoopValues DEF Process
    <3>3. Faithful(proc[p].held, settings, original)
      BY <1>0, <1>4 DEF Covered, Carries
    <3> QED
      BY <1>0, <1>1, <3>2, <3>3, FaithfulKept
  <2>2. proc[p].held = original
    BY <1>3, <2>1 DEF Faithful
  <2>3. proc[p].pc = "restore" \/ (file = "saved" /\ parked = proc[p].held)
    BY <1>0, <1>4 DEF Covered, RestoreLoop
  <2> QED
    BY <2>2, <2>3 DEF WayBack, OnDisk, InMemory, Remembers
<1>5. CASE proc[p].pc \notin RestoreLoop
  <2>1. settings' = Written(p, proc[p].listen)
    BY <1>3, <1>5
    DEF RestoreStep, RestoreStepFails, ApplyStep, EnableFails, MoveFails
  <2>2. settings'[proc[p].at] = proc[p].listen
    BY <1>0, <1>1, <2>1, Writing, LoopValues
  <2> QED
    BY <1>2, <1>3, <2>2
<1> QED
  BY <1>4, <1>5

(* The controller implements the write-ahead discipline, whatever fails:   *)
(* every step is one of Save, Forget, Borrow and Return, leaves both sides *)
(* as they are, or is one of the named steps that lose the settings.       *)
THEOREM PromiseKept == ASSUME OneInstance PROVE Spec => KeepsPromise
<1>1. Init => Promise!Init
  BY FreshIsProcess
  DEF Init, Promise!Init, Untouched, WayBack, OnDisk, InMemory, Remembers, Fresh
<1>2. ASSUME WriteInv, WriteInv', [Next]_vars
      PROVE  [Promise!Next \/ \E p \in Procs : Loses(p)]_(Promise!vars)
  <2>0. TypeOK /\ \A p \in Procs : Covered(p)
    BY <1>2 DEF WriteInv
  <2>1. CASE UserEdits
    <3>1. ~WayBack /\ ~WayBack'
      BY <2>1 DEF UserEdits, WayBack, OnDisk, InMemory, Remembers
    <3> QED
      BY <2>1, <3>1 DEF UserEdits, Untouched, WayBack, Promise!vars
  <2>2. CASE UNCHANGED vars
    BY <2>2 DEF vars, Promise!vars, Untouched, WayBack, OnDisk, InMemory, Remembers
  <2>3. ASSUME NEW p \in Procs, Launch(p) \/ Working(p) \/ Operator(p) \/ Kill(p)
        PROVE  [Promise!Next \/ Loses(p)]_(Promise!vars)
    <3>1. \A q \in Procs : q # p => proc[q].pc = "down" /\ proc'[q] = proc[q]
      BY <1>2, <2>0, <2>3, OthersStay
    <3>2. CASE UNCHANGED <<settings, original>>
      <4>1. CASE Untouched
        BY <3>2, <4>1
        DEF Untouched, Promise!Next, Promise!vars, Promise!Save, Promise!Forget
      <4>2. CASE ~Untouched
        <5>1. (WayBack' <=> WayBack) \/ Loses(p)
          BY <1>2, <2>3, <3>1, <3>2, <4>2, WayBackKept
        <5> QED
          BY <3>2, <5>1 DEF Untouched, WayBack, Promise!vars
      <4> QED
        BY <4>1, <4>2
    <3>3. CASE settings' # settings
      <4>1. RestoreStep(p) \/ RestoreStepFails(p) \/ ApplyStep(p)
              \/ EnableFails(p) \/ MoveFails(p)
        BY <2>3, <3>3, OnlyThese
      <4>2. WayBack' <=> WayBack
        BY <1>2, <3>1, <4>1, WritingKeepsWayBack
      <4>3. UNCHANGED original
        BY <4>1
        DEF RestoreStep, RestoreStepFails, ApplyStep, EnableFails, MoveFails
      <4>4. Untouched /\ ~Untouched' => WayBack
        BY <1>2, <4>3, FirstWrite DEF Untouched, WayBack, OnDisk
      <4>5. ~Untouched /\ Untouched' => WayBack
        BY <1>2, <2>0, <3>1, <4>1, <4>2, <4>3, ReturnsOwn
      <4> QED
        BY <4>2, <4>4, <4>5 DEF Promise!Next, Promise!vars, Promise!Borrow, Promise!Return
    <3>4. UNCHANGED original
      BY <2>3
      DEF Launch, Working, Operator, Kill, Restoring, RestoreStep, RestoreStepFails,
          RestoreReturns, Enabling, ParkTruncates, ParkWrites, ParkFails, ApplyStep,
          EnableReturns, EnableFails, RollbackReturns, Moving, MoveReturns, MoveFails,
          ReparkTruncates, ReparkWrites, ReparkFails, EnableBegins, ChangePort,
          RestoreBegins, ExitInactive
    <3> QED
      BY <3>2, <3>3, <3>4
  <2> QED
    BY <1>2, <2>1, <2>2, <2>3 DEF Next
<1> QED
  BY <1>1, <1>2, WriteInvAlways, PTL DEF Spec, KeepsPromise

(* An Enable or a port change that reports success leaves every setting at *)
(* the address the process listens on, whatever failed before, unless it is*)
(* the port change that follows a failed one.                              *)
THEOREM AlwaysPointedAtListener ==
  ASSUME OneInstance PROVE Spec => PointedAtListener
<1>1. ASSUME WriteInv, [Next]_vars, NEW p \in Procs, Succeeds(p),
             ~(proc[p].pc = "idle" /\ proc[p].failed)
      PROVE  PointsAtListener(p)
  <2>0. TypeOK /\ Covered(p) /\ proc[p] \in Process
    BY <1>1 DEF WriteInv, TypeOK
  <2>1. EnableReturns(p) \/ ReparkWrites(p) \/ ReparkFails(p)
    <3>1. proc'[p] # proc[p] /\ proc[p].pc \in {"idle", "apply", "repark", "reparkWrite"}
          /\ proc'[p].pc = "idle" /\ proc'[p].active
      BY <1>1 DEF Succeeds, Moved
    <3>2. PICK q \in Procs : Launch(q) \/ Working(q) \/ Operator(q) \/ Kill(q)
      BY <1>1, <3>1 DEF Next, UserEdits, vars
    <3>3. q = p
      BY <2>0, <3>1, <3>2
      DEF TypeOK, Becomes, Launch, Working, Operator, Kill,
          Restoring, RestoreStep, RestoreStepFails, RestoreReturns,
          Enabling, ParkTruncates, ParkWrites, ParkFails, ApplyStep, EnableReturns,
          EnableFails, RollbackReturns,
          Moving, MoveReturns, MoveFails, ReparkTruncates, ReparkWrites,
          ReparkFails, EnableBegins, ChangePort, RestoreBegins, ExitInactive
    <3>4. ~Launch(p) /\ ~Restoring(p)
      BY <3>1
      DEF Launch, Restoring, RestoreStep, RestoreStepFails, RestoreReturns, LoopEnded,
          RestoreLoop
    <3>5. ~Kill(p) /\ ~ExitInactive(p)
      BY <2>0, <3>1, Becoming, FreshIsProcess DEF Kill, ExitInactive, Fresh
    <3>6. ~EnableBegins(p) /\ \A leaving \in BOOLEAN : ~RestoreBegins(p, leaving)
      BY <2>0, <3>1 DEF EnableBegins, RestoreBegins, Becomes, TypeOK, Process
    <3>7. \A t \in Targets : ~ChangePort(p, t)
      <4>1. SUFFICES ASSUME NEW t \in Targets, ChangePort(p, t) PROVE FALSE
        OBVIOUS
      <4>2. proc[p].pc = "idle" /\ proc[p].listen # t
        BY <4>1 DEF ChangePort
      <4>3. /\ proc'[p].active = proc[p].active
            /\ proc'[p].pc = (IF proc[p].active /\ proc[p].target # t
                              THEN "move" ELSE "idle")
        BY <2>0, <4>1 DEF ChangePort, Becomes, TypeOK, Process
      <4> QED
        BY <1>1, <2>0, <3>1, <4>2, <4>3 DEF Covered
    <3>8. CASE Enabling(p)
      <4>1. ~EnableFails(p)
        <5>1. SUFFICES ASSUME EnableFails(p) PROVE FALSE
          OBVIOUS
        <5>2. proc'[p] = [proc[p] EXCEPT !.pc = "rollback", !.at = 1]
          BY <2>0, <5>1 DEF EnableFails, Becomes, TypeOK
        <5>3. proc'[p].pc = "rollback"
          BY <2>0, <5>2, ZenonT(30) DEF Process
        <5> QED
          BY <3>1, <5>3
      <4>2. ~ApplyStep(p)
        <5>1. SUFFICES ASSUME ApplyStep(p) PROVE FALSE
          OBVIOUS
        <5>2. proc'[p] = [proc[p] EXCEPT !.at = @ + 1]
          BY <2>0, <5>1 DEF ApplyStep, Becomes, TypeOK
        <5>3. proc'[p].pc = proc[p].pc /\ proc[p].pc # "idle"
          BY <2>0, <5>1, <5>2 DEF Process, ApplyStep, ApplyLoop
        <5> QED
          BY <3>1, <5>3
      <4> QED
        BY <3>1, <3>8, <4>1, <4>2
        DEF Enabling, ParkTruncates, ParkWrites, ParkFails, RollbackReturns,
            LoopEnded
    <3>9. CASE Moving(p)
      <4>1. ~ReparkTruncates(p)
        BY <2>0, <3>1 DEF ReparkTruncates, Becomes, TypeOK, Process
      <4> QED
        BY <3>1, <3>9, <4>1 DEF Moving, MoveReturns, MoveFails, LoopEnded
    <3> QED
      BY <3>2, <3>3, <3>4, <3>5, <3>6, <3>7, <3>8, <3>9 DEF Working, Operator
  <2>2. proc'[p].listen = proc[p].listen
    BY <2>0, <2>1
    DEF EnableReturns, ReparkWrites, ReparkFails, Becomes, TypeOK, Process
  <2>3. \A k \in Keys : settings[k] = proc[p].listen
    BY <2>0, <2>1, SysProxyAssumption
    DEF EnableReturns, LoopEnded, ReparkWrites, ReparkFails, Covered,
        ApplyLoop, Keys
  <2>4. UNCHANGED settings
    BY <2>1 DEF EnableReturns, ReparkWrites, ReparkFails
  <2>5. settings = [k \in Keys |-> proc[p].listen]
    BY <2>0, <2>3 DEF TypeOK, Config
  <2> QED
    BY <2>2, <2>4, <2>5 DEF PointsAtListener
<1>2. WriteInv /\ [Next]_vars =>
        [\A p \in Procs : Succeeds(p) /\ ~(proc[p].pc = "idle" /\ proc[p].failed)
                            => PointsAtListener(p)]_vars
  BY <1>1
<1> QED
  BY <1>2, WriteInvAlways, PTL DEF Spec, PointedAtListener
=============================================================================
