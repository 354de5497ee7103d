------------------------------ MODULE SysProxy ------------------------------
(***************************************************************************)
(* The life cycle of the operating system's proxy settings                 *)
(* (internal/sysproxy): snapshot, park the snapshot on disk, point every   *)
(* setting at cli-proxy, re-point after a port change, restore, and undo   *)
(* at the next launch what a killed run left behind.                       *)
(*                                                                         *)
(* The settings are written by one external command each, so a handler is  *)
(* a sequence of steps a kill can land between.  The settings are numbered *)
(* in the order the platform code writes them (linux.go: mode, http host,  *)
(* http port, https host, https port).  A setting that is pointed at       *)
(* address t holds t; what the user had configured is a value of UserValues*)
(***************************************************************************)
EXTENDS Naturals

CONSTANTS
  Procs,       \* cli-proxy processes that share one ca-dir
  NKeys,       \* number of settings the platform writes
  UserValues,  \* what a setting may hold before cli-proxy touches it
  Targets,     \* addresses cli-proxy may listen on
  Faults       \* the mishaps the environment is allowed, see below

(***************************************************************************)
(* Faults:                                                                 *)
(*   "crash"    a process dies (SIGKILL, power loss) between two steps;    *)
(*              what a step before had written is on disk                  *)
(*   "apply"    a command of applyPlatform fails                           *)
(*   "restore"  a command of restorePlatform fails                         *)
(*   "second"   a second instance is started while one is running          *)
(***************************************************************************)
FaultKinds == {"crash", "apply", "restore", "second"}

ASSUME SysProxyAssumption ==
  /\ NKeys \in Nat \ {0}
  /\ Procs # {}
  /\ UserValues # {} /\ Targets # {}
  /\ UserValues \cap Targets = {}
  /\ Faults \subseteq FaultKinds

VARIABLES
  settings,  \* the operating system's proxy settings
  original,  \* history: the user's own configuration
  file,      \* sysproxy-backup.json: absent, truncated, or complete
  parked,    \* the entries in the backup file, when it is complete
  proc       \* the controller and the running handler of every process

vars == <<settings, original, file, parked, proc>>

Keys   == 1 .. NKeys
Values == UserValues \cup Targets
Config == [Keys -> Values]

Phases == {"down", "idle", "recover", "park", "parkWrite", "apply",
           "rollback", "move", "repark", "reparkWrite", "restore"}

(***************************************************************************)
(* snap # nil is "active", its entries are "held" (a handler keeps its     *)
(* local copy of the entries there too); "goal" is the address being       *)
(* applied, "at" the next setting the loop writes, "leaving" tells Restore *)
(* at exit from Disable in the UI.  "failed" is the restore loop's firstErr*)
(* and, after a loop, history: its last command over the settings failed   *)
(* and nothing has been done about it since.                               *)
(***************************************************************************)
Process == [pc : Phases, active : BOOLEAN, held : Config, target : Targets,
            listen : Targets, at : 1 .. NKeys + 1, failed : BOOLEAN,
            leaving : BOOLEAN]

Fresh == [pc |-> "down", active |-> FALSE,
          held |-> [k \in Keys |-> CHOOSE v \in UserValues : TRUE],
          target |-> CHOOSE t \in Targets : TRUE,
          listen |-> CHOOSE t \in Targets : TRUE,
          at |-> 1, failed |-> FALSE, leaving |-> FALSE]

Init == /\ original \in [Keys -> UserValues]
        /\ settings = original
        /\ file = "absent"
        /\ parked = Fresh.held
        /\ proc = [p \in Procs |-> Fresh]

Becomes(p, state) == proc' = [proc EXCEPT ![p] = state]

-----------------------------------------------------------------------------
(* Startup: main.go starts the listener, then RecoverStale reads the       *)
(* backup.  A missing or unreadable file ends the recovery at once.        *)

(* Variant: RecoverStale is not called at startup.                         *)
LaunchWithoutRecovery(p) ==
  /\ proc[p].pc = "down"
  /\ "second" \notin Faults => \A q \in Procs : proc[q].pc = "down"
  /\ \E t \in Targets : Becomes(p, [proc[p] EXCEPT !.listen = t, !.pc = "idle"])
  /\ UNCHANGED <<settings, original, file, parked>>

Launch(p) ==
  /\ proc[p].pc = "down"
  /\ "second" \notin Faults => \A q \in Procs : proc[q].pc = "down"
  /\ \E t \in Targets :
       /\ \A q \in Procs : proc[q].pc # "down" => proc[q].listen # t
       /\ Becomes(p, [proc[p] EXCEPT
                        !.listen = t,
                        !.pc     = IF file = "saved" THEN "recover" ELSE "idle",
                        !.held   = IF file = "saved" THEN parked ELSE @])
  /\ UNCHANGED <<settings, original, file, parked>>

(* One command of restorePlatform.  A failing command is recorded and the  *)
(* loop goes on with the next one; a command that run() gave up on after   *)
(* its timeout reports an error although it may have taken effect.         *)
RestoreLoop == {"recover", "rollback", "restore"}

Written(p, value) == [settings EXCEPT ![proc[p].at] = value]

RestoreStep(p) ==
  /\ proc[p].pc \in RestoreLoop
  /\ proc[p].at <= NKeys
  /\ settings' = Written(p, proc[p].held[proc[p].at])
  /\ Becomes(p, [proc[p] EXCEPT !.at = @ + 1])
  /\ UNCHANGED <<original, file, parked>>

RestoreStepFails(p) ==
  /\ "restore" \in Faults
  /\ proc[p].pc \in RestoreLoop
  /\ proc[p].at <= NKeys
  /\ settings' \in {settings, Written(p, proc[p].held[proc[p].at])}
  /\ Becomes(p, [proc[p] EXCEPT !.at = @ + 1, !.failed = TRUE])
  /\ UNCHANGED <<original, file, parked>>

(* Back to the UI loop, or out of the process.                             *)
Returned(p) ==
  IF proc[p].leaving THEN Fresh
  ELSE [proc[p] EXCEPT !.pc = "idle", !.at = 1]

LoopEnded(p, phase) == proc[p].pc = phase /\ proc[p].at = NKeys + 1

(* RecoverStale and Restore end alike: the backup goes only when every     *)
(* command succeeded.                                                      *)
RestoreReturns(p) ==
  /\ \E phase \in {"recover", "restore"} : LoopEnded(p, phase)
  /\ file' = IF proc[p].failed THEN file ELSE "absent"
  /\ Becomes(p, Returned(p))
  /\ UNCHANGED <<settings, original, parked>>

-----------------------------------------------------------------------------
(* Enable when nothing is active: snapshot, park, apply.                   *)

(* Variant: the snapshot is kept in memory only.                           *)
EnableBeginsUnparked(p) ==
  /\ proc[p].pc = "idle"
  /\ ~proc[p].active
  /\ Becomes(p, [proc[p] EXCEPT !.pc = "apply", !.held = settings])
  /\ UNCHANGED <<settings, original, file, parked>>

EnableBegins(p) ==
  /\ proc[p].pc = "idle"
  /\ ~proc[p].active
  /\ Becomes(p, [proc[p] EXCEPT !.pc = "park", !.held = settings])
  /\ UNCHANGED <<settings, original, file, parked>>

(* os.WriteFile truncates the file and then writes it.                     *)
ParkTruncates(p) ==
  /\ proc[p].pc = "park"
  /\ file' = "torn"
  /\ Becomes(p, [proc[p] EXCEPT !.pc = "parkWrite", !.failed = FALSE])
  /\ UNCHANGED <<settings, original, parked>>

ParkWrites(p) ==
  /\ proc[p].pc = "parkWrite"
  /\ file' = "saved"
  /\ parked' = proc[p].held
  /\ Becomes(p, [proc[p] EXCEPT !.pc = "apply"])
  /\ UNCHANGED <<settings, original>>

(* Variant: a failed write of the recovery copy is only logged.            *)
ParkFailureIgnored(p) ==
  /\ proc[p].pc = "parkWrite"
  /\ Becomes(p, [proc[p] EXCEPT !.pc = "apply"])
  /\ UNCHANGED <<settings, original, file, parked>>

(* The write fails, before or after the truncation: Enable returns,        *)
(* nothing was applied.                                                    *)
ParkFails(p) ==
  /\ proc[p].pc \in {"park", "parkWrite"}
  /\ Becomes(p, [proc[p] EXCEPT !.pc = "idle"])
  /\ UNCHANGED <<settings, original, file, parked>>

(* One command of applyPlatform, for Enable ("apply") or repointLocked     *)
(* ("move").  The first failing command ends the loop.                     *)
ApplyLoop == {"apply", "move"}

(* Variant: the error of a command is dropped.                             *)
ApplyStepUnchecked(p) ==
  /\ proc[p].pc \in {"apply", "move"}
  /\ proc[p].at <= NKeys
  /\ settings' \in {settings, Written(p, proc[p].listen)}
  /\ Becomes(p, [proc[p] EXCEPT !.at = @ + 1])
  /\ UNCHANGED <<original, file, parked>>

ApplyStep(p) ==
  /\ proc[p].pc \in ApplyLoop
  /\ proc[p].at <= NKeys
  /\ settings' = Written(p, proc[p].listen)
  /\ Becomes(p, [proc[p] EXCEPT !.at = @ + 1])
  /\ UNCHANGED <<original, file, parked>>

EnableReturns(p) ==
  /\ LoopEnded(p, "apply")
  /\ Becomes(p, [proc[p] EXCEPT !.pc = "idle", !.at = 1,
                 !.active = TRUE, !.target = proc[p].listen])
  /\ UNCHANGED <<settings, original, file, parked>>

EnableFails(p) ==
  /\ "apply" \in Faults
  /\ proc[p].pc = "apply"
  /\ proc[p].at <= NKeys
  /\ settings' \in {settings, Written(p, proc[p].listen)}
  /\ Becomes(p, [proc[p] EXCEPT !.pc = "rollback", !.at = 1])
  /\ UNCHANGED <<original, file, parked>>

(* A rollback forgets the backup whether or not it succeeded.              *)
RollbackReturns(p) ==
  /\ LoopEnded(p, "rollback")
  /\ file' = "absent"
  /\ Becomes(p, Returned(p))
  /\ UNCHANGED <<settings, original, parked>>

-----------------------------------------------------------------------------
(* changePort: the listener moves first, then an active system proxy is    *)
(* pointed at the new address and the recovery copy is rewritten.          *)

(* Variant: re-pointing takes a new snapshot.                              *)
ChangePortResnapshots(p, t) ==
  /\ proc[p].pc = "idle"
  /\ \A q \in Procs : proc[q].pc # "down" => proc[q].listen # t
  /\ Becomes(p, [proc[p] EXCEPT !.listen = t, !.held = settings,
                 !.pc = IF proc[p].active THEN "move" ELSE "idle"])
  /\ UNCHANGED <<settings, original, file, parked>>

ChangePort(p, t) ==
  /\ proc[p].pc = "idle"
  /\ \A q \in Procs : proc[q].pc # "down" => proc[q].listen # t
  /\ Becomes(p, [proc[p] EXCEPT
                   !.listen = t,
                   !.pc     = IF proc[p].active /\ proc[p].target # t
                              THEN "move" ELSE "idle"])
  /\ UNCHANGED <<settings, original, file, parked>>

MoveReturns(p) ==
  /\ LoopEnded(p, "move")
  /\ Becomes(p, [proc[p] EXCEPT !.pc = "repark", !.at = 1,
                 !.target = proc[p].listen, !.failed = FALSE])
  /\ UNCHANGED <<settings, original, file, parked>>

MoveFails(p) ==
  /\ "apply" \in Faults
  /\ proc[p].pc = "move"
  /\ proc[p].at <= NKeys
  /\ settings' \in {settings, Written(p, proc[p].listen)}
  /\ Becomes(p, [proc[p] EXCEPT !.pc = "idle", !.at = 1, !.failed = TRUE])
  /\ UNCHANGED <<original, file, parked>>

(* The rewrite truncates the copy it replaces, like every os.WriteFile: the*)
(* user's settings are in the memory of this process only until it writes. *)
ReparkTruncates(p) ==
  /\ proc[p].pc = "repark"
  /\ file' = "torn"
  /\ Becomes(p, [proc[p] EXCEPT !.pc = "reparkWrite"])
  /\ UNCHANGED <<settings, original, parked>>

ReparkWrites(p) ==
  /\ proc[p].pc = "reparkWrite"
  /\ file' = "saved"
  /\ parked' = proc[p].held
  /\ Becomes(p, [proc[p] EXCEPT !.pc = "idle"])
  /\ UNCHANGED <<settings, original>>

(* The failure is logged, the handler succeeds.                            *)
ReparkFails(p) ==
  /\ proc[p].pc \in {"repark", "reparkWrite"}
  /\ Becomes(p, [proc[p] EXCEPT !.pc = "idle"])
  /\ UNCHANGED <<settings, original, file, parked>>

-----------------------------------------------------------------------------
(* Restore: Disable in the UI, or the deferred call when main returns.     *)
(* The snapshot is forgotten before the first command runs.                *)

(* Variant: the recovery copy is removed before the settings are back.     *)
RestoreBeginsForgetting(p, leaving) ==
  /\ proc[p].pc = "idle"
  /\ proc[p].active
  /\ file' = "absent"
  /\ Becomes(p, [proc[p] EXCEPT !.pc = "restore", !.active = FALSE,
                 !.failed = FALSE, !.leaving = leaving])
  /\ UNCHANGED <<settings, original, parked>>

RestoreBegins(p, leaving) ==
  /\ proc[p].pc = "idle"
  /\ proc[p].active
  /\ Becomes(p, [proc[p] EXCEPT !.pc = "restore", !.active = FALSE,
                 !.failed = FALSE, !.leaving = leaving])
  /\ UNCHANGED <<settings, original, file, parked>>

(* Restore with nothing enabled removes whatever backup there is.          *)
ExitInactive(p) ==
  /\ proc[p].pc = "idle"
  /\ ~proc[p].active
  /\ file' = "absent"
  /\ Becomes(p, Fresh)
  /\ UNCHANGED <<settings, original, parked>>

Kill(p) ==
  /\ "crash" \in Faults
  /\ proc[p].pc # "down"
  /\ Becomes(p, Fresh)
  /\ UNCHANGED <<settings, original, file, parked>>

(* The user reconfigures the system while cli-proxy leaves it alone and no *)
(* backup is lying around.                                                 *)
UserEdits ==
  /\ file = "absent"
  /\ settings = original
  /\ \A p \in Procs : proc[p].pc \in {"down", "idle"} /\ ~proc[p].active
  /\ original' \in [Keys -> UserValues]
  /\ settings' = original'
  /\ UNCHANGED <<file, parked, proc>>

-----------------------------------------------------------------------------
Restoring(p) == RestoreStep(p) \/ RestoreStepFails(p) \/ RestoreReturns(p)

Enabling(p) ==
  \/ ParkTruncates(p) \/ ParkWrites(p) \/ ParkFails(p)
  \/ ApplyStep(p) \/ EnableReturns(p) \/ EnableFails(p) \/ RollbackReturns(p)

Moving(p) ==
  \/ MoveReturns(p) \/ MoveFails(p)
  \/ ReparkTruncates(p) \/ ReparkWrites(p) \/ ReparkFails(p)

(* The rest of a handler that has begun.                                   *)
Working(p) == Restoring(p) \/ Enabling(p) \/ Moving(p)

(* What the operator asks of a running process.                            *)
Operator(p) ==
  \/ EnableBegins(p)
  \/ \E t \in Targets : ChangePort(p, t)
  \/ \E leaving \in BOOLEAN : RestoreBegins(p, leaving)
  \/ ExitInactive(p)

Next == \/ \E p \in Procs : Launch(p) \/ Working(p) \/ Operator(p) \/ Kill(p)
        \/ UserEdits

Spec == Init /\ [][Next]_vars

(* A handler that has begun runs on, and cli-proxy is launched again.      *)
Fairness == /\ WF_vars(\E p \in Procs : Launch(p))
            /\ \A p \in Procs : WF_vars(Working(p))

FairSpec == Spec /\ Fairness

-----------------------------------------------------------------------------
(* Every variable keeps its type, in particular the loop index never runs  *)
(* past the last setting (the loops of applyPlatform and restorePlatform). *)
TypeOK == /\ settings \in Config
          /\ original \in [Keys -> UserValues]
          /\ file \in {"absent", "torn", "saved"}
          /\ parked \in Config
          /\ proc \in [Procs -> Process]

(* Where the user's own settings are kept while the system's differ: in a  *)
(* complete recovery copy, or in the snapshot of a controller that is      *)
(* active or restoring.                                                    *)
Untouched    == settings = original
OnDisk       == file = "saved" /\ parked = original
Remembers(p) == proc[p].active \/ proc[p].pc = "restore"
InMemory     == \E p \in Procs : Remembers(p) /\ proc[p].held = original
WayBack      == OnDisk \/ InMemory

(* Going on after a restore one of whose commands failed: leaving          *)
(* (sysproxy.go:211), enabling again (163), or ending a rollback (171),    *)
(* which all take a copy off the disk that is still needed.                *)
GoesOn(p) ==
  /\ proc[p].failed
  /\ ExitInactive(p) \/ ParkTruncates(p) \/ RollbackReturns(p)

(* While the settings differ from the user's own, the complete copy of     *)
(* exactly the user's own stays on disk until they are back, so that a kill*)
(* between any two steps can be undone by the next launch                  *)
(* (docs/guide.md:308).  Four steps are excepted, each by name: a port     *)
(* change truncates the copy to write it anew (sysproxy.go:189), and the   *)
(* three that go on after a restore that failed.                           *)
Recoverable ==
  [][~Untouched /\ OnDisk
       => \/ (Untouched \/ OnDisk)'
          \/ \E p \in Procs : ReparkTruncates(p) \/ GoesOn(p)]_vars

(* The first write that takes the settings away from the user's own        *)
(* happens with the user's own on disk, even when commands fail, files     *)
(* tear and processes die ("Park the snapshot before touching anything",   *)
(* sysproxy.go:161).                                                       *)
FirstWriteIsCovered ==
  [][settings = original /\ settings' # original /\ original' = original
       => file = "saved" /\ parked = original]_vars

(* A handler that reports success: an Enable, or the port change of an     *)
(* active controller, the one that finds nothing to do included.           *)
Moved(p) ==
  /\ \/ proc[p].pc \in {"repark", "reparkWrite"}
     \/ proc[p].pc = "idle" /\ proc'[p].listen # proc[p].listen
  /\ proc'[p].pc = "idle" /\ proc'[p].active

Succeeds(p) ==
  \/ Moved(p)
  \/ proc[p].pc = "apply" /\ proc'[p].pc = "idle" /\ proc'[p].active

PointsAtListener(p) == settings' = [k \in Keys |-> proc'[p].listen]

(* An Enable or a port change that reports success leaves every setting at *)
(* the address the process listens on (applyPlatform, changePort).  The    *)
(* exception is a port change right after one that failed half way: back at*)
(* the old port it finds nothing to do and succeeds (sysproxy.go:181).     *)
PointedAtListener ==
  [][\A p \in Procs :
       Succeeds(p) /\ ~(proc[p].pc = "idle" /\ proc[p].failed)
         => PointsAtListener(p)]_vars

(* What the guide says without that exception: "changing the port while the*)
(* system proxy is on automatically points it at the new address"          *)
(* (docs/guide.md:310).  The code does not keep it.                        *)
PortChangePoints == [][\A p \in Procs : Moved(p) => PointsAtListener(p)]_vars

(* Once kills stop, what a killed run left in the settings is undone by a  *)
(* later launch, if its copy was complete, unless a command of the restore *)
(* fails.                                                                  *)
AllDown == \A p \in Procs : proc[p].pc = "down"

CrashIsUndone ==
  (<>[][\A p \in Procs : ~Kill(p)]_vars)
    => ((AllDown /\ ~Untouched /\ OnDisk)
          ~> (Untouched \/ \E p \in Procs : proc[p].failed))

(* The steps that may lose the user's settings for good: a kill or a       *)
(* failing restore while the copy lies cut off in its rewrite, so that they*)
(* were in memory only, and going on after a restore that failed.          *)
Loses(p) ==
  \/ /\ file = "torn" /\ Remembers(p)
     /\ Kill(p) \/ (RestoreReturns(p) /\ proc[p].failed)
  \/ GoesOn(p)

(* The write-ahead discipline the controller promises, as a specification  *)
(* of its own: settings are borrowed only while there is a way back, on    *)
(* disk or, while a port change rewrites the copy, in memory.  Every step  *)
(* keeps it but those that lose the settings, named in Loses.              *)
Promise == INSTANCE WriteAhead
             WITH borrowed <- ~Untouched, saved <- WayBack

KeepsPromise ==
  Promise!Init
  /\ [][Promise!Next \/ \E p \in Procs : Loses(p)]_(Promise!vars)

-----------------------------------------------------------------------------
(* The inductive invariant behind all of these, whatever fails, as long as *)
(* instances do not overlap.  Since a restore may fail, a snapshot may have*)
(* been taken of settings that were never put back: such a snapshot is not *)
(* the user's own in a setting that is not the user's own now either.      *)
Alone == \A p, q \in Procs : proc[p].pc # "down" /\ proc[q].pc # "down" => p = q

Faithful(c, now, own) ==
  \/ c = own
  \/ \E k \in Keys : c[k] # own[k] /\ now[k] # own[k]

(* Who goes by what it holds: to write it back now, or later.              *)
Carries(p) ==
  \/ proc[p].active
  \/ proc[p].pc \in {"park", "parkWrite", "apply"} \cup RestoreLoop

(* What a process in each phase of a handler can rely on: what it holds is *)
(* on disk, if anything is, the loops have written every setting behind    *)
(* them, and a copy is left lying only by a restore that failed.           *)
Covered(p) ==
  LET r == proc[p] IN
  /\ r.pc \notin RestoreLoop \cup ApplyLoop => r.at = 1
  /\ r.pc \in {"down", "park", "parkWrite", "apply"} \cup RestoreLoop => ~r.active
  /\ r.pc \in {"move", "repark", "reparkWrite"} => r.active
  /\ Carries(p) => Faithful(r.held, settings, original)
  /\ r.pc \in {"park", "parkWrite"} => r.held = settings
  /\ r.pc = "parkWrite" => file = "torn"
  /\ r.pc \in {"apply", "recover", "rollback"} => file = "saved"
  /\ Remembers(p) => file # "absent"
  /\ (r.active \/ r.pc \in {"apply"} \cup RestoreLoop) /\ file = "saved" =>
       parked = r.held
  /\ r.active => \A k \in Keys : settings[k] \in Targets
  /\ r.pc \in ApplyLoop => \A k \in Keys : k < r.at => settings[k] = r.listen
  /\ r.pc \in {"repark", "reparkWrite"} => \A k \in Keys : settings[k] = r.listen
  /\ r.pc \in RestoreLoop /\ ~r.failed =>
       \A k \in Keys : k < r.at => settings[k] = r.held[k]
  /\ r.pc \in {"idle", "park"} /\ ~r.active /\ ~r.failed => file # "saved"
  /\ r.active /\ r.pc # "move" /\ ~r.failed => r.target = r.listen

(* A snapshot that could be written back is faithful, in memory and on     *)
(* disk, and each phase finds what it relies on (Enable, repointLocked,    *)
(* Restore and RecoverStale over any sequence of calls, failures and       *)
(* kills).                                                                 *)
WriteInv ==
  /\ TypeOK /\ Alone
  /\ file = "saved" => Faithful(parked, settings, original)
  /\ \A p \in Procs : Covered(p)
=============================================================================
