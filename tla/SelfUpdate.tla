------------------------------ MODULE SelfUpdate ------------------------------
(***************************************************************************)
(* Replacing the program's own files: lib/selfUpdate.js (applyUpdate and   *)
(* rollback), its /api/update routes, the hub's apply-update command, and  *)
(* provisioning/rollback-update.sh, which an operator runs as root when    *)
(* the application does not start any more.                                *)
(*                                                                         *)
(* A step is one file operation.  The power may fail between any two, and  *)
(* in the middle of a copy, which leaves the item torn.  The running code  *)
(* is in memory: the files matter when the process starts again.           *)
(*                                                                         *)
(* External: the release server, the disk (a copy, a removal or a rename   *)
(* may fail), systemd and the operator.                                    *)
(***************************************************************************)
EXTENDS Integers, Sequences, SequencesExt

CONSTANTS
  SWAP_ITEMS,    \* in the order they are swapped
  ScriptItems,   \* the items rollback-update.sh restores
  Versions,
  Ships,         \* what each version's package holds
  Ops,           \* applyUpdate() and rollback() calls under way at one time (BOUND)
  MaxOps,        \* BOUND on calls and scripts
  MaxFaults      \* BOUND on power cuts and disk errors

Items   == Range(SWAP_ITEMS)
Missing == "missing"
Torn    == "torn"

ASSUME UpdateAssumption ==
  /\ SWAP_ITEMS \in Seq(Items) /\ IsInjective(SWAP_ITEMS)
  /\ SWAP_ITEMS # <<>> /\ ScriptItems \subseteq Items /\ SWAP_ITEMS[1] \in ScriptItems
  /\ Ships \in [Versions -> SUBSET Items] /\ \A v \in Versions : ScriptItems \subseteq Ships[v]
  /\ {Missing, Torn} \intersect Versions = {}
  /\ MaxOps \in Nat /\ MaxFaults \in Nat

VARIABLES
  running,    \* the version in memory, Missing when the service is down
  updating,   \* SelfUpdateManager.updating
  op,         \* each call: kind, phase, position in SWAP_ITEMS, version or backup
  live,       \* the application's directory
  staging,    \* update-staging
  backup,     \* the one pre-update directory, with a name (0: there is none)
  script,     \* rollback-update.sh's position, 0 when it does not run
  lapse,      \* history: a rollback used a backup cut short, an update began over
              \* files that were not whole, or two calls worked at once
  ops, faults

disk       == <<live, staging, backup>>
process    == <<running, updating, op>>
bounds     == <<ops, faults>>
updateVars == <<process, disk, script, lapse, bounds>>

Package(v) == [i \in Items |-> IF i \in Ships[v] THEN v ELSE Missing]
Nothing    == [i \in Items |-> Missing]
Resting    == [kind |-> "none", phase |-> "idle", at |-> 0, dir |-> 0, target |-> Missing]
NoBackup   == [name |-> 0, item |-> Nothing]

\* f holds the program: every item it needs, of one version.
Whole(f) == \E v \in Versions : \A i \in ScriptItems : f[i] = v

UpdateInit ==
  /\ running \in Versions /\ live = Package(running)
  /\ updating = FALSE /\ op = [o \in Ops |-> Resting]
  /\ staging = Nothing /\ backup = NoBackup
  /\ script = 0 /\ lapse = FALSE /\ ops = 0 /\ faults = 0

Fault == faults < MaxFaults /\ faults' = faults + 1
Item(o)     == SWAP_ITEMS[op[o].at]
In(o, kind, ph) == op[o].kind = kind /\ op[o].phase = ph
Goto(o, ph) == op' = [op EXCEPT ![o].phase = ph]
\* A slip: the last item is left out.
NextItemButLast(o, ph, after) ==
  op' = [op EXCEPT ![o].phase = IF op[o].at + 1 = Len(SWAP_ITEMS) THEN after ELSE ph,
                   ![o].at    = IF op[o].at + 1 = Len(SWAP_ITEMS) THEN 1 ELSE op[o].at + 1]

\* The loop over SWAP_ITEMS goes on, or what comes after it begins.
NextItem(o, ph, after) ==
  op' = [op EXCEPT ![o].phase = IF op[o].at = Len(SWAP_ITEMS) THEN after ELSE ph,
                   ![o].at    = IF op[o].at = Len(SWAP_ITEMS) THEN 1 ELSE op[o].at + 1]

\* A slip: no finally block.
FinishBusy(o) == op' = [op EXCEPT ![o] = Resting] /\ UNCHANGED updating

\* The finally block, after a failure or a success.
Finish(o) == updating' = FALSE /\ op' = [op EXCEPT ![o] = Resting]

Working(p) == op[p].phase \notin {"idle", "look"}

Call(o) ==
  /\ op[o] = Resting /\ running # Missing
  /\ ops < MaxOps /\ ops' = ops + 1 /\ UNCHANGED faults

-----------------------------------------------------------------------------
(* applyUpdate().                                                          *)

ApplyBegins(o) ==
  /\ Call(o) /\ ~updating
  /\ updating' = TRUE
  /\ \E v \in Versions \ {running} :
       op' = [op EXCEPT ![o] = [Resting EXCEPT !.kind = "apply", !.phase = "fetch", !.target = v]]
  /\ lapse' = (lapse \/ ~Whole(live) \/ \E p \in Ops : Working(p))
  /\ UNCHANGED <<running, disk, script>>

\* Downloaded, verified, extracted, checked and its dependencies installed.
Staged(o) ==
  /\ In(o, "apply", "fetch")
  /\ staging' = Package(op[o].target)
  /\ Goto(o, "prune")
  /\ UNCHANGED <<running, updating, live, backup, script, lapse, bounds>>

\* Some release, checksum, signature, package or installation is refused.
FetchFails(o) ==
  /\ In(o, "apply", "fetch") /\ Finish(o)
  /\ UNCHANGED <<running, disk, script, lapse, bounds>>

\* pruneOldBackups(): the old backup goes, item by item (in some order), then its
\* directory.
Prune(o) ==
  /\ In(o, "apply", "prune")
  /\ IF \E i \in Items : backup.item[i] # Missing
     THEN /\ backup' = [backup EXCEPT !.item[CHOOSE i \in Items : backup.item[i] # Missing] = Missing]
          /\ UNCHANGED op
     ELSE /\ backup' = [name |-> ops, item |-> Nothing]
          /\ op' = [op EXCEPT ![o].phase = "copy", ![o].at = 1, ![o].dir = ops]
  /\ UNCHANGED <<running, updating, live, staging, script, lapse, bounds>>

\* copyInto(): an item that is there begins to be copied, one that is not is skipped.
CopyBegins(o) ==
  /\ In(o, "apply", "copy")
  /\ IF live[Item(o)] = Missing THEN NextItem(o, "copy", "swap") /\ UNCHANGED backup
     ELSE backup' = [backup EXCEPT !.item[Item(o)] = Torn] /\ Goto(o, "copying")
  /\ UNCHANGED <<running, updating, live, staging, script, lapse, bounds>>

CopyEnds(o) ==
  /\ In(o, "apply", "copying")
  /\ backup' = [backup EXCEPT !.item[Item(o)] = live[Item(o)]]
  /\ NextItem(o, "copy", "swap")
  /\ UNCHANGED <<running, updating, live, staging, script, lapse, bounds>>

\* The swap of an item: the live one is removed ...
RemoveLive(o) ==
  /\ In(o, "apply", "swap")
  /\ live' = [live EXCEPT ![Item(o)] = Missing]
  /\ Goto(o, "rename")
  /\ UNCHANGED <<running, updating, staging, backup, script, lapse, bounds>>

\* ... and the staged one, if there is one, renamed into its place.
Rename(o) ==
  /\ In(o, "apply", "rename")
  /\ live' = [live EXCEPT ![Item(o)] = staging[Item(o)]]
  /\ staging' = [staging EXCEPT ![Item(o)] = Missing]
  /\ NextItem(o, "swap", "clean")
  /\ UNCHANGED <<running, updating, backup, script, lapse, bounds>>

CleanUp(o) ==
  /\ In(o, "apply", "clean")
  /\ staging' = Nothing /\ Goto(o, "restart")
  /\ UNCHANGED <<running, updating, live, backup, script, lapse, bounds>>

-----------------------------------------------------------------------------
(* rollback().                                                             *)

RollbackBegins(o) ==
  /\ Call(o) /\ ~updating
  /\ op' = [op EXCEPT ![o] = [Resting EXCEPT !.kind = "rollback", !.phase = "look"]]
  /\ UNCHANGED <<running, updating, disk, script, lapse>>

\* latestBackupDir() answers; only now is `updating' set, and not tested again.
LookEnds(o) ==
  /\ In(o, "rollback", "look")
  /\ IF backup.name = 0 THEN op' = [op EXCEPT ![o] = Resting] /\ UNCHANGED updating
     ELSE /\ updating' = TRUE
          /\ op' = [op EXCEPT ![o].phase = "restore", ![o].at = 1, ![o].dir = backup.name]
  /\ lapse' = (lapse \/ (backup.name # 0 /\ \E p \in Ops : Working(p)))
  /\ UNCHANGED <<running, disk, script, bounds>>

\* The backed-up item, as rollback `o' finds it under the directory it looked up.
Backed(o) == IF backup.name = op[o].dir THEN backup.item[Item(o)] ELSE Missing

RestoreBegins(o) ==
  /\ In(o, "rollback", "restore")
  /\ IF Backed(o) = Missing THEN NextItem(o, "restore", "restart") /\ UNCHANGED live
     ELSE live' = [live EXCEPT ![Item(o)] = Torn] /\ Goto(o, "restoring")
  /\ lapse' = (lapse \/ ~Whole(backup.item))
  /\ UNCHANGED <<running, updating, staging, backup, script, bounds>>

RestoreEnds(o) ==
  /\ In(o, "rollback", "restoring")
  /\ IF Backed(o) = Missing THEN Finish(o) /\ UNCHANGED live
     ELSE live' = [live EXCEPT ![Item(o)] = Backed(o)] /\ NextItem(o, "restore", "restart") /\ UNCHANGED updating
  /\ UNCHANGED <<running, staging, backup, script, lapse, bounds>>

-----------------------------------------------------------------------------
(* What both end in, and what cuts them short.                             *)

\* A process starts if the files it needs are there; server.js says its version.
Starts == IF \A i \in ScriptItems : live[i] \notin {Missing, Torn} THEN live[SWAP_ITEMS[1]] ELSE Missing

Restarted ==
  /\ running' = Starts
  /\ updating' = FALSE /\ op' = [o \in Ops |-> Resting]

ServiceRestart(o) ==
  /\ op[o].phase = "restart" /\ Restarted
  /\ UNCHANGED <<disk, script, lapse, bounds>>

\* A slip: a failed copy is logged, and the update goes on.
StepFailsUnheeded(o) ==
  /\ In(o, "apply", "copying") /\ Fault /\ NextItem(o, "copy", "swap")
  /\ UNCHANGED <<running, updating, disk, script, lapse, ops>>

\* The disk refuses, or systemctl does.
StepFails(o) ==
  /\ op[o].phase \in {"prune", "copy", "copying", "swap", "rename", "clean", "restore", "restoring", "restart"}
  /\ Fault /\ Finish(o)
  /\ UNCHANGED <<running, disk, script, lapse, ops>>

PowerFails ==
  /\ Fault /\ Restarted /\ script' = 0
  /\ UNCHANGED <<disk, lapse, ops>>

-----------------------------------------------------------------------------
(* rollback-update.sh.                                                     *)

ScriptBegins ==
  /\ script = 0 /\ ops < MaxOps /\ ops' = ops + 1
  /\ backup.name # 0
  /\ script' = 1 /\ running' = Missing /\ updating' = FALSE /\ op' = [o \in Ops |-> Resting]
  /\ UNCHANGED <<disk, lapse, faults>>

\* One item of its own, shorter, list; the copy may be cut short before the next step.
ScriptRestores ==
  /\ script \in 1..Len(SWAP_ITEMS)
  /\ LET i == SWAP_ITEMS[script]
     IN  IF i \notin ScriptItems \/ backup.item[i] = Missing
         THEN script' = script + 1 /\ UNCHANGED <<live, lapse>>
         ELSE /\ lapse' = (lapse \/ ~Whole(backup.item))
              /\ \/ live' = [live EXCEPT ![i] = Torn] /\ live[i] # Torn /\ UNCHANGED script
                 \/ live' = [live EXCEPT ![i] = backup.item[i]] /\ script' = script + 1
  /\ UNCHANGED <<process, staging, backup, bounds>>

ScriptEnds ==
  /\ script = Len(SWAP_ITEMS) + 1 /\ script' = 0
  /\ running' = Starts
  /\ UNCHANGED <<updating, op, disk, lapse, bounds>>

ApplyNext(o) ==
  \/ Staged(o) \/ FetchFails(o) \/ Prune(o) \/ CopyBegins(o) \/ CopyEnds(o)
  \/ RemoveLive(o) \/ Rename(o) \/ CleanUp(o)

OpNext(o) ==
  \/ ApplyNext(o) \/ LookEnds(o) \/ RestoreBegins(o) \/ RestoreEnds(o)
  \/ ServiceRestart(o)

UpdateNext ==
  \/ \E o \in Ops : ApplyBegins(o) \/ RollbackBegins(o) \/ OpNext(o) \/ StepFails(o)
  \/ PowerFails \/ ScriptBegins \/ ScriptRestores \/ ScriptEnds

UpdateSpec == UpdateInit /\ [][UpdateNext]_updateVars

\* File operations and requests end, one way or the other.
UpdateFairness ==
  /\ \A o \in Ops : WF_updateVars(OpNext(o))
  /\ WF_updateVars(ScriptRestores \/ ScriptEnds)

UpdateFairSpec == UpdateSpec /\ UpdateFairness

-----------------------------------------------------------------------------
(* Properties.                                                             *)

Contents == Versions \union {Missing, Torn}

Calls ==
  {Resting}
    \union [kind : {"apply"}, phase : {"fetch", "prune"}, at : {0}, dir : {0}, target : Versions]
    \union [kind : {"apply"}, phase : {"copy", "copying", "swap", "rename", "clean", "restart"},
            at : DOMAIN SWAP_ITEMS, dir : Nat, target : Versions]
    \union [kind : {"rollback"}, phase : {"look"}, at : {0}, dir : {0}, target : {Missing}]
    \union [kind : {"rollback"}, phase : {"restore", "restoring", "restart"},
            at : DOMAIN SWAP_ITEMS, dir : Nat, target : {Missing}]

UpdateTypeOK ==
  /\ running \in Versions \union {Missing} /\ updating \in BOOLEAN /\ lapse \in BOOLEAN
  /\ op \in [Ops -> Calls] /\ ops \in Nat
  /\ live \in [Items -> Contents] /\ staging \in [Items -> Contents]
  /\ backup \in [name : Nat, item : [Items -> Contents]]
  /\ script \in 0..(Len(SWAP_ITEMS) + 1)

\* There is always a way back: the live files or the backup hold a whole version,
\* wherever the power fails or a step does, as long as no rollback is made from a
\* backup cut short, no update begun over files that are not whole, and no rollback
\* passes its test of `updating' before the call beside it raises the flag.
WayBack == Whole(live) \/ Whole(backup.item) \/ lapse

\* Files are moved by one call at a time, and by none while the script runs.
OneWorks ==
  /\ script # 0 => running = Missing /\ \A o \in Ops : op[o] = Resting
  /\ lapse \/ \A o, p \in Ops : Working(o) /\ Working(p) => o = p

\* The items that call o is through with.
Behind(o) == {SWAP_ITEMS[k] : k \in 1..(op[o].at - 1)}

\* The backup so far is a true copy of the live files.
Copied(o) ==
  \A i \in Items : \/ i \in Behind(o) /\ backup.item[i] = live[i]
                   \/ i \notin Behind(o) /\ (backup.item[i] = Missing \/ (In(o, "apply", "copying") /\ i = Item(o)))

\* What is not swapped yet waits in the staging directory.
Swapped(o) ==
  \A i \in Items : (IF i \in Behind(o) THEN live[i] ELSE staging[i]) = Package(op[o].target)[i]

\* The files are where call o believes them to be.
FilesFollow(o) ==
  /\ op[o].phase \in {"fetch", "prune", "copy", "copying"} => Whole(live)
  /\ op[o].phase \in {"prune", "copy", "copying"} => staging = Package(op[o].target)
  /\ op[o].phase \in {"copy", "copying"} => Copied(o)
  /\ op[o].phase \in {"swap", "rename", "clean", "restoring"} \/ In(o, "apply", "restart") => Whole(backup.item)
  /\ op[o].phase \in {"swap", "rename"} => Swapped(o)
  /\ op[o].phase = "clean" \/ In(o, "apply", "restart") => live = Package(op[o].target)

\* The way back is there because every call under way finds the files as it left them.
UpdateInv ==
  /\ UpdateTypeOK /\ OneWorks /\ WayBack
  /\ lapse \/ \A o \in Ops : FilesFollow(o)

\* Every call ends, and the flag that keeps others out comes down.
Quiet == ~updating /\ \A o \in Ops : op[o].phase = "idle"
UpdatesEnd == [](~Quiet => <>Quiet)

\* The process an update starts anew has the version it staged, and runs on whole
\* files (applyUpdate's backup, swap and restart together).
UpdateTakesEffect ==
  [][\A o \in Ops :
       In(o, "apply", "restart") /\ ServiceRestart(o) /\ ~lapse
         => running' = op[o].target /\ \A i \in Ships[running'] : live[i] = running']_updateVars
=============================================================================
