------------------------------ MODULE BatchRunner ------------------------------
(***************************************************************************)
(* lib/batchRunner.js, class BatchManager: runs of one script against many *)
(* ports, at most CONCURRENCY of them at a time, a record of every run, and *)
(* the file that record is kept in.                                        *)
(*                                                                         *)
(* A step is one event with everything its callbacks and promise           *)
(* continuations do before the next one: pump() and finishIfDone() belong  *)
(* to the step that calls them.  A job is one target of a run; a run that  *)
(* has left the record gives its name back.                                *)
(***************************************************************************)
EXTENDS Integers, Sequences, FiniteSets, FiniteSetsExt, SequencesExt

CONSTANTS
  Runs,          \* names of runs (BOUND)
  TargetCount,   \* targets of a run
  Script,        \* its steps, each one of StepTypes
  CONCURRENCY, MAX_RUNS,
  DataDir,       \* is there a file (deps.dataDir)?
  SlowWrites     \* may writing it take longer than the delay of save()?

StepTypes == {"send", "send-raw", "expect", "wait", "login"}

ASSUME BatchAssumption ==
  /\ IsFiniteSet(Runs) /\ TargetCount \in Nat \ {0} /\ CONCURRENCY \in Nat \ {0} /\ MAX_RUNS \in Nat \ {0}
  /\ Script \in Seq(StepTypes) /\ Script # <<>>
  /\ DataDir \in BOOLEAN /\ SlowWrites \in BOOLEAN

Targets == 1..TargetCount
Jobs    == Runs \X Targets
JobsOf(r) == {r} \X Targets

VARIABLES
  runs,     \* the record, newest run first
  rec,      \* status and cancelled flag of each run
  target,   \* status of each target
  queue,    \* jobs not started
  active,   \* how many jobs runTarget is busy with
  at,       \* where runTarget is: not running, opening the port, or in a step
  typed,    \* how many steps have typed into the device
  saveDue,  \* is saveTimer set?
  writing,  \* <<>>, or <<what writeFile is writing>>
  mixed,    \* has that write overtaken another?
  file      \* what load() would read

memory == <<runs, rec, target, queue, active, at, typed>>
disk   == <<saveDue, writing, mixed, file>>
batchVars == <<memory, disk>>

NoRun      == [status |-> "none", cancelled |-> FALSE]
NotRunning == -1
Opening    == 0
Steps      == 1..Len(Script)

Snapshot  == [runs |-> runs, rec |-> rec, target |-> target]
\* No file, or one that does not parse: load() starts with no runs.
EmptyFile == [runs |-> <<>>, rec |-> [r \in Runs |-> NoRun], target |-> [j \in Jobs |-> "none"]]

BatchInit ==
  /\ runs = <<>> /\ rec = EmptyFile.rec /\ target = EmptyFile.target
  /\ queue = <<>> /\ active = 0
  /\ at = [j \in Jobs |-> NotRunning] /\ typed = [j \in Jobs |-> 0]
  /\ saveDue = FALSE /\ writing = <<>> /\ mixed = FALSE /\ file = EmptyFile

-----------------------------------------------------------------------------
Pending(t, j)  == t[j] \in {"queued", "running"}
Finished(r)    == rec[r].status \notin {"none", "running"}
Running        == {j \in Jobs : at[j] # NotRunning}

\* Array.filter: the members of S in s, in the order they have there.
filter(s, S) ==
  LET places == {i \in DOMAIN s : s[i] \in S}
      nth(n) == CHOOSE i \in places : Cardinality({k \in places : k <= i}) = n
  IN  [n \in 1..Cardinality(places) |-> s[nth(n)]]

\* A slip: a change made while the file is being written is not saved again.
SaveUnlessWriting ==
  saveDue' = (DataDir /\ writing = <<>>) /\ UNCHANGED <<writing, mixed, file>>

\* save(): the write is due a while after the last change.
save == saveDue' = DataDir /\ UNCHANGED <<writing, mixed, file>>

\* A slip: a run is over only when all went well.
AllSucceed(r, t) == \A j \in JobsOf(r) : t[j] = "succeeded"

AllOver(r, t) == \A j \in JobsOf(r) : ~Pending(t, j)

\* finishIfDone(run) of the runs R, given the targets' statuses.
finishIfDone(R, t, record) ==
  [r \in Runs |->
    IF r \in R /\ record[r].status = "running" /\ AllOver(r, t)
    THEN [record[r] EXCEPT !.status =
            IF record[r].cancelled THEN "cancelled"
            ELSE IF \E j \in JobsOf(r) : t[j] = "failed" THEN "failed" ELSE "completed"]
    ELSE record[r]]

\* A slip: the next ones only when the last have ended.
FreeWhenIdle(busy) == IF busy = 0 THEN CONCURRENCY ELSE 0

Free(busy) == CONCURRENCY - busy

\* pump(), when the jobs of ended have: active counts down and the queue moves
\* up.  A job of a cancelled run is never met here, see CancelledAreStopped.
pump(t, q, ended) ==
  LET busy  == active - Cardinality(ended)
      count == Min({Len(q), Free(busy)})
      begun == {q[i] : i \in 1..count}
  IN
  /\ queue'  = SubSeq(q, count + 1, Len(q))
  /\ active' = busy + count
  /\ target' = [j \in Jobs |-> IF j \in begun THEN "running" ELSE t[j]]
  /\ at'     = [j \in Jobs |-> IF j \in begun THEN Opening
                               ELSE IF j \in ended THEN NotRunning ELSE at[j]]

\* runTarget() of job j is over.
End(j, verdict) ==
  LET t == [target EXCEPT ![j] = verdict] IN
  /\ pump(t, queue, {j})
  /\ rec' = finishIfDone({j[1]}, t, rec)
  /\ save
  /\ UNCHANGED runs

-----------------------------------------------------------------------------
\* The history is kept bounded: of too many runs, the oldest finished ones go.
Trim(s) ==
  LET old  == {i \in DOMAIN s : Finished(s[i])}
      over == {i \in old : Cardinality({k \in old : k >= i}) <= Len(s) - MAX_RUNS}
  IN  filter(s, Runs \ {s[i] : i \in over})

\* Forgotten runs leave nothing behind.
Without(R, record, t) ==
  <<[r \in Runs |-> IF r \in R THEN NoRun ELSE record[r]],
    [j \in Jobs |-> IF j[1] \in R THEN "none" ELSE t[j]]>>

start(r) ==
  LET kept    == Trim(<<r>> \o runs)
      left    == Without(ToSet(runs) \ ToSet(kept), rec, target)
  IN
  /\ rec[r] = NoRun
  /\ runs' = kept
  /\ rec'  = [left[1] EXCEPT ![r] = [status |-> "running", cancelled |-> FALSE]]
  /\ pump([j \in Jobs |-> IF j[1] = r THEN "queued" ELSE left[2][j]],
          queue \o [i \in Targets |-> <<r, i>>], {})
  /\ typed' = [j \in Jobs |-> IF j[1] = r THEN 0 ELSE typed[j]]
  /\ save

\* Slips: a run that is over is cancelled all the same; those in their script
\* are told nothing.
Known(r)       == rec[r] # NoRun
NoneStopped(r) == {}

\* Queued jobs are cancelled on the spot, those in their script by their
\* console; those that are opening their port have no console yet.
Cancellable(r) == rec[r].status = "running"
Dropped(r)     == {j \in JobsOf(r) : target[j] = "queued"}
Stopped(r)     == {j \in JobsOf(r) : at[j] \in Steps}

cancel(r) ==
  LET t == [j \in Jobs |-> IF j \in Dropped(r) \union Stopped(r) THEN "cancelled" ELSE target[j]]
  IN
  /\ Cancellable(r)
  /\ rec' = finishIfDone({r}, t, [rec EXCEPT ![r].cancelled = TRUE])
  /\ pump(t, filter(queue, Jobs \ Dropped(r)), Stopped(r))
  /\ save
  /\ UNCHANGED <<runs, typed>>

remove(r) ==
  LET left == Without({r}, rec, target) IN
  /\ Finished(r)
  /\ runs' = filter(runs, Runs \ {r})
  /\ rec' = left[1] /\ target' = left[2]
  /\ save
  /\ UNCHANGED <<queue, active, at, typed>>

-----------------------------------------------------------------------------
(***************************************************************************)
(* runSteps().  Steps follow one another without a pause up to the next    *)
(* one that waits for the device: expect, wait and login do, send does     *)
(* unless an expect or login comes next, send-raw does not.                *)
(***************************************************************************)
Types(i) == Script[i] \in {"send", "send-raw", "login"}
Waits(i) ==
  \/ Script[i] \in {"expect", "wait", "login"}
  \/ Script[i] = "send" /\ ~(i + 1 \in Steps /\ Script[i + 1] \in {"expect", "login"})
NextWait(i) == Min({k \in Steps : k >= i /\ Waits(k)} \union {Len(Script) + 1})

\* The script goes on at step i.  A cancelled one runs into its next wait.
Proceed(j, i) ==
  LET w == NextWait(i) IN
  /\ typed' = [typed EXCEPT ![j] = @ + Cardinality({k \in Steps : i <= k /\ k <= w /\ Types(k)})]
  /\ \/ w \notin Steps /\ End(j, "succeeded")
     \/ w \in Steps /\ rec[j[1]].cancelled /\ End(j, "cancelled")
     \/ /\ w \in Steps /\ ~rec[j[1]].cancelled /\ at' = [at EXCEPT ![j] = w]
        /\ UNCHANGED <<runs, rec, target, queue, active, disk>>

PortOpened(j) == at[j] = Opening /\ Proceed(j, 1)

OpenFailed(j) == at[j] = Opening /\ End(j, "failed") /\ UNCHANGED typed

\* What the step waits for is there, or a quiet period or a pause is over.
StepDone(j) == at[j] \in Steps /\ Proceed(j, at[j] + 1)

\* An expect or a login runs into its timeout, or a login is rejected.
StepFailed(j) ==
  /\ at[j] \in Steps /\ Script[at[j]] \in {"expect", "login"}
  /\ End(j, "failed") /\ UNCHANGED typed

\* The session drops.  While a send waits for quiet this is no failure, but a
\* later step that needs the device is.
ConnectionClosed(j) ==
  /\ at[j] \in Steps
  /\ End(j, IF Script[at[j]] = "send" /\ at[j] = Len(Script) THEN "succeeded" ELSE "failed")
  /\ UNCHANGED typed

-----------------------------------------------------------------------------
(***************************************************************************)
(* The file.  writeFile truncates it first; two writes at a time leave one *)
(* of them or something that does not parse.                               *)
(***************************************************************************)
Flush ==
  /\ saveDue /\ (SlowWrites \/ writing = <<>>)
  /\ saveDue' = FALSE
  /\ writing' = <<Snapshot>> /\ mixed' = (writing # <<>>)
  /\ file' = EmptyFile
  /\ UNCHANGED memory

WriteDone ==
  /\ writing # <<>>
  /\ file' \in {writing[1]} \union (IF mixed THEN {EmptyFile} ELSE {})
  /\ writing' = <<>> /\ mixed' = FALSE
  /\ UNCHANGED <<memory, saveDue>>

\* A slip: only the runs are marked, their targets stay as they were.
LoadRuns ==
  /\ runs' = file.runs
  /\ rec' = [r \in Runs |-> IF file.rec[r].status = "running"
                            THEN [file.rec[r] EXCEPT !.status = "interrupted"] ELSE file.rec[r]]
  /\ target' = file.target

\* load(): what was in flight when the file was written is interrupted.
load ==
  /\ runs' = file.runs
  /\ rec' = [r \in Runs |-> IF file.rec[r].status = "running"
                            THEN [file.rec[r] EXCEPT !.status = "interrupted"] ELSE file.rec[r]]
  /\ target' = [j \in Jobs |-> IF file.rec[j[1]].status = "running" /\ Pending(file.target, j)
                               THEN "failed" ELSE file.target[j]]

\* The process ends, at any moment, and comes back.
Restart ==
  /\ load
  /\ queue' = <<>> /\ active' = 0
  /\ at' = [j \in Jobs |-> NotRunning] /\ typed' = [j \in Jobs |-> 0]
  /\ saveDue' = FALSE /\ writing' = <<>> /\ mixed' = FALSE
  /\ UNCHANGED file

-----------------------------------------------------------------------------
BatchNext ==
  \/ \E r \in Runs : start(r) \/ cancel(r) \/ remove(r)
  \/ \E j \in Jobs : PortOpened(j) \/ OpenFailed(j)
                     \/ StepDone(j) \/ StepFailed(j) \/ ConnectionClosed(j)
  \/ Flush \/ WriteDone \/ Restart

(***************************************************************************)
(* A port opens or fails to; every wait has a timeout; timers fire and     *)
(* writes end.  Nobody has to start, cancel or remove anything.            *)
(***************************************************************************)
BatchFairness ==
  /\ \A j \in Jobs : WF_batchVars(PortOpened(j) \/ OpenFailed(j))
  /\ \A j \in Jobs : WF_batchVars(StepDone(j) \/ StepFailed(j) \/ ConnectionClosed(j))
  /\ WF_batchVars(Flush) /\ WF_batchVars(WriteDone)

BatchSpec     == BatchInit /\ [][BatchNext]_batchVars
BatchFairSpec == BatchSpec /\ BatchFairness

-----------------------------------------------------------------------------
RunStates    == {"none", "running", "completed", "failed", "cancelled", "interrupted"}
TargetStates == {"none", "queued", "running", "succeeded", "failed", "cancelled"}

BatchTypeOK ==
  /\ queue \in Seq(Jobs) /\ active \in 0..CONCURRENCY
  /\ at \in [Jobs -> {NotRunning, Opening} \union Steps] /\ typed \in [Jobs -> 0..Len(Script)]
  /\ saveDue \in BOOLEAN /\ mixed \in BOOLEAN

(* A record of runs, in memory or in the file: each run is in it once, with *)
(* what it left, and nothing is left of another.  A run is over exactly     *)
(* when all of its targets are, and what it is said to have come to is what *)
(* its targets came to.                                                     *)
IsTrueRecord(s) ==
  /\ s.runs \in Seq(Runs) /\ IsInjective(s.runs)
  /\ s.rec \in [Runs -> [status : RunStates, cancelled : BOOLEAN]]
  /\ s.target \in [Jobs -> TargetStates]
  /\ \A r \in Runs \ ToSet(s.runs) : s.rec[r] = NoRun /\ \A j \in JobsOf(r) : s.target[j] = "none"
  /\ \A r \in ToSet(s.runs) :
       /\ s.rec[r].status # "none"
       /\ s.rec[r].status = "running" <=> \E j \in JobsOf(r) : Pending(s.target, j)
       /\ s.rec[r].status = "completed" => \A j \in JobsOf(r) : s.target[j] = "succeeded"
       /\ s.rec[r].status = "failed" => \E j \in JobsOf(r) : s.target[j] = "failed"
       /\ s.rec[r].status = "cancelled" <=>
            s.rec[r].cancelled /\ s.rec[r].status \notin {"running", "interrupted"}
       /\ \A j \in JobsOf(r) :
            s.target[j] # "none" /\ (s.target[j] = "cancelled" => s.rec[r].cancelled)

VerdictIsTrue ==
  /\ IsTrueRecord(Snapshot) /\ IsTrueRecord(file)
  /\ writing = <<>> \/ (writing = <<writing[1]>> /\ IsTrueRecord(writing[1]))

(* No target is ever stuck: one shown as queued is in the queue, once, one  *)
(* shown as running has a runTarget at work, and every such job is counted  *)
(* in active.                                                               *)
EveryTargetIsDriven ==
  /\ IsInjective(queue) /\ ToSet(queue) = {j \in Jobs : target[j] = "queued"}
  /\ Running = {j \in Jobs : target[j] = "running"}
  /\ active = Cardinality(Running)

(* No slot stays free while jobs wait, whatever ends, fails or is cancelled *)
(* in what order.                                                           *)
NoSlotIsWasted == queue # <<>> => active = CONCURRENCY

(* cancel() leaves nothing of its run in the queue, so pump() never meets a *)
(* job of a cancelled run, and nothing in the middle of its script.  A      *)
(* script has typed no more than its steps so far can have typed.           *)
CancelledAreStopped ==
  /\ \A j \in ToSet(queue) : ~rec[j[1]].cancelled /\ typed[j] = 0
  /\ \A j \in Running : typed[j] <= at[j] /\ (rec[j[1]].cancelled => at[j] = Opening)

(* The record, the queue and the jobs at work agree.                        *)
BatchInv == BatchTypeOK /\ VerdictIsTrue /\ EveryTargetIsDriven /\ CancelledAreStopped

(* While the process lives, what a run and its targets came to stands until *)
(* the run leaves the record.                                               *)
VerdictsAreFinal ==
  [][ ~Restart => \A r \in Runs : Finished(r) =>
        \/ rec'[r] = NoRun
        \/ rec'[r] = rec[r] /\ \A j \in JobsOf(r) : target'[j] = target[j] ]_batchVars

(* A device in the middle of its script is stopped where it is (webui/      *)
(* batch.js, the question Cancel asks).                                     *)
CancelStopsScripts ==
  [][ \A j \in Jobs : at[j] \in Steps /\ rec'[j[1]].cancelled
        => typed'[j] <= typed[j] /\ at'[j] = NotRunning ]_batchVars

(* Every run comes to an end.                                               *)
RunsEnd == \A r \in Runs : rec[r].status = "running" ~> rec[r].status # "running"

(* What a run came to reaches the file, unless the run or the process goes  *)
(* first.  It needs ~SlowWrites: two writes at a time can spoil the file.   *)
VerdictsReachTheFile ==
  \A r \in Runs :
    rec[r].status \in {"completed", "failed", "cancelled"}
      ~> \/ rec[r].status \notin {"completed", "failed", "cancelled"}
         \/ file.rec[r] = rec[r]

-----------------------------------------------------------------------------
(* This is said of the program and does not hold.                           *)

(* Once a run is cancelled nothing more is typed into its devices           *)
(* (batchRunner.js: targets that have not started are cancelled on the      *)
(* spot; webui/batch.js: the others are stopped where they are).            *)
CancelStopsTyping ==
  [][ \A j \in Jobs : rec[j[1]].cancelled => typed'[j] <= typed[j] ]_batchVars
=============================================================================
