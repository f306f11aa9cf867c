------------------------------ MODULE BaudDetect ------------------------------
(***************************************************************************)
(* lib/baudDetect.js: finding the speed of a console by opening its device *)
(* at one setting after another, beside the sessions that open it through  *)
(* lib/serialManager.js.                                                   *)
(*                                                                         *)
(* Both go to the operating system, which lets one opener at a time have a *)
(* device; a SerialPort gives it back some time after close() is called.   *)
(* Port p of the manager is the configured port on device p.               *)
(***************************************************************************)
EXTENDS SerialManager

CONSTANTS
  Callers,    \* calls of detectForDevice(), each made once
  PROBES,     \* framings times baud rates
  MaxFaults   \* a bound: how often a device fails or is pulled out

Manager == "manager"    \* a SerialPort of the manager has the device
Closing == "closing"    \* it has called close(), which has not finished
Free    == "free"

ASSUME CallersAssumption ==
  /\ PROBES \in Nat \ {0} /\ MaxFaults \in Nat /\ Ports # {}
  /\ {Manager, Closing, Free} \intersect Callers = {}

VARIABLES
  device,       \* who has the device of p open
  inProgress,   \* inProgress
  call,         \* where each detection is, on which device, how many probes it has left
  faults        \* how many faults there were

detectVars == <<inProgress, call>>
baudVars   == <<smVars, device, detectVars, faults>>

Over    == {"idle", "done"}
Running == {"opening", "dwelling", "closing", "failing"}

BaudInit ==
  /\ Init
  /\ device     = [p \in Ports |-> Free]
  /\ inProgress = {}
  /\ call       = [x \in Callers |-> [at |-> "idle", port |-> CHOOSE p \in Ports : TRUE, left |-> PROBES]]
  /\ faults     = 0

Fault == faults < MaxFaults /\ faults' = faults + 1

-----------------------------------------------------------------------------
(***************************************************************************)
(* The manager, and the device under it.                                   *)
(***************************************************************************)
SessionOpens(s, p, mode) ==
  /\ Idle(s)
  /\ OpenCall(s, p, mode)
  /\ UNCHANGED <<device, detectVars, faults>>

PortOpens(p) ==
  /\ device[p] = Free
  /\ DeviceOpened(p)
  /\ device' = [device EXCEPT ![p] = Manager]
  /\ UNCHANGED <<detectVars, faults>>

PortRefuses(p) ==
  /\ IF device[p] = Free THEN Fault ELSE UNCHANGED faults
  /\ DeviceFailed(p)
  /\ UNCHANGED <<device, detectVars>>

\* The release that takes refCount to zero calls close() on a port still open.
SessionsRelease(S) ==
  /\ ReleaseAll(S)
  /\ device' = [p \in Ports |-> IF Closes(p, S) THEN Closing ELSE device[p]]
  /\ UNCHANGED <<detectVars, faults>>

\* 'close' of a device pulled out; 'error' of one that is still open, and is closed.
PortGone(p) ==
  /\ Fault
  /\ DeviceGone(p)
  /\ \E d \in {Free, Closing} : device' = [device EXCEPT ![p] = d]
  /\ UNCHANGED detectVars

PortClosed(p) ==
  /\ device[p] = Closing
  /\ device' = [device EXCEPT ![p] = Free]
  /\ UNCHANGED <<smVars, detectVars, faults>>

-----------------------------------------------------------------------------
(***************************************************************************)
(* detectForDevice(requestedPath)                                          *)
(***************************************************************************)
Moves(x, at)   == call' = [call EXCEPT ![x].at = at]
Detects(p)     == {x \in Callers : call[x].port = p /\ call[x].at \in Running}

\* Settled, whichever way: the finally clause, then the caller is answered.
Settles(x) ==
  /\ Moves(x, "done")
  /\ inProgress' = inProgress \ {call[x].port}

DetectCalled(x, p) ==
  /\ call[x].at = "idle"
  /\ call' = [call EXCEPT ![x].at = "listing", ![x].port = p]
  /\ UNCHANGED <<smVars, device, inProgress, faults>>

isLocked(p) == entry[p] # "none" /\ refCount[p] > 0

\* A slip: the set is filled but not looked at.
AdmitsAnyway(p) == ~isLocked(p)

Admits(p) == ~isLocked(p) /\ p \notin inProgress

\* The list is in.  No such device, a session on its port, a detection running: an error.
Listed(x) ==
  /\ call[x].at = "listing"
  /\ \/ Moves(x, "done") /\ UNCHANGED inProgress
     \/ /\ Admits(call[x].port)
        /\ Moves(x, "opening")
        /\ inProgress' = inProgress \union {call[x].port}
  /\ UNCHANGED <<smVars, device, faults>>

ProbeOpens(x) ==
  /\ call[x].at = "opening"
  /\ device[call[x].port] = Free
  /\ device' = [device EXCEPT ![call[x].port] = x]
  /\ Moves(x, "dwelling")
  /\ UNCHANGED <<smVars, inProgress, faults>>

ProbeRefused(x) ==
  /\ call[x].at = "opening"
  /\ IF device[call[x].port] = Free THEN Fault ELSE UNCHANGED faults
  /\ Settles(x)
  /\ UNCHANGED <<smVars, device>>

\* One setting was listened to: its output is readable, or it is on to the next, if any.
Probed(x) ==
  \/ Settles(x)
  \/ /\ call[x].left > 1
     /\ call' = [call EXCEPT ![x].at = "opening", ![x].left = @ - 1]
     /\ UNCHANGED inProgress

\* finish(null) of the timer: the port is closed first, unless it was pulled out.
DwellEnds(x) ==
  /\ call[x].at = "dwelling"
  /\ IF device[call[x].port] = x
     THEN Moves(x, "closing") /\ UNCHANGED inProgress
     ELSE Probed(x)
  /\ UNCHANGED <<smVars, device, faults>>

\* A slip: an error rejects at once and leaves the port open.
ProbeFailsOpen(x) ==
  /\ call[x].at = "dwelling"
  /\ Fault
  /\ Settles(x)
  /\ UNCHANGED <<smVars, device>>

\* finish(e) of 'error': the port is closed before the promise is rejected.
ProbeFails(x) ==
  /\ call[x].at = "dwelling"
  /\ device[call[x].port] = x
  /\ Fault
  /\ Moves(x, "failing")
  /\ UNCHANGED <<smVars, device, inProgress>>

ProbeUnplugged(x) ==
  /\ call[x].at = "dwelling"
  /\ device[call[x].port] = x
  /\ Fault
  /\ device' = [device EXCEPT ![call[x].port] = Free]
  /\ UNCHANGED <<smVars, detectVars>>

ProbeClosed(x) ==
  /\ call[x].at \in {"closing", "failing"}
  /\ device' = [device EXCEPT ![call[x].port] = Free]
  /\ IF call[x].at = "closing" THEN Probed(x) ELSE Settles(x)
  /\ UNCHANGED <<smVars, faults>>

-----------------------------------------------------------------------------
\* What is sure to happen to a detection once called, and what may.
Proceeds(x) == Listed(x) \/ ProbeOpens(x) \/ ProbeRefused(x) \/ DwellEnds(x) \/ ProbeClosed(x)
Disturbed(x) == ProbeFails(x) \/ ProbeUnplugged(x)

Answers(p) == PortOpens(p) \/ PortRefuses(p)

ManagerStep ==
  \/ \E s \in Sessions, p \in Ports, mode \in Modes : SessionOpens(s, p, mode)
  \/ \E S \in SUBSET Sessions : SessionsRelease(S)
  \/ \E p \in Ports : Answers(p) \/ PortGone(p) \/ PortClosed(p)

BaudNext ==
  \/ ManagerStep
  \/ \E x \in Callers, p \in Ports : DetectCalled(x, p)
  \/ \E x \in Callers : Proceeds(x) \/ Disturbed(x)

BaudSpec == BaudInit /\ [][BaudNext]_baudVars

BaudTypeOK ==
  /\ device     \in [Ports -> {Manager, Closing, Free} \union Callers]
  /\ inProgress \in SUBSET Ports
  /\ call       \in [Callers -> [at : Over \union {"listing"} \union Running, port : Ports, left : 1..PROBES]]
  /\ faults     \in 0..MaxFaults

(* inProgress names the devices being probed, each by one detection: it is  *)
(* neither left behind by one that failed nor cleared by another's end.     *)
OneDetectionEach ==
  \A p \in Ports :
    /\ \A x, y \in Detects(p) : x = y
    /\ p \in inProgress <=> Detects(p) # {}

(* The manager has a device open exactly while an entry says so, and a      *)
(* detection that is over, or is between two probes, has none.              *)
DeviceIsAccountedFor ==
  \A p \in Ports :
    /\ device[p] = Manager <=> entry[p] = "open"
    /\ \A x \in Callers :
         /\ device[p] = x => call[x].port = p /\ call[x].at \in {"dwelling", "closing", "failing"}
         /\ call[x].port = p /\ call[x].at \in {"closing", "failing"} => device[p] = x

(* What holds of detections and the devices they share with sessions.       *)
BaudInv == BaudTypeOK /\ OneDetectionEach /\ DeviceIsAccountedFor
=============================================================================
