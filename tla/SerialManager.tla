---------------------------- MODULE SerialManager ----------------------------
(***************************************************************************)
(* lib/serialManager.js: which configured ports are open, who is attached  *)
(* to each, and who may type.                                              *)
(*                                                                         *)
(* The process is single-threaded, so a step of this module is one event   *)
(* callback together with the promise continuations it resolves.  open()   *)
(* registers its entry before it awaits the physical open; every call that *)
(* finds the entry awaits the same promise, so all of them attach, or all  *)
(* are rejected, in the one step in which the device answers.              *)
(*                                                                         *)
(* The insertion-ordered Set entry.sessions is kept as a plain set plus    *)
(* elders[s], the sessions that were on the port before s and still are.   *)
(***************************************************************************)
EXTENDS Integers, FiniteSets

CONSTANTS
  Ports,      \* ids of configured ports
  Sessions,   \* ids of sessions (SSH, web, tunnel, batch)
  Modes       \* the access modes an administrator configures

AccessModes == {"exclusive", "shared-rw", "shared-ro", "first-write"}
NotOpen     == "not-open"

ASSUME SessionsAssumption == IsFiniteSet(Sessions)
ASSUME ModesAssumption == Modes \subseteq AccessModes

VARIABLES
  entry,      \* openPorts.get(p): absent, open in flight, or open
  refCount,   \* entry.refCount
  sessions,   \* entry.sessions
  waiting,    \* calls to open() awaiting entry.openPromise
  elders,     \* who is ahead of s on its port
  access      \* the mode s captured when it called open()

smVars == <<entry, refCount, sessions, waiting, elders, access>>

Init ==
  /\ entry    = [p \in Ports |-> "none"]
  /\ refCount = [p \in Ports |-> 0]
  /\ sessions = [p \in Ports |-> {}]
  /\ waiting  = [p \in Ports |-> {}]
  /\ elders   = [s \in Sessions |-> {}]
  /\ access   = [s \in Sessions |-> NotOpen]

-----------------------------------------------------------------------------
Attached == UNION {sessions[p] : p \in Ports}
Waiting  == UNION {waiting[p] : p \in Ports}

\* A slip: the order of the Set read from its other end.
IsNewest(s, p) == s \in sessions[p] /\ elders[s] = sessions[p] \ {s}

\* entry.sessions.values().next().value = s
IsOldest(s, p) == s \in sessions[p] /\ elders[s] = {}

\* Slips: whoever is attached may type; or whoever is attached alone.
AnyoneWrites(s, p) == access[s] # "shared-ro"
OnlyAloneWrites(s, p) == access[s] # "shared-ro" /\ (access[s] = "first-write" => refCount[p] = 1)

canSessionWrite(s, p) ==
  /\ access[s] # "shared-ro"
  /\ access[s] = "first-write" => entry[p] # "none" /\ IsOldest(s, p)

-----------------------------------------------------------------------------
(***************************************************************************)
(* open(portConfig, sessionId), by what it finds in openPorts.  An entry   *)
(* counts as taken from the moment it is registered.                       *)
(***************************************************************************)
\* A slip: isLocked() asked instead, which an open in flight does not satisfy.
RefusedIfHeld(p, mode) == entry[p] # "none" /\ refCount[p] > 0 /\ mode = "exclusive"

Refused(p, mode) == entry[p] # "none" /\ mode = "exclusive"

OpenRefused(s, p, mode) ==
  /\ Refused(p, mode)
  /\ UNCHANGED smVars

OpenDevice(s, p, mode) ==
  /\ entry[p] = "none"
  /\ entry'   = [entry EXCEPT ![p] = "opening"]
  /\ waiting' = [waiting EXCEPT ![p] = {s}]
  /\ access'  = [access EXCEPT ![s] = mode]
  /\ UNCHANGED <<refCount, sessions, elders>>

AwaitDevice(s, p, mode) ==
  /\ entry[p] = "opening"
  /\ ~Refused(p, mode)
  /\ waiting' = [waiting EXCEPT ![p] = @ \union {s}]
  /\ elders'  = [elders EXCEPT ![s] = waiting[p]]
  /\ access'  = [access EXCEPT ![s] = mode]
  /\ UNCHANGED <<entry, refCount, sessions>>

JoinOpenPort(s, p, mode) ==
  /\ entry[p] = "open"
  /\ ~Refused(p, mode)
  /\ refCount' = [refCount EXCEPT ![p] = @ + 1]
  /\ sessions' = [sessions EXCEPT ![p] = @ \union {s}]
  /\ elders'   = [elders EXCEPT ![s] = sessions[p]]
  /\ access'   = [access EXCEPT ![s] = mode]
  /\ UNCHANGED <<entry, waiting>>

OpenCall(s, p, mode) ==
  \/ OpenRefused(s, p, mode)
  \/ OpenDevice(s, p, mode)
  \/ AwaitDevice(s, p, mode)
  \/ JoinOpenPort(s, p, mode)

\* The device answered: every caller resumes, in call order, and attaches.
DeviceOpened(p) ==
  /\ entry[p] = "opening"
  /\ entry'    = [entry EXCEPT ![p] = "open"]
  /\ refCount' = [refCount EXCEPT ![p] = @ + Cardinality(waiting[p])]
  /\ sessions' = [sessions EXCEPT ![p] = @ \union waiting[p]]
  /\ waiting'  = [waiting EXCEPT ![p] = {}]
  /\ UNCHANGED <<elders, access>>

\* The device did not open: the entry goes and every caller is rejected.
DeviceFailed(p) ==
  /\ entry[p] = "opening"
  /\ entry'   = [entry EXCEPT ![p] = "none"]
  /\ elders'  = [s \in Sessions |-> IF s \in waiting[p] THEN {} ELSE elders[s]]
  /\ access'  = [s \in Sessions |-> IF s \in waiting[p] THEN NotOpen ELSE access[s]]
  /\ waiting' = [waiting EXCEPT ![p] = {}]
  /\ UNCHANGED <<refCount, sessions>>

(***************************************************************************)
(* release() of every session of S.  The released flag makes a second call *)
(* do nothing; the one that takes refCount to zero drops the entry.        *)
(***************************************************************************)
\* A slip: no released flag, so every call counts.
LeftByCalls(p, S) == refCount[p] - Cardinality(S)

Left(p, S)   == refCount[p] - Cardinality(sessions[p] \intersect S)
Closes(p, S) == sessions[p] \intersect S # {} /\ Left(p, S) <= 0

ReleaseAll(S) ==
  /\ refCount' = [p \in Ports |-> Left(p, S)]
  /\ sessions' = [p \in Ports |-> sessions[p] \ S]
  /\ entry'    = [p \in Ports |-> IF Closes(p, S) THEN "none" ELSE entry[p]]
  /\ elders'   = [s \in Sessions |-> IF s \in S \intersect Attached THEN {} ELSE elders[s] \ (S \intersect Attached)]
  /\ access'   = [s \in Sessions |-> IF s \in S \intersect Attached THEN NotOpen ELSE access[s]]
  /\ UNCHANGED waiting

\* 'close' or 'error' of the SerialPort: once('close', release) of each session.
DeviceGone(p) ==
  /\ entry[p] = "open"
  /\ ReleaseAll(sessions[p])

-----------------------------------------------------------------------------
(***************************************************************************)
(* Callers make one open() at a time.  They release one session, or many   *)
(* at once (sshServer.stop), and may release again what is released, as    *)
(* the bridges do when the stream and the device close together.           *)
(***************************************************************************)
Idle(s) == s \notin Attached \union Waiting

Next ==
  \/ \E s \in Sessions, p \in Ports, mode \in Modes : Idle(s) /\ OpenCall(s, p, mode)
  \/ \E S \in SUBSET Sessions : ReleaseAll(S)
  \/ \E p \in Ports : DeviceOpened(p) \/ DeviceFailed(p) \/ DeviceGone(p)

Spec == Init /\ [][Next]_smVars

-----------------------------------------------------------------------------
Members(p) == sessions[p] \union waiting[p]

TypeOK ==
  /\ entry    \in [Ports -> {"none", "opening", "open"}]
  /\ refCount \in [Ports -> Nat]
  /\ sessions \in [Ports -> SUBSET Sessions]
  /\ waiting  \in [Ports -> SUBSET Sessions]
  /\ elders   \in [Sessions -> SUBSET Sessions]
  /\ access   \in [Sessions -> AccessModes \union {NotOpen}]

(* A port is open exactly while somebody is attached, and an entry in       *)
(* flight has callers but no holder: no device stays open, and no entry     *)
(* stays registered, for nobody (serialManager.js release, openPromise).    *)
EntryMatchesHolders ==
  \A p \in Ports :
    /\ entry[p] = "none"    => sessions[p] = {} /\ waiting[p] = {}
    /\ entry[p] = "opening" => sessions[p] = {} /\ waiting[p] # {}
    /\ entry[p] = "open"    => sessions[p] # {} /\ waiting[p] = {}

(* The count that decides when a port closes, that lockInfo() reports and   *)
(* isLocked() tests is the number of sessions attached.                     *)
RefCountMatches == \A p \in Ports : refCount[p] = Cardinality(sessions[p])

(* A session is on one port at most, attached or waiting, with the mode it  *)
(* captured; one that is on none has nobody ahead of it.                    *)
OnePortPerSession ==
  /\ \A p, q \in Ports : p # q => Members(p) \intersect Members(q) = {}
  /\ \A p \in Ports : \A s \in Members(p) : access[s] # NotOpen
  /\ \A s \in Sessions \ (Attached \union Waiting) : elders[s] = {}

(* Seniority on a port is a strict total order of the sessions on it, so    *)
(* there is always one longest-connected session.                           *)
SeniorityIsTotal ==
  \A p \in Ports : \A s \in Members(p) :
    /\ elders[s] \subseteq Members(p) \ {s}
    /\ \A t \in Members(p) \ {s} :
         /\ (s \in elders[t]) # (t \in elders[s])
         /\ t \in elders[s] => elders[t] \subseteq elders[s]

(* An exclusive session never found anybody ahead of it, however the port's *)
(* mode was edited while others were connected.                             *)
ExclusiveIsOldest ==
  \A p \in Ports : \A s \in Members(p) : access[s] = "exclusive" => elders[s] = {}

(* What the manager keeps true step by step: the six facts above hold       *)
(* together, and every one of them needs some of the others to persist.     *)
IInv ==
  /\ TypeOK
  /\ EntryMatchesHolders
  /\ RefCountMatches
  /\ OnePortPerSession
  /\ SeniorityIsTotal
  /\ ExclusiveIsOldest

(* Two sessions type into one port at the same time only if one of them     *)
(* asked for shared-rw: neither exclusive nor first-write ever admits a     *)
(* second typist, whatever mix of modes the sessions captured.              *)
OnlySharedRwShares ==
  \A p \in Ports : \A s, t \in sessions[p] :
    s # t /\ canSessionWrite(s, p) /\ canSessionWrite(t, p)
      => "shared-rw" \in {access[s], access[t]}

(* On a first-write port exactly one session can type at any time: the      *)
(* keyboard is never lost when the writer leaves.                           *)
FirstWriteHasOneWriter ==
  \A p \in Ports :
    entry[p] = "open" /\ (\A s \in sessions[p] : access[s] = "first-write")
      => \E w \in sessions[p] : \A s \in sessions[p] : canSessionWrite(s, p) <=> s = w

(* A session that can type keeps typing until it leaves, and newcomers      *)
(* queue behind everybody already attached.                                 *)
NobodyCutsIn ==
  \A p \in Ports : \A s \in sessions[p] \intersect sessions'[p] :
    /\ canSessionWrite(s, p) => canSessionWrite(s, p)'
    /\ \A t \in sessions'[p] \ sessions[p] : s \in elders'[t]
KeyboardIsKept == [][NobodyCutsIn]_smVars

-----------------------------------------------------------------------------
(***************************************************************************)
(* What sharing a port promises (PortSharing), read off the manager: the   *)
(* queue of p lists the sessions attached to it, oldest first.             *)
(***************************************************************************)
Queue(p) ==
  [i \in 1..Cardinality(sessions[p]) |->
     CHOOSE s \in sessions[p] : Cardinality(elders[s]) = i - 1]

queues == [p \in Ports |-> Queue(p)]
modes  == [s \in Sessions |-> IF s \in Attached THEN access[s] ELSE NotOpen]

Sharing == INSTANCE PortSharing WITH queue <- queues, mode <- modes

(* The manager implements the promise of PortSharing.                       *)
ImplementsSharing == Sharing!Spec
=============================================================================
