-------------------------- MODULE ManagerUsers_proofs --------------------------
(***************************************************************************)
(* Proofs about the two systems built on SerialManager: ConsoleSessions    *)
(* (everybody who opens a port to use it) and BaudDetect with HubChannels  *)
(* (detections, which go past the manager to the same devices), for any    *)
(* sessions, ports, modes, callers, channels, probes and faults.           *)
(*                                                                         *)
(* What is proved of SerialManager is used of the step another module      *)
(* takes: it is a step of the manager (ConsolesStep), so it keeps IInv and  *)
(* leaves the keyboard with whoever had it.  What is left to show is that  *)
(* all ways onto a port use the manager as it assumes, that the Sessions   *)
(* tab and the capture files are true, that a script can type into the     *)
(* port it was given, and that the two ways to the same device never       *)
(* disagree on who has it.                                                 *)
(***************************************************************************)
EXTENDS ConsoleSessions, HubChannels, SerialManager_proofs

-----------------------------------------------------------------------------
\* ConsoleSessions.

(* The inductive invariant: ConsoleInv and the capture files, which depend  *)
(* on each other in no way but on the same facts about every step.          *)
KeptInv == ConsoleInv /\ CaptureFollowsSession

(* What a step owes a script: whoever it attaches is about to be checked,   *)
(* and a check that is over has let the script keep a port it can type on.  *)
ScriptsAreChecked ==
  \A p \in Ports : \A s \in (sessions'[p] \intersect Batch) \ checking' :
    s \in sessions[p] /\ (s \in checking => canSessionWrite(s, p))

-----------------------------------------------------------------------------
(* Every session is of exactly one kind.                                    *)
LEMMA OneKind ==
  /\ Ssh \subseteq Sessions /\ Web \subseteq Sessions /\ Batch \subseteq Sessions
  /\ Consoles = Ssh \union Web
  /\ \A s \in Ssh : s \notin Web /\ s \notin Tunnel /\ s \notin Batch
  /\ \A s \in Web : s \notin Tunnel /\ s \notin Batch
  /\ \A s \in Batch : s \notin Tunnel /\ s \notin Consoles
BY KindsAssumption DEF Consoles

(* A mode of a configured port is one of the modes.                         *)
LEMMA ModesOnly ==
  ASSUME NEW mode \in Modes \union {Deleted}, mode # Deleted
  PROVE  mode \in Modes
OBVIOUS

(* Waiting and attached sessions are sessions, and nobody is both.          *)
LEMMA AttachedOrWaiting ==
  ASSUME IInv
  PROVE  /\ Attached \subseteq Sessions /\ Waiting \subseteq Sessions
         /\ Attached \intersect Waiting = {}
         /\ \A p \in Ports : sessions[p] \subseteq Attached /\ waiting[p] \subseteq Waiting
         /\ \A p, q \in Ports : p # q => waiting[p] \intersect waiting[q] = {}
                                         /\ sessions[p] \intersect sessions[q] = {}
<1>1. \A p \in Ports : sessions[p] \subseteq Sessions /\ waiting[p] \subseteq Sessions
  BY DEF IInv, TypeOK
<1>2. \A p \in Ports : sessions[p] = {} \/ waiting[p] = {}
  BY DEF IInv, TypeOK, EntryMatchesHolders
<1>3. \A p, q \in Ports : p # q => Members(p) \intersect Members(q) = {}
  BY DEF IInv, OnePortPerSession
<1>4. Attached \intersect Waiting = {}
  BY <1>2, <1>3, AttachedElements DEF Members
<1>. QED
  BY <1>1, <1>3, <1>4, AttachedElements DEF Members

-----------------------------------------------------------------------------
(* Whoever goes, goes from every port.                                      *)
LEMMA ReleaseMoves ==
  ASSUME IInv, NEW S \in SUBSET Sessions, ReleaseAll(S), S \intersect Waiting = {}
  PROVE  \A p \in Ports : sessions'[p] = sessions[p] \ S /\ waiting'[p] = waiting[p] \ S
BY AttachedElements DEF ReleaseAll

LEMMA FailureMoves ==
  ASSUME IInv, NEW p \in Ports, DeviceFailed(p)
  PROVE  \A q \in Ports : /\ sessions'[q] = sessions[q] \ waiting[p]
                          /\ waiting'[q] = waiting[q] \ waiting[p]
BY AttachedOrWaiting DEF DeviceFailed, IInv, TypeOK

LEMMA OpeningMoves ==
  ASSUME IInv, NEW p \in Ports, DeviceOpened(p)
  PROVE  /\ \A q \in Ports \ {p} : sessions'[q] = sessions[q] /\ waiting'[q] = waiting[q]
         /\ sessions'[p] = waiting[p] /\ waiting'[p] = {}
BY DEF DeviceOpened, IInv, TypeOK, EntryMatchesHolders

-----------------------------------------------------------------------------
(* Unbridge, session by session: those of S leave the port for the menu,    *)
(* the end or nowhere, a stream that lasts is not dropped, and no stream    *)
(* that was closing comes back.                                             *)
LEMMA UnbridgePointwise ==
  ASSUME ConsoleTypeOK, NEW S \in SUBSET Sessions, NEW live, Unbridge(S, live)
  PROVE  /\ at' \in [Sessions -> {"away", "menu", "port", "ended"}]
         /\ stream' \in [Sessions -> {"up", "closing", "down"}]
         /\ shown' \in [Sessions -> [Ports -> Modes \union {Deleted}]]
         /\ \A s \in Sessions \ S : at'[s] = at[s] /\ stream'[s] = stream[s]
         /\ \A s \in S : s \in live \ Batch => at'[s] # "away" /\ stream'[s] # "down"
         /\ \A s \in S : stream'[s] = "up" => s \in live /\ stream[s] # "closing"
<1>. DEFINE next(s) == Fallback(s, live)
<1>1. \A s \in Sessions : /\ next(s) \in {"away", "menu", "ended"}
                          /\ s \in live \ Batch => next(s) # "away"
                          /\ s \notin live => next(s) = "away"
  BY DEF Fallback
<1>2. /\ at' = [s \in Sessions |-> IF s \in S THEN next(s) ELSE at[s]]
      /\ stream' = [s \in Sessions |->
                 CASE s \in S /\ next(s) = "away"  -> "down"
                   [] s \in S /\ next(s) = "ended" -> "closing"
                   [] s \in S /\ next(s) = "menu" /\ stream[s] = "down" -> "up"
                   [] OTHER                        -> stream[s]]
      /\ shown'  = [s \in Sessions |-> IF s \notin S THEN shown[s]
                                   ELSE IF next(s) = "menu" THEN config ELSE NoMenu]
  BY DEF Unbridge
<1>3. /\ at \in [Sessions -> {"away", "menu", "port", "ended"}]
      /\ stream \in [Sessions -> {"up", "closing", "down"}]
      /\ shown \in [Sessions -> [Ports -> Modes \union {Deleted}]]
      /\ config \in [Ports -> Modes \union {Deleted}]
      /\ NoMenu \in [Ports -> Modes \union {Deleted}]
  BY DEF ConsoleTypeOK, NoMenu
<1>. HIDE DEF next
<1>4. \A s \in Sessions :
        /\ s \in S => at'[s] = next(s)
        /\ s \notin S => at'[s] = at[s] /\ stream'[s] = stream[s]
        /\ s \in S /\ next(s) = "away" => stream'[s] = "down"
        /\ s \in S /\ next(s) = "ended" => stream'[s] = "closing"
        /\ s \in S /\ next(s) = "menu" /\ stream[s] = "down" => stream'[s] = "up"
        /\ s \in S /\ next(s) = "menu" /\ stream[s] # "down" => stream'[s] = stream[s]
  <2>. SUFFICES ASSUME NEW s \in Sessions
                PROVE  /\ s \in S => at'[s] = next(s)
                       /\ s \notin S => at'[s] = at[s] /\ stream'[s] = stream[s]
                       /\ s \in S /\ next(s) = "away" => stream'[s] = "down"
                       /\ s \in S /\ next(s) = "ended" => stream'[s] = "closing"
                       /\ s \in S /\ next(s) = "menu" /\ stream[s] = "down" => stream'[s] = "up"
                       /\ s \in S /\ next(s) = "menu" /\ stream[s] # "down" => stream'[s] = stream[s]
    OBVIOUS
  <2>1. at'[s] = IF s \in S THEN next(s) ELSE at[s]
    BY <1>2
  <2>2. stream'[s] = CASE s \in S /\ next(s) = "away"  -> "down"
                       [] s \in S /\ next(s) = "ended" -> "closing"
                       [] s \in S /\ next(s) = "menu" /\ stream[s] = "down" -> "up"
                       [] OTHER                        -> stream[s]
    BY <1>2
  <2>3. CASE s \notin S
    BY <2>1, <2>2, <2>3
  <2>4. CASE s \in S /\ next(s) = "away"
    BY <2>1, <2>2, <2>4
  <2>5. CASE s \in S /\ next(s) = "ended"
    BY <2>1, <2>2, <2>5
  <2>6. CASE s \in S /\ next(s) = "menu"
    BY <2>1, <2>2, <2>6
  <2>. QED
    BY <1>1, <2>3, <2>4, <2>5, <2>6
<1>5. \A s \in Sessions : at'[s] \in {"away", "menu", "port", "ended"} /\ stream'[s] \in {"up", "closing", "down"}
  BY <1>1, <1>3, <1>4
<1>6. /\ at' \in [Sessions -> {"away", "menu", "port", "ended"}]
      /\ stream' \in [Sessions -> {"up", "closing", "down"}]
  BY <1>2, <1>5
<1>7. shown' \in [Sessions -> [Ports -> Modes \union {Deleted}]]
  BY <1>2, <1>3
<1>. QED
  BY <1>1, <1>3, <1>4, <1>6, <1>7

(* Bridges end: of sessions that have just lost their port, never got one,  *)
(* or were only about to ask.                                               *)
LEMMA UnbridgeKeeps ==
  ASSUME KeptInv, IInv', NEW S \in SUBSET Sessions, NEW live, Live \subseteq live,
         \A p \in Ports : sessions'[p] = sessions[p] \ S /\ waiting'[p] = waiting[p] \ S,
         Unbridge(S, live),
         UNCHANGED <<config, enabled, authed>>,
         sshSessions \subseteq sshSessions',
         sshSessions' \ sshSessions \subseteq S \intersect Ssh \intersect live,
         S \intersect Ssh \intersect live \subseteq Live \union sshSessions'
  PROVE  KeptInv'
<1>1. /\ at' \in [Sessions -> {"away", "menu", "port", "ended"}]
      /\ stream' \in [Sessions -> {"up", "closing", "down"}]
      /\ shown' \in [Sessions -> [Ports -> Modes \union {Deleted}]]
      /\ \A s \in Sessions \ S : at'[s] = at[s] /\ stream'[s] = stream[s]
      /\ \A s \in S : s \in live \ Batch => at'[s] # "away" /\ stream'[s] # "down"
      /\ \A s \in S : stream'[s] = "up" => s \in live /\ stream[s] # "closing"
  BY UnbridgePointwise DEF KeptInv, ConsoleInv
<1>2. /\ capturing' = capturing \ S /\ webSessions' = webSessions \ S /\ checking' = checking \ S
  BY DEF Unbridge
<1>3. Attached' = Attached \ S /\ Waiting' = Waiting \ S
  BY DEF Attached, Waiting
<1>4. ConsoleTypeOK'
  BY <1>1, <1>2 DEF KeptInv, ConsoleInv, ConsoleTypeOK, IInv
<1>5. HoldersAreAtPort'
  BY <1>1, <1>3, AttachedOrWaiting DEF KeptInv, ConsoleInv, HoldersAreAtPort
<1>6. SessionListIsTrue'
  <2>1. ASSUME NEW s \in sshSessions'
        PROVE  stream'[s] # "down" /\ at'[s] # "away"
    <3>1. s \in Ssh /\ s \in Sessions /\ s \notin Batch
      BY <1>4, OneKind DEF ConsoleTypeOK
    <3>2. s \in sshSessions => s \in live /\ stream[s] # "down" /\ at[s] # "away"
      BY <3>1 DEF KeptInv, ConsoleInv, SessionListIsTrue, Live
    <3>. QED
      BY <1>1, <3>1, <3>2
  <2>2. webSessions' = Web \intersect Attached'
    BY <1>2, <1>3 DEF KeptInv, ConsoleInv, SessionListIsTrue
  <2>3. ASSUME NEW s \in Ssh, stream'[s] = "up"
        PROVE  s \in sshSessions'
    <3>1. s \in Sessions
      BY OneKind
    <3>2. stream[s] = "up" => s \in sshSessions'
      BY DEF KeptInv, ConsoleInv, SessionListIsTrue
    <3>3. s \in S => stream[s] = "up" \/ s \notin Live
      BY <1>1, <2>3, <3>1 DEF KeptInv, ConsoleInv, ConsoleTypeOK, Live
    <3>. QED
      BY <1>1, <2>3, <3>1, <3>2, <3>3
  <2>. QED
    BY <2>1, <2>2, <2>3 DEF SessionListIsTrue
<1>7. CaptureFollowsSession'
  <2>1. ASSUME NEW s \in capturing'
        PROVE  at'[s] = "port" /\ s \notin Waiting'
    BY <1>1, <1>2, <1>3, <2>1, OneKind DEF KeptInv, ConsoleInv, CaptureFollowsSession, ConsoleTypeOK
  <2>2. \A p \in CapturedPorts : sessions'[p] \intersect Consoles \subseteq capturing'
    BY <1>2, KindsAssumption DEF KeptInv, CaptureFollowsSession
  <2>. QED
    BY <2>1, <2>2 DEF CaptureFollowsSession
<1>. QED
  BY <1>4, <1>5, <1>6, <1>7 DEF KeptInv, ConsoleInv
-----------------------------------------------------------------------------
(* open() that gets somewhere: the session leaves its menu, or its shell    *)
(* has just begun, for a port or the wait for one.                          *)
LEMMA OpeningKeeps ==
  ASSUME KeptInv, IInv', NEW s \in Sessions, NEW p \in Ports, NEW mode \in Modes,
         Idle(s), at[s] # "port",
         \/ /\ OpenDevice(s, p, mode) \/ AwaitDevice(s, p, mode)
            /\ UNCHANGED <<capturing, webSessions, checking>>
         \/ JoinOpenPort(s, p, mode) /\ Bridge({s}, p),
         at' = [at EXCEPT ![s] = "port"], stream' = [stream EXCEPT ![s] = "up"],
         shown' = [shown EXCEPT ![s] = NoMenu],
         UNCHANGED <<config, enabled, authed>>,
         sshSessions \subseteq sshSessions',
         sshSessions' \ sshSessions \subseteq {s} \intersect Ssh,
         s \in Ssh => s \in sshSessions'
  PROVE  KeptInv' /\ ScriptsAreChecked
<1>1. /\ ConsoleTypeOK /\ IInv /\ HoldersAreAtPort /\ SessionListIsTrue /\ CaptureFollowsSession
      /\ s \notin Attached /\ s \notin Waiting /\ s \notin capturing
  BY DEF KeptInv, ConsoleInv, CaptureFollowsSession, Idle
<1>2. /\ at' \in [Sessions -> {"away", "menu", "port", "ended"}]
      /\ stream' \in [Sessions -> {"up", "closing", "down"}]
      /\ shown' \in [Sessions -> [Ports -> Modes \union {Deleted}]]
      /\ at'[s] = "port" /\ stream'[s] = "up"
      /\ \A t \in Sessions \ {s} : at'[t] = at[t] /\ stream'[t] = stream[t]
  <2>1. NoMenu \in [Ports -> Modes \union {Deleted}]
    BY DEF NoMenu
  <2>. QED
    BY <1>1, <2>1 DEF ConsoleTypeOK
<1>3. CASE /\ OpenDevice(s, p, mode) \/ AwaitDevice(s, p, mode)
           /\ UNCHANGED <<capturing, webSessions, checking>>
  <2>1. /\ sessions' = sessions /\ Attached' = Attached /\ Waiting' = Waiting \union {s}
    <3>1. sessions' = sessions /\ waiting'[p] = waiting[p] \union {s}
          /\ \A q \in Ports \ {p} : waiting'[q] = waiting[q]
      BY <1>1, <1>3 DEF OpenDevice, AwaitDevice, IInv, TypeOK, EntryMatchesHolders
    <3>. QED
      BY <3>1 DEF Attached, Waiting
  <2>2. ConsoleTypeOK'
    BY <1>1, <1>2, <1>3, OneKind DEF ConsoleTypeOK, IInv
  <2>3. HoldersAreAtPort'
    BY <1>1, <1>2, <2>1, AttachedOrWaiting DEF HoldersAreAtPort
  <2>4. SessionListIsTrue'
    BY <1>1, <1>2, <1>3, <2>1, <2>2, OneKind DEF SessionListIsTrue, ConsoleTypeOK
  <2>5. CaptureFollowsSession'
    BY <1>1, <1>2, <1>3, <2>1, OneKind DEF CaptureFollowsSession, ConsoleTypeOK
  <2>6. ScriptsAreChecked
    BY <1>1, <1>3, <2>1 DEF ScriptsAreChecked
  <2>. QED
    BY <2>2, <2>3, <2>4, <2>5, <2>6 DEF KeptInv, ConsoleInv
<1>4. CASE JoinOpenPort(s, p, mode) /\ Bridge({s}, p)
  <2>1. /\ sessions'[p] = sessions[p] \union {s} /\ \A q \in Ports \ {p} : sessions'[q] = sessions[q]
        /\ Attached' = Attached \union {s} /\ Waiting' = Waiting
    <3>1. sessions'[p] = sessions[p] \union {s} /\ waiting' = waiting
          /\ \A q \in Ports \ {p} : sessions'[q] = sessions[q]
      BY <1>1, <1>4 DEF JoinOpenPort, IInv, TypeOK
    <3>. QED
      BY <3>1 DEF Attached, Waiting
  <2>2. /\ webSessions' = webSessions \union ({s} \intersect Web)
        /\ checking' = checking \union ({s} \intersect Batch)
        /\ capturing \subseteq capturing' /\ capturing' \subseteq capturing \union ({s} \intersect Consoles)
        /\ p \in CapturedPorts => {s} \intersect Consoles \subseteq capturing'
    BY <1>4 DEF Bridge, startCapture
  <2>3. ConsoleTypeOK'
    BY <1>1, <1>2, <2>2, OneKind DEF ConsoleTypeOK, IInv
  <2>4. HoldersAreAtPort'
    BY <1>1, <1>2, <2>1, AttachedOrWaiting DEF HoldersAreAtPort
  <2>5. SessionListIsTrue'
    BY <1>1, <1>2, <2>1, <2>2, <2>3, OneKind DEF SessionListIsTrue, ConsoleTypeOK
  <2>6. CaptureFollowsSession'
    <3>1. \A t \in capturing' : at'[t] = "port" /\ t \notin Waiting'
      BY <1>1, <1>2, <2>1, <2>2, OneKind DEF CaptureFollowsSession, ConsoleTypeOK
    <3>2. \A q \in CapturedPorts : sessions'[q] \intersect Consoles \subseteq capturing'
      BY <1>1, <2>1, <2>2, KindsAssumption DEF CaptureFollowsSession
    <3>. QED
      BY <3>1, <3>2 DEF CaptureFollowsSession
  <2>7. ScriptsAreChecked
    <3>. SUFFICES ASSUME NEW q \in Ports, NEW t \in sessions'[q], t \in Batch, t \notin checking'
                  PROVE  t \in sessions[q] /\ (t \in checking => canSessionWrite(t, q))
      BY DEF ScriptsAreChecked
    <3>1. t \in sessions[q] /\ t \notin checking
      BY <2>1, <2>2
    <3>. QED
      BY <3>1
  <2>. QED
    BY <2>3, <2>4, <2>5, <2>6, <2>7 DEF KeptInv, ConsoleInv
<1>. QED
  BY <1>3, <1>4

-----------------------------------------------------------------------------
(* Connect and Settle, the two things a handler does with no port in hand.  *)
LEMMA ConnectKeeps ==
  ASSUME KeptInv, NEW s \in Sessions, NEW p \in Ports, NEW mode \in Modes,
         Connect(s, p, mode), at[s] # "port",
         UNCHANGED <<config, enabled, authed>>,
         sshSessions \subseteq sshSessions',
         sshSessions' \ sshSessions \subseteq {s} \intersect Ssh,
         s \in Ssh => s \in sshSessions'
  PROVE  [Next]_smVars /\ KeptInv' /\ ScriptsAreChecked
<1>1. Idle(s)
  BY DEF KeptInv, ConsoleInv, HoldersAreAtPort, Idle
<1>2. OpenCall(s, p, mode)
  BY DEF Connect, OpenCall
<1>3. Next
  BY <1>1, <1>2 DEF Next
<1>4. IInv'
  BY <1>3, StepInv DEF KeptInv, ConsoleInv
<1>5. CASE OpenRefused(s, p, mode) /\ Unbridge({s}, Live \union {s})
  <2>1. \A q \in Ports : sessions'[q] = sessions[q] \ {s} /\ waiting'[q] = waiting[q] \ {s}
    BY <1>1, <1>5, AttachedElements DEF OpenRefused, smVars, Idle
  <2>2. KeptInv'
    BY <1>4, <1>5, <2>1, UnbridgeKeeps
  <2>3. ScriptsAreChecked
    BY <1>1, <1>5, AttachedElements DEF ScriptsAreChecked, Unbridge, OpenRefused, smVars, Idle
  <2>. QED
    BY <1>3, <2>2, <2>3
<1>6. CASE ~(OpenRefused(s, p, mode) /\ Unbridge({s}, Live \union {s}))
  BY <1>1, <1>3, <1>4, <1>6, OpeningKeeps DEF Connect
<1>. QED
  BY <1>5, <1>6

LEMMA SettleKeeps ==
  ASSUME KeptInv, NEW s \in Sessions, Settle(s), at[s] # "port",
         UNCHANGED <<config, enabled, authed>>,
         sshSessions \subseteq sshSessions',
         sshSessions' \ sshSessions \subseteq {s} \intersect Ssh,
         s \in Ssh => s \in sshSessions'
  PROVE  [Next]_smVars /\ KeptInv' /\ ScriptsAreChecked
<1>1. Idle(s)
  BY DEF KeptInv, ConsoleInv, HoldersAreAtPort, Idle
<1>2. UNCHANGED smVars /\ Unbridge({s}, Live \union {s})
  BY DEF Settle
<1>3. IInv'
  BY <1>2, StepInv DEF KeptInv, ConsoleInv
<1>4. \A q \in Ports : sessions'[q] = sessions[q] \ {s} /\ waiting'[q] = waiting[q] \ {s}
  BY <1>1, <1>2, AttachedElements DEF smVars, Idle
<1>5. KeptInv'
  BY <1>2, <1>3, <1>4, UnbridgeKeeps
<1>6. ScriptsAreChecked
  BY <1>1, <1>2, AttachedElements DEF ScriptsAreChecked, Unbridge, smVars, Idle
<1>. QED
  BY <1>2, <1>5, <1>6
(* Bridges that release what they hold as they end.                         *)
LEMMA ReleaseKeeps ==
  ASSUME KeptInv, NEW S \in SUBSET Sessions, S \intersect Waiting = {},
         ReleaseAll(S), Unbridge(S, Live),
         UNCHANGED <<config, enabled, authed, sshSessions>>
  PROVE  [Next]_smVars /\ KeptInv' /\ ScriptsAreChecked
<1>1. Next
  BY DEF Next
<1>2. IInv'
  BY <1>1, StepInv DEF KeptInv, ConsoleInv
<1>3. \A p \in Ports : sessions'[p] = sessions[p] \ S /\ waiting'[p] = waiting[p] \ S
  BY ReleaseMoves DEF KeptInv, ConsoleInv
<1>4. KeptInv'
  BY <1>2, <1>3, UnbridgeKeeps
<1>5. ScriptsAreChecked
  BY <1>3 DEF ScriptsAreChecked, Unbridge
<1>. QED
  BY <1>1, <1>4, <1>5

(* A step that leaves the ports, the bridges and the streams alone.         *)
LEMMA QuietKeeps ==
  ASSUME KeptInv, ConsoleTypeOK',
         UNCHANGED <<smVars, at, stream, sshSessions, webSessions, capturing, checking>>
  PROVE  [Next]_smVars /\ KeptInv' /\ ScriptsAreChecked
<1>1. IInv'
  BY StepInv DEF KeptInv, ConsoleInv
<1>2. sessions' = sessions /\ Attached' = Attached /\ Waiting' = Waiting
  BY DEF smVars, Attached, Waiting
<1>3. KeptInv'
  BY <1>1, <1>2 DEF KeptInv, ConsoleInv, HoldersAreAtPort, SessionListIsTrue, CaptureFollowsSession
<1>4. ScriptsAreChecked
  BY <1>2 DEF ScriptsAreChecked
<1>. QED
  BY <1>3, <1>4

-----------------------------------------------------------------------------
(* What an SSH client does.                                                 *)
LEMMA SshKeeps ==
  ASSUME KeptInv, NEW s \in Sessions, SshNext(s)
  PROVE  [Next]_smVars /\ KeptInv' /\ ScriptsAreChecked
<1>1. ConsoleTypeOK /\ IInv /\ HoldersAreAtPort /\ SessionListIsTrue /\ CaptureFollowsSession
  BY DEF KeptInv, ConsoleInv
<1>2. CASE Authenticate(s) \/ HangUp(s)
  <2>1. ConsoleTypeOK'
    BY <1>1, <1>2 DEF Authenticate, HangUp, ConsoleTypeOK, smVars, TypeOK
  <2>. QED
    BY <1>2, <2>1, QuietKeeps DEF Authenticate, HangUp
<1>3. CASE startSession(s)
  <2>1. s \in Ssh /\ at[s] # "port" /\ sshSessions' = sshSessions \union {s}
        /\ UNCHANGED <<config, enabled, authed>>
    BY <1>1, <1>3 DEF startSession, ConsoleTypeOK
  <2>2. CASE s \in Dedicated /\ AssignedPort[s] \in Configured
    <3>1. AssignedPort[s] \in Ports /\ config[AssignedPort[s]] \in Modes
      BY <1>1, <2>2, KindsAssumption DEF Configured, ConsoleTypeOK
    <3>2. Connect(s, AssignedPort[s], config[AssignedPort[s]])
      BY <1>3, <2>2 DEF startSession
    <3>. QED
      BY <2>1, <3>1, <3>2, ConnectKeeps
  <2>3. CASE ~(s \in Dedicated /\ AssignedPort[s] \in Configured)
    BY <1>3, <2>1, <2>3, SettleKeeps DEF startSession
  <2>. QED
    BY <2>2, <2>3
<1>4. \A t \in Ssh : stream[t] = "up" => t \in sshSessions
  BY <1>1 DEF SessionListIsTrue
<1>5. CASE InvalidSelection(s)
  BY <1>4, <1>5, SettleKeeps DEF InvalidSelection
<1>6. CASE \E p \in Ports : SelectPort(s, p)
  <2>1. PICK p \in Ports : SelectPort(s, p)
    BY <1>6
  <2>2. shown[s][p] \in Modes
    BY <1>1, <2>1 DEF SelectPort, ConsoleTypeOK
  <2>. QED
    BY <1>4, <2>1, <2>2, ConnectKeeps DEF SelectPort
<1>7. CASE Quit(s)
  <2>1. /\ at' = [at EXCEPT ![s] = "ended"] /\ stream' = [stream EXCEPT ![s] = "closing"]
        /\ shown' = [shown EXCEPT ![s] = NoMenu] /\ at[s] = "menu"
        /\ UNCHANGED <<smVars, config, enabled, authed, sshSessions, webSessions, capturing, checking>>
    BY <1>7 DEF Quit
  <2>2. Attached' = Attached /\ Waiting' = Waiting /\ sessions' = sessions
    BY <2>1 DEF smVars, Attached, Waiting
  <2>3. s \notin Attached /\ s \notin Waiting /\ s \notin capturing
    BY <1>1, <2>1 DEF HoldersAreAtPort, CaptureFollowsSession
  <2>4. IInv'
    BY <1>1, <2>1, StepInv
  <2>5. ConsoleTypeOK'
    <3>1. NoMenu \in [Ports -> Modes \union {Deleted}]
      BY DEF NoMenu
    <3>. QED
      BY <1>1, <2>1, <2>4, <3>1 DEF ConsoleTypeOK, IInv
  <2>6. HoldersAreAtPort'
    BY <1>1, <2>1, <2>2, <2>3, AttachedOrWaiting DEF HoldersAreAtPort, ConsoleTypeOK
  <2>7. SessionListIsTrue'
    BY <1>1, <2>1, <2>2, OneKind DEF SessionListIsTrue, ConsoleTypeOK
  <2>8. CaptureFollowsSession'
    BY <1>1, <2>1, <2>2, <2>3, OneKind DEF CaptureFollowsSession, ConsoleTypeOK
  <2>9. ScriptsAreChecked
    BY <2>1, <2>2 DEF ScriptsAreChecked
  <2>. QED
    BY <2>1, <2>4, <2>5, <2>6, <2>7, <2>8, <2>9 DEF KeptInv, ConsoleInv
<1>8. CASE Detach(s)
  <2>1. {s} \intersect Waiting = {}
    BY <1>1, <1>8, AttachedOrWaiting DEF Detach
  <2>. QED
    BY <1>8, <2>1, ReleaseKeeps DEF Detach
<1>. QED
  BY <1>2, <1>3, <1>5, <1>6, <1>7, <1>8 DEF SshNext

(* What browsers, the hub and batch targets do.                             *)
LEMMA OtherKeeps ==
  ASSUME KeptInv, NEW s \in Sessions, OtherNext(s)
  PROVE  [Next]_smVars /\ KeptInv' /\ ScriptsAreChecked
<1>1. ConsoleTypeOK /\ IInv /\ HoldersAreAtPort /\ SessionListIsTrue /\ CaptureFollowsSession
  BY DEF KeptInv, ConsoleInv
<1>2. \A p \in Configured : p \in Ports /\ config[p] \in Modes
  BY <1>1 DEF Configured, ConsoleTypeOK
<1>3. ASSUME NEW p \in Ports, WebConnection(s, p) \/ openPortSession(s, p) \/ openLocalPort(s, p)
      PROVE  [Next]_smVars /\ KeptInv' /\ ScriptsAreChecked
  <2>1. s \notin Ssh /\ at[s] # "port" /\ UNCHANGED <<config, enabled, authed, sshSessions>>
    BY <1>3, OneKind DEF WebConnection, openPortSession, openLocalPort
  <2>2. \/ p \in Configured /\ Connect(s, p, config[p])
        \/ Settle(s)
    BY <1>3 DEF WebConnection, openPortSession, openLocalPort
  <2>3. CASE p \in Configured /\ Connect(s, p, config[p])
    BY <1>2, <2>1, <2>3, ConnectKeeps
  <2>4. CASE Settle(s)
    BY <2>1, <2>4, SettleKeeps
  <2>. QED
    BY <2>2, <2>3, <2>4
<1>4. CASE CheckCanWrite(s)
  <2>1. PICK p \in Ports :
          /\ s \in checking \intersect sessions[p]
          /\ IF canSessionWrite(s, p)
             THEN /\ checking' = checking \ {s}
                  /\ UNCHANGED <<smVars, at, stream, shown, webSessions, capturing>>
             ELSE ReleaseAll({s}) /\ Unbridge({s}, Live)
          /\ UNCHANGED <<config, enabled, authed, sshSessions>>
    BY <1>4 DEF CheckCanWrite
  <2>2. s \in Attached /\ {s} \intersect Waiting = {}
    BY <1>1, <2>1, AttachedOrWaiting
  <2>3. CASE ~canSessionWrite(s, p)
    BY <2>1, <2>2, <2>3, ReleaseKeeps
  <2>4. CASE canSessionWrite(s, p)
    <3>1. /\ checking' = checking \ {s}
          /\ UNCHANGED <<smVars, at, stream, shown, webSessions, capturing, config, enabled, authed, sshSessions>>
      BY <2>1, <2>4
    <3>2. sessions' = sessions /\ Attached' = Attached /\ Waiting' = Waiting
      BY <3>1 DEF smVars, Attached, Waiting
    <3>3. IInv'
      BY <1>1, <3>1, StepInv
    <3>4. ConsoleTypeOK'
      BY <1>1, <3>1, <3>3 DEF ConsoleTypeOK, IInv
    <3>5. KeptInv'
      BY <1>1, <3>1, <3>2, <3>3, <3>4
      DEF KeptInv, ConsoleInv, HoldersAreAtPort, SessionListIsTrue, CaptureFollowsSession
    <3>6. ScriptsAreChecked
      <4>1. \A q \in Ports : s \in sessions[q] => q = p
        BY <1>1, <2>1, AttachedOrWaiting
      <4>. QED
        BY <2>4, <3>1, <3>2, <4>1 DEF ScriptsAreChecked
    <3>. QED
      BY <3>1, <3>5, <3>6
  <2>. QED
    BY <2>3, <2>4
<1>5. CASE BatchDone(s)
  <2>1. {s} \intersect Waiting = {}
    BY <1>1, <1>5, AttachedOrWaiting DEF BatchDone
  <2>. QED
    BY <1>5, <2>1, ReleaseKeeps DEF BatchDone
<1>. QED
  BY <1>3, <1>4, <1>5 DEF OtherNext
(* The stream closes, or an administrator cuts it off.                      *)
LEMMA StreamKeeps ==
  ASSUME KeptInv, NEW s \in Sessions, StreamClosed(s) \/ kickSession(s)
  PROVE  [Next]_smVars /\ KeptInv' /\ ScriptsAreChecked
<1>1. ConsoleTypeOK /\ IInv /\ HoldersAreAtPort /\ SessionListIsTrue /\ CaptureFollowsSession
  BY DEF KeptInv, ConsoleInv
<1>2. CASE kickSession(s)
  <2>1. /\ stream' = [stream EXCEPT ![s] = "closing"]
        /\ UNCHANGED <<smVars, config, enabled, authed, at, shown, sshSessions, webSessions, capturing, checking>>
    BY <1>2 DEF kickSession
  <2>2. sessions' = sessions /\ Attached' = Attached /\ Waiting' = Waiting
    BY <2>1 DEF smVars, Attached, Waiting
  <2>3. IInv'
    BY <1>1, <2>1, StepInv
  <2>4. ConsoleTypeOK'
    BY <1>1, <2>1, <2>3 DEF ConsoleTypeOK, IInv
  <2>5. SessionListIsTrue'
    BY <1>1, <2>1, <2>2, OneKind DEF SessionListIsTrue, ConsoleTypeOK
  <2>6. KeptInv'
    BY <1>1, <2>1, <2>2, <2>3, <2>4, <2>5 DEF KeptInv, ConsoleInv, HoldersAreAtPort, CaptureFollowsSession
  <2>7. ScriptsAreChecked
    BY <2>1, <2>2 DEF ScriptsAreChecked
  <2>. QED
    BY <2>1, <2>6, <2>7
<1>3. CASE StreamClosed(s)
  <2>1. /\ stream' = [stream EXCEPT ![s] = "down"] /\ sshSessions' = sshSessions \ {s}
        /\ UNCHANGED <<config, enabled, authed, checking>>
    BY <1>3 DEF StreamClosed
  <2>2. CASE s \in Waiting
    <3>1. UNCHANGED <<smVars, at, shown, webSessions, capturing>>
      BY <1>3, <2>2 DEF StreamClosed
    <3>2. sessions' = sessions /\ Attached' = Attached /\ Waiting' = Waiting
      BY <3>1 DEF smVars, Attached, Waiting
    <3>3. IInv'
      BY <1>1, <3>1, StepInv
    <3>4. ConsoleTypeOK'
      BY <1>1, <2>1, <3>1, <3>3 DEF ConsoleTypeOK, IInv
    <3>5. SessionListIsTrue'
      BY <1>1, <2>1, <3>1, <3>2, OneKind DEF SessionListIsTrue, ConsoleTypeOK
    <3>6. KeptInv'
      BY <1>1, <2>1, <3>1, <3>2, <3>3, <3>4, <3>5
      DEF KeptInv, ConsoleInv, HoldersAreAtPort, CaptureFollowsSession
    <3>7. ScriptsAreChecked
      BY <2>1, <3>2 DEF ScriptsAreChecked
    <3>. QED
      BY <3>1, <3>6, <3>7
  <2>3. CASE s \notin Waiting
    <3>1. /\ ReleaseAll({s}) /\ at' = [at EXCEPT ![s] = "away"] /\ shown' = [shown EXCEPT ![s] = NoMenu]
          /\ webSessions' = webSessions \ {s} /\ capturing' = capturing \ {s}
      BY <1>3, <2>3 DEF StreamClosed
    <3>2. Next
      BY <3>1 DEF Next
    <3>3. IInv'
      BY <1>1, <3>2, StepInv
    <3>4. /\ \A p \in Ports : sessions'[p] = sessions[p] \ {s} /\ waiting'[p] = waiting[p]
          /\ Attached' = Attached \ {s} /\ Waiting' = Waiting
      <4>1. \A p \in Ports : sessions'[p] = sessions[p] \ {s} /\ waiting'[p] = waiting[p]
        BY <3>1 DEF ReleaseAll
      <4>. QED
        BY <4>1 DEF Attached, Waiting
    <3>5. ConsoleTypeOK'
      <4>1. NoMenu \in [Ports -> Modes \union {Deleted}]
        BY DEF NoMenu
      <4>. QED
        BY <1>1, <2>1, <3>1, <3>3, <4>1 DEF ConsoleTypeOK, IInv
    <3>6. HoldersAreAtPort'
      BY <1>1, <2>3, <3>1, <3>4, AttachedOrWaiting DEF HoldersAreAtPort, ConsoleTypeOK
    <3>7. SessionListIsTrue'
      BY <1>1, <2>1, <3>1, <3>4, OneKind DEF SessionListIsTrue, ConsoleTypeOK
    <3>8. CaptureFollowsSession'
      <4>1. \A t \in capturing' : at'[t] = "port" /\ t \notin Waiting'
        BY <1>1, <3>1, <3>4, OneKind DEF CaptureFollowsSession, ConsoleTypeOK
      <4>2. \A p \in CapturedPorts : sessions'[p] \intersect Consoles \subseteq capturing'
        BY <1>1, <3>1, <3>4, KindsAssumption DEF CaptureFollowsSession
      <4>. QED
        BY <4>1, <4>2 DEF CaptureFollowsSession
    <3>9. ScriptsAreChecked
      BY <2>1, <3>4 DEF ScriptsAreChecked
    <3>. QED
      BY <3>2, <3>3, <3>5, <3>6, <3>7, <3>8, <3>9 DEF KeptInv, ConsoleInv
  <2>. QED
    BY <2>2, <2>3
<1>. QED
  BY <1>2, <1>3

(* The device of a port answers, or goes.                                   *)
LEMMA DeviceKeeps ==
  ASSUME KeptInv, NEW p \in Ports, Opened(p) \/ Failed(p) \/ Gone(p)
  PROVE  [Next]_smVars /\ KeptInv' /\ ScriptsAreChecked
<1>1. ConsoleTypeOK /\ IInv /\ HoldersAreAtPort /\ SessionListIsTrue /\ CaptureFollowsSession
  BY DEF KeptInv, ConsoleInv
<1>2. waiting[p] \in SUBSET Sessions /\ sessions[p] \in SUBSET Sessions
  BY <1>1 DEF IInv, TypeOK
<1>3. CASE Opened(p)
  <2>1. /\ DeviceOpened(p) /\ Bridge(waiting[p], p)
        /\ UNCHANGED <<config, enabled, authed, at, stream, shown, sshSessions>>
    BY <1>3 DEF Opened
  <2>2. Next
    BY <2>1 DEF Next
  <2>3. IInv'
    BY <1>1, <2>2, StepInv
  <2>4. /\ \A q \in Ports \ {p} : sessions'[q] = sessions[q] /\ waiting'[q] = waiting[q]
        /\ sessions'[p] = waiting[p] /\ waiting'[p] = {} /\ sessions[p] = {}
        /\ waiting[p] \subseteq Waiting
    BY <1>1, <2>1, OpeningMoves, AttachedOrWaiting DEF DeviceOpened, IInv, EntryMatchesHolders
  <2>5. /\ Attached' = Attached \union waiting[p] /\ Waiting' \subseteq Waiting
    BY <2>4 DEF Attached, Waiting
  <2>6. Waiting' \intersect waiting[p] = {}
    <3>1. Attached' \intersect Waiting' = {}
      <4>1. \A q \in Ports : sessions'[q] = {} \/ waiting'[q] = {}
        BY <2>3 DEF IInv, TypeOK, EntryMatchesHolders
      <4>2. \A q, r \in Ports : q # r => sessions'[q] \intersect waiting'[r] = {}
        BY <2>3 DEF IInv, OnePortPerSession, Members
      <4>. QED
        BY <4>1, <4>2 DEF Attached, Waiting
    <3>. QED
      BY <3>1, <2>5
  <2>7. /\ webSessions' = webSessions \union (waiting[p] \intersect Web)
        /\ checking' = checking \union (waiting[p] \intersect Batch)
        /\ capturing \subseteq capturing' /\ capturing' \subseteq capturing \union (waiting[p] \intersect Consoles)
        /\ p \in CapturedPorts => waiting[p] \intersect Consoles \subseteq capturing'
    BY <2>1 DEF Bridge, startCapture
  <2>8. ConsoleTypeOK'
    BY <1>1, <2>1, <2>3, <2>7 DEF ConsoleTypeOK, IInv
  <2>9. HoldersAreAtPort'
    BY <1>1, <2>1, <2>4, <2>5 DEF HoldersAreAtPort
  <2>10. SessionListIsTrue'
    BY <1>1, <2>1, <2>5, <2>7 DEF SessionListIsTrue
  <2>11. CaptureFollowsSession'
    <3>1. \A t \in capturing' : at'[t] = "port" /\ t \notin Waiting'
      BY <1>1, <2>1, <2>4, <2>5, <2>6, <2>7 DEF CaptureFollowsSession, HoldersAreAtPort
    <3>2. \A q \in CapturedPorts : sessions'[q] \intersect Consoles \subseteq capturing'
      BY <1>1, <2>4, <2>7, KindsAssumption DEF CaptureFollowsSession
    <3>. QED
      BY <3>1, <3>2 DEF CaptureFollowsSession
  <2>12. ScriptsAreChecked
    <3>. SUFFICES ASSUME NEW q \in Ports, NEW t \in sessions'[q], t \in Batch, t \notin checking'
                  PROVE  t \in sessions[q] /\ (t \in checking => canSessionWrite(t, q))
      BY DEF ScriptsAreChecked
    <3>1. t \in sessions[q] /\ t \notin checking
      BY <2>4, <2>7
    <3>. QED
      BY <3>1
  <2>. QED
    BY <2>2, <2>3, <2>8, <2>9, <2>10, <2>11, <2>12 DEF KeptInv, ConsoleInv
<1>4. CASE Failed(p)
  <2>1. /\ DeviceFailed(p) /\ Unbridge(waiting[p], Live)
        /\ UNCHANGED <<config, enabled, authed, sshSessions>>
    BY <1>4 DEF Failed
  <2>2. Next
    BY <2>1 DEF Next
  <2>3. IInv'
    BY <1>1, <2>2, StepInv
  <2>4. \A q \in Ports : /\ sessions'[q] = sessions[q] \ waiting[p]
                         /\ waiting'[q] = waiting[q] \ waiting[p]
    BY <1>1, <2>1, FailureMoves
  <2>5. KeptInv'
    BY <1>2, <2>1, <2>3, <2>4, UnbridgeKeeps
  <2>6. ScriptsAreChecked
    BY <2>1, <2>4 DEF ScriptsAreChecked, Unbridge
  <2>. QED
    BY <2>2, <2>5, <2>6
<1>5. CASE Gone(p)
  <2>1. sessions[p] \intersect Waiting = {}
    BY <1>1, AttachedOrWaiting
  <2>. QED
    BY <1>2, <1>5, <2>1, ReleaseKeeps DEF Gone, DeviceGone
<1>. QED
  BY <1>3, <1>4, <1>5

(* What an administrator does to ports and switches.                        *)
LEMMA AdminKeeps ==
  ASSUME KeptInv,
         \/ \E p \in Ports, mode \in Modes \union {Deleted} : EditPort(p, mode)
         \/ startSsh \/ stopSsh \/ SwitchWeb
  PROVE  [Next]_smVars /\ KeptInv' /\ ScriptsAreChecked
<1>1. ConsoleTypeOK /\ IInv /\ HoldersAreAtPort /\ SessionListIsTrue /\ CaptureFollowsSession
  BY DEF KeptInv, ConsoleInv
<1>2. CASE stopSsh
  <2>1. /\ ReleaseAll(sshSessions) /\ sshSessions' = {} /\ enabled' = enabled \ {"ssh"}
        /\ stream' = [s \in Sessions |-> IF s \in sshSessions THEN "closing" ELSE stream[s]]
        /\ UNCHANGED <<config, authed, at, shown, webSessions, capturing, checking>>
    BY <1>2 DEF stopSsh
  <2>2. sshSessions \in SUBSET Sessions
    BY <1>1, OneKind DEF ConsoleTypeOK
  <2>3. Next
    BY <2>1, <2>2 DEF Next
  <2>4. IInv'
    BY <1>1, <2>3, StepInv
  <2>5. /\ \A p \in Ports : sessions'[p] = sessions[p] \ sshSessions /\ waiting'[p] = waiting[p]
        /\ Attached' = Attached \ sshSessions /\ Waiting' = Waiting
    <3>1. \A p \in Ports : sessions'[p] = sessions[p] \ sshSessions /\ waiting'[p] = waiting[p]
      BY <2>1 DEF ReleaseAll
    <3>. QED
      BY <3>1 DEF Attached, Waiting
  <2>6. ConsoleTypeOK'
    <3>1. stream' \in [Sessions -> {"up", "closing", "down"}]
      BY <1>1, <2>1 DEF ConsoleTypeOK
    <3>. QED
      BY <1>1, <2>1, <2>4, <3>1 DEF ConsoleTypeOK, IInv
  <2>7. HoldersAreAtPort'
    BY <1>1, <2>1, <2>5 DEF HoldersAreAtPort
  <2>8. SessionListIsTrue'
    BY <1>1, <2>1, <2>5, OneKind DEF SessionListIsTrue, ConsoleTypeOK
  <2>9. CaptureFollowsSession'
    BY <1>1, <2>1, <2>5, KindsAssumption DEF CaptureFollowsSession
  <2>10. ScriptsAreChecked
    BY <2>1, <2>5 DEF ScriptsAreChecked
  <2>. QED
    BY <2>3, <2>4, <2>6, <2>7, <2>8, <2>9, <2>10 DEF KeptInv, ConsoleInv
<1>3. CASE \/ \E p \in Ports, mode \in Modes \union {Deleted} : EditPort(p, mode)
           \/ startSsh \/ SwitchWeb
  <2>1. UNCHANGED <<smVars, authed, at, stream, shown, sshSessions, webSessions, capturing, checking>>
    BY <1>3 DEF EditPort, startSsh, SwitchWeb
  <2>2. config' \in [Ports -> Modes \union {Deleted}] /\ enabled' \subseteq {"ssh", "web"}
    <3>1. config \in [Ports -> Modes \union {Deleted}] /\ enabled \subseteq {"ssh", "web"}
      BY <1>1 DEF ConsoleTypeOK
    <3>2. CASE \E p \in Ports, mode \in Modes \union {Deleted} : EditPort(p, mode)
      BY <3>1, <3>2 DEF EditPort
    <3>3. CASE startSsh \/ SwitchWeb
      BY <3>1, <3>3 DEF startSsh, SwitchWeb
    <3>. QED
      BY <1>3, <3>2, <3>3
  <2>3. ConsoleTypeOK'
    BY <1>1, <2>1, <2>2 DEF ConsoleTypeOK, smVars, TypeOK
  <2>. QED
    BY <2>1, <2>3, QuietKeeps
<1>. QED
  BY <1>2, <1>3

-----------------------------------------------------------------------------
(* A console step is a step of the manager, keeps the invariant, and checks *)
(* the scripts it attaches.                                                 *)
LEMMA ConsolesStep ==
  KeptInv /\ [ConsoleNext]_vars => [Next]_smVars /\ KeptInv' /\ ScriptsAreChecked
<1>. SUFFICES ASSUME KeptInv, [ConsoleNext]_vars
              PROVE  [Next]_smVars /\ KeptInv' /\ ScriptsAreChecked
  OBVIOUS
<1>1. CASE UNCHANGED vars
  <2>1. UNCHANGED <<smVars, config, enabled, authed, at, stream, shown, sshSessions, webSessions, capturing, checking>>
    BY <1>1 DEF vars, consoleVars
  <2>2. ConsoleTypeOK'
    BY <2>1 DEF KeptInv, ConsoleInv, ConsoleTypeOK, smVars, TypeOK
  <2>. QED
    BY <2>1, <2>2, QuietKeeps
<1>2. CASE ConsoleNext
  BY <1>2, SshKeeps, OtherKeeps, StreamKeeps, DeviceKeeps, AdminKeeps DEF ConsoleNext
<1>. QED
  BY <1>1, <1>2

(* Nobody is there at the start.                                            *)
LEMMA ConsoleInitInv == ConsoleInit => Init /\ KeptInv /\ BatchCanType
<1>. SUFFICES ASSUME ConsoleInit PROVE KeptInv /\ BatchCanType
  BY DEF ConsoleInit
<1>1. IInv /\ Attached = {} /\ Waiting = {} /\ \A p \in Ports : sessions[p] = {}
  BY InitInv DEF ConsoleInit, Init, Attached, Waiting
<1>2. ConsoleTypeOK
  <2>1. NoMenu \in [Ports -> Modes \union {Deleted}]
    BY DEF NoMenu
  <2>. QED
    BY <1>1, <2>1 DEF ConsoleInit, ConsoleTypeOK, IInv
<1>. QED
  BY <1>1, <1>2, OneKind, KindsAssumption
  DEF ConsoleInit, KeptInv, ConsoleInv, HoldersAreAtPort, SessionListIsTrue, CaptureFollowsSession, BatchCanType

(* A script that may type on its port may type on: it was checked when it   *)
(* came, and the manager takes the keyboard from nobody.                    *)
LEMMA ScriptsKeepTyping ==
  KeptInv /\ BatchCanType /\ [ConsoleNext]_vars => BatchCanType'
<1>. SUFFICES ASSUME KeptInv, BatchCanType, [ConsoleNext]_vars,
                     NEW p \in Ports, NEW s \in sessions'[p], s \in Batch, s \notin checking'
              PROVE  canSessionWrite(s, p)'
  BY DEF BatchCanType
<1>1. IInv /\ [Next]_smVars /\ ScriptsAreChecked
  BY ConsolesStep DEF KeptInv, ConsoleInv
<1>2. s \in sessions[p] /\ canSessionWrite(s, p)
  BY <1>1 DEF ScriptsAreChecked, BatchCanType
<1>3. CASE UNCHANGED smVars
  BY <1>2, <1>3 DEF smVars, canSessionWrite, IsOldest
<1>4. CASE NobodyCutsIn
  BY <1>2, <1>4 DEF NobodyCutsIn
<1>. QED
  BY <1>1, <1>3, <1>4, StepKeepsKeyboard

(* The consoles' invariant: types, a manager in order, holders where their  *)
(* handlers say, and a Sessions tab that is true.                           *)
LEMMA KeptAlways == ConsoleSpec => []KeptInv
BY ConsoleInitInv, ConsolesStep, PTL DEF ConsoleSpec

THEOREM ConsolesStayInOrder == ConsoleSpec => []ConsoleInv
<1>1. KeptInv => ConsoleInv
  BY DEF KeptInv
<1>. QED
  BY <1>1, KeptAlways, PTL

(* No capture file outlives its session's port, and none is missing for a   *)
(* console on a captured port.                                              *)
THEOREM CapturesFollow == ConsoleSpec => []CaptureFollowsSession
<1>1. KeptInv => CaptureFollowsSession
  BY DEF KeptInv
<1>. QED
  BY <1>1, KeptAlways, PTL

(* All four ways onto a port use the serial manager as it allows, so that   *)
(* everything proved of the manager holds of the whole console.             *)
THEOREM ConsolesUseTheManager == ConsoleSpec => ImplementsManager
BY KeptAlways, ConsoleInitInv, ConsolesStep, PTL DEF ConsoleSpec, Spec, ImplementsManager

(* A script can type into the port it was given for as long as it has it.   *)
THEOREM ScriptsCanType == ConsoleSpec => []BatchCanType
BY KeptAlways, ConsoleInitInv, ScriptsKeepTyping, PTL DEF ConsoleSpec

(* Of the sessions of all kinds on a port, at most one can type unless one  *)
(* of two asked for shared-rw; on a first-write port one always can, and it *)
(* keeps the keyboard until it goes.                                        *)
THEOREM ConsolesShareFairly ==
  ConsoleSpec => [](OnlySharedRwShares /\ FirstWriteHasOneWriter) /\ KeyboardIsKept
BY ConsolesUseTheManager, OneTypist, KeyboardIsNeverLost, NobodyTakesTheKeyboard, PTL
DEF ImplementsManager

-----------------------------------------------------------------------------
\* BaudDetect and HubChannels.  The detections leave the manager's invariant
\* alone; whatever the channels do, they agree with their detections.

SharedInv == IInv /\ BaudInv

(* Nobody has a device, and no detection has been called.                   *)
LEMMA BaudStarts == BaudInit => SharedInv
<1>. SUFFICES ASSUME BaudInit PROVE SharedInv
  OBVIOUS
<1>1. IInv
  BY InitInv DEF BaudInit
<1>2. (CHOOSE p \in Ports : TRUE) \in Ports
  BY CallersAssumption
<1>3. BaudTypeOK
  BY <1>2, CallersAssumption DEF BaudInit, BaudTypeOK, Over
<1>4. OneDetectionEach
  BY DEF BaudInit, OneDetectionEach, Detects, Running
<1>5. DeviceIsAccountedFor
  BY CallersAssumption DEF BaudInit, Init, DeviceIsAccountedFor, Manager, Closing, Free
<1>. QED
  BY <1>1, <1>3, <1>4, <1>5 DEF SharedInv, BaudInv

-----------------------------------------------------------------------------
(* Steps of the manager.                                                    *)

(* An entry is opened by the device's answer alone; the release that closes *)
(* a port is one of a port that was open.                                   *)
LEMMA OpenCallKeepsOpen ==
  ASSUME IInv, NEW s \in Sessions, NEW p \in Ports, NEW mode, OpenCall(s, p, mode), NEW q \in Ports
  PROVE  entry'[q] = "open" <=> entry[q] = "open"
BY DEF IInv, TypeOK, OpenCall, OpenRefused, OpenDevice, AwaitDevice, JoinOpenPort, smVars

LEMMA ReleaseCloses ==
  ASSUME IInv, NEW S \in SUBSET Sessions, ReleaseAll(S), NEW q \in Ports
  PROVE  IF Closes(q, S) THEN entry[q] = "open" /\ entry'[q] = "none" ELSE entry'[q] = entry[q]
BY DEF IInv, EntryMatchesHolders, TypeOK, ReleaseAll, Closes

(* A device that goes closes its own port and no other.                     *)
LEMMA GoneCloses ==
  ASSUME IInv, NEW p \in Ports, DeviceGone(p), NEW q \in Ports
  PROVE  entry'[q] = IF q = p THEN "none" ELSE entry[q]
<1>1. /\ sessions[p] \in SUBSET Sessions /\ sessions[p] # {} /\ entry[p] = "open"
      /\ ReleaseAll(sessions[p])
  BY DEF IInv, TypeOK, EntryMatchesHolders, DeviceGone
<1>2. CASE q = p
  <2>1. sessions[p] \intersect sessions[p] = sessions[p]
    OBVIOUS
  <2>2. refCount[p] = Cardinality(sessions[p]) /\ Cardinality(sessions[p]) \in Nat
    BY <1>1, FiniteSessions DEF IInv, RefCountMatches
  <2>3. Closes(p, sessions[p])
    BY <1>1, <2>1, <2>2 DEF Closes, Left
  <2>. QED
    BY <1>1, <1>2, <2>3 DEF ReleaseAll
<1>3. CASE q # p
  <2>1. sessions[q] \intersect sessions[p] = {}
    BY <1>3 DEF IInv, OnePortPerSession, Members
  <2>2. ~Closes(q, sessions[p])
    BY <2>1 DEF Closes
  <2>. QED
    BY <1>1, <1>3, <2>2 DEF ReleaseAll
<1>. QED
  BY <1>2, <1>3

(* What the manager's steps must show: detections are where they were.      *)
LEMMA DevicesKeep ==
  ASSUME BaudInv, UNCHANGED detectVars, faults' \in 0..MaxFaults,
         device' \in [Ports -> {Manager, Closing, Free} \union Callers],
         \A p \in Ports : device'[p] = Manager <=> entry'[p] = "open",
         \A p \in Ports, x \in Callers : device'[p] = x <=> device[p] = x
  PROVE  BaudInv'
<1>1. BaudTypeOK'
  BY DEF BaudInv, BaudTypeOK, detectVars
<1>2. OneDetectionEach'
  BY DEF BaudInv, OneDetectionEach, Detects, detectVars
<1>3. DeviceIsAccountedFor'
  BY DEF BaudInv, DeviceIsAccountedFor, detectVars
<1>. QED
  BY <1>1, <1>2, <1>3 DEF BaudInv

(* Opens, answers, releases, devices that go and closes that end.           *)
LEMMA ManagerKeeps ==
  ASSUME SharedInv, ManagerStep
  PROVE  SharedInv'
<1>. USE CallersAssumption DEF Manager, Closing, Free
<1>0. /\ IInv /\ BaudInv /\ BaudTypeOK /\ OneDetectionEach /\ DeviceIsAccountedFor
      /\ device \in [Ports -> {Manager, Closing, Free} \union Callers]
      /\ faults \in 0..MaxFaults
      /\ \A p \in Ports : device[p] = Manager <=> entry[p] = "open"
  BY DEF SharedInv, BaudInv, BaudTypeOK, DeviceIsAccountedFor
<1>1. ASSUME NEW s \in Sessions, NEW p \in Ports, NEW mode \in Modes, SessionOpens(s, p, mode)
      PROVE  SharedInv'
  <2>1. Idle(s) /\ OpenCall(s, p, mode) /\ UNCHANGED <<device, detectVars, faults>>
    BY <1>1 DEF SessionOpens
  <2>2. [Next]_smVars
    BY <2>1 DEF Next
  <2>3. BaudInv'
    BY <1>0, <2>1, OpenCallKeepsOpen, DevicesKeep
  <2>. QED
    BY <1>0, <2>2, <2>3, StepInv DEF SharedInv
<1>2. ASSUME NEW S \in SUBSET Sessions, SessionsRelease(S)
      PROVE  SharedInv'
  <2>1. ReleaseAll(S) /\ UNCHANGED <<detectVars, faults>>
    BY <1>2 DEF SessionsRelease
  <2>2. [Next]_smVars
    BY <2>1 DEF Next
  <2>3. \A q \in Ports : IF Closes(q, S) THEN entry[q] = "open" /\ entry'[q] = "none"
                                         ELSE entry'[q] = entry[q]
    BY <1>0, <2>1, ReleaseCloses
  <2>4. \A q \in Ports : device'[q] = IF Closes(q, S) THEN Closing ELSE device[q]
    BY <1>2 DEF SessionsRelease
  <2>5. device' \in [Ports -> {Manager, Closing, Free} \union Callers]
    BY <1>0, <1>2 DEF SessionsRelease
  <2>6. \A q \in Ports : device'[q] = Manager <=> entry'[q] = "open"
    BY <1>0, <2>3, <2>4
  <2>7. \A q \in Ports, x \in Callers : device'[q] = x <=> device[q] = x
    BY <1>0, <2>3, <2>4
  <2>8. BaudInv'
    BY <1>0, <2>1, <2>5, <2>6, <2>7, DevicesKeep
  <2>. QED
    BY <1>0, <2>2, <2>8, StepInv DEF SharedInv
<1>3. ASSUME NEW p \in Ports, PortOpens(p)
      PROVE  SharedInv'
  <2>1. /\ DeviceOpened(p) /\ device[p] = Free /\ device' = [device EXCEPT ![p] = Manager]
        /\ UNCHANGED <<detectVars, faults>>
    BY <1>3 DEF PortOpens
  <2>2. [Next]_smVars
    BY <2>1 DEF Next
  <2>3. \A q \in Ports : entry'[q] = IF q = p THEN "open" ELSE entry[q]
    BY <1>0, <2>1 DEF DeviceOpened, IInv, TypeOK
  <2>4. BaudInv'
    BY <1>0, <2>1, <2>3, DevicesKeep
  <2>. QED
    BY <1>0, <2>2, <2>4, StepInv DEF SharedInv
<1>4. ASSUME NEW p \in Ports, PortRefuses(p)
      PROVE  SharedInv'
  <2>1. DeviceFailed(p) /\ UNCHANGED <<device, detectVars>> /\ faults' \in 0..MaxFaults
    BY <1>0, <1>4 DEF PortRefuses, Fault
  <2>2. [Next]_smVars
    BY <2>1 DEF Next
  <2>3. entry[p] = "opening" /\ \A q \in Ports : entry'[q] = IF q = p THEN "none" ELSE entry[q]
    BY <1>0, <2>1 DEF DeviceFailed, IInv, TypeOK
  <2>4. BaudInv'
    BY <1>0, <2>1, <2>3, DevicesKeep
  <2>. QED
    BY <1>0, <2>2, <2>4, StepInv DEF SharedInv
<1>5. ASSUME NEW p \in Ports, PortGone(p)
      PROVE  SharedInv'
  <2>0. faults' \in 0..MaxFaults
    BY <1>0, <1>5 DEF PortGone, Fault
  <2>1. /\ DeviceGone(p) /\ UNCHANGED detectVars
        /\ \E d \in {Free, Closing} : device' = [device EXCEPT ![p] = d]
    BY <1>5 DEF PortGone
  <2>2. [Next]_smVars
    BY <2>1 DEF Next
  <2>3. entry[p] = "open" /\ \A q \in Ports : entry'[q] = IF q = p THEN "none" ELSE entry[q]
    BY <1>0, <2>1, GoneCloses DEF DeviceGone
  <2>4. BaudInv'
    BY <1>0, <2>0, <2>1, <2>3, DevicesKeep
  <2>. QED
    BY <1>0, <2>2, <2>4, StepInv DEF SharedInv
<1>6. ASSUME NEW p \in Ports, PortClosed(p)
      PROVE  SharedInv'
  <2>1. /\ device[p] = Closing /\ device' = [device EXCEPT ![p] = Free]
        /\ UNCHANGED <<smVars, detectVars, faults>>
    BY <1>6 DEF PortClosed
  <2>2. [Next]_smVars /\ entry' = entry
    BY <2>1 DEF smVars
  <2>3. BaudInv'
    BY <1>0, <2>1, <2>2, DevicesKeep
  <2>. QED
    BY <1>0, <2>2, <2>3, StepInv DEF SharedInv
<1>. QED
  BY <1>1, <1>2, <1>3, <1>4, <1>5, <1>6 DEF ManagerStep, Answers

-----------------------------------------------------------------------------
(* Steps of the detections.                                                 *)

CallType == [at : Over \union {"listing"} \union Running, port : Ports, left : 1..PROBES]

(* Of another detection's call the record of x changes nothing; what the    *)
(* device and inProgress must show is what this one is about to hold.       *)
LEMMA CallMoves ==
  ASSUME BaudInv, entry' = entry, NEW x \in Callers, NEW r \in CallType,
         call' = [call EXCEPT ![x] = r],
         r.port = call[x].port \/ {call[x].at, r.at} \intersect Running = {},
         r.at \in Running => /\ inProgress' = inProgress \union {r.port}
                             /\ call[x].at \in Running \/ r.port \notin inProgress,
         r.at \notin Running =>
           inProgress' = IF call[x].at \in Running THEN inProgress \ {r.port} ELSE inProgress,
         device' = device \/ \E d, e \in {Free, x} :
                               device[r.port] = d /\ device' = [device EXCEPT ![r.port] = e],
         device'[r.port] = x => r.at \in {"dwelling", "closing", "failing"},
         r.at \in {"closing", "failing"} => device'[r.port] = x,
         faults' \in 0..MaxFaults
  PROVE  BaudInv'
<1>. USE CallersAssumption DEF Manager, Closing, Free
<1>. DEFINE p == call[x].port
<1>0. /\ BaudTypeOK /\ OneDetectionEach /\ DeviceIsAccountedFor
      /\ call[x] \in CallType /\ p \in Ports /\ r.port \in Ports
  BY DEF BaudInv, BaudTypeOK, CallType
<1>1. BaudTypeOK'
  <2>1. device' \in [Ports -> {Manager, Closing, Free} \union Callers]
    BY <1>0 DEF BaudTypeOK
  <2>2. inProgress' \in SUBSET Ports
    BY <1>0 DEF BaudTypeOK
  <2>3. call' \in [Callers -> CallType]
    BY <1>0 DEF BaudTypeOK, CallType
  <2>. QED
    BY <2>1, <2>2, <2>3 DEF BaudTypeOK, CallType
<1>2. /\ call'[x] = r /\ \A y \in Callers \ {x} : call'[y] = call[y]
      /\ call \in [Callers -> CallType]
  BY <1>0 DEF BaudTypeOK, CallType
<1>3. OneDetectionEach'
  <2>1. \A q \in Ports \ {r.port} : Detects(q)' = Detects(q)
    BY <1>0, <1>2 DEF Detects
  <2>2. ASSUME r.at \in Running
        PROVE  Detects(r.port)' = {x}
    BY <1>0, <1>2, <2>2 DEF Detects, OneDetectionEach
  <2>3. ASSUME r.at \notin Running
        PROVE  Detects(r.port)' = IF call[x].at \in Running THEN {} ELSE Detects(r.port)
    BY <1>0, <1>2, <2>3 DEF Detects, OneDetectionEach
  <2>4. CASE r.at \in Running
    BY <1>0, <2>1, <2>2, <2>4 DEF OneDetectionEach
  <2>5. CASE r.at \notin Running /\ call[x].at \in Running
    BY <1>0, <2>1, <2>3, <2>5 DEF OneDetectionEach
  <2>6. CASE r.at \notin Running /\ call[x].at \notin Running
    BY <1>0, <2>1, <2>3, <2>6 DEF OneDetectionEach
  <2>. QED
    BY <2>4, <2>5, <2>6
<1>4. DeviceIsAccountedFor'
  <2>1. \A q \in Ports \ {r.port} : device'[q] = device[q] /\ device[q] # x
    <3>1. \A q \in Ports \ {r.port} : device'[q] = device[q]
      BY <1>0 DEF BaudTypeOK
    <3>2. \A q \in Ports : device[q] = x => p = q /\ call[x].at \in Running
      BY <1>0 DEF DeviceIsAccountedFor, Running
    <3>. QED
      BY <3>1, <3>2
  <2>2. \/ device'[r.port] = device[r.port]
        \/ device[r.port] \in {Free, x} /\ device'[r.port] \in {Free, x}
    BY <1>0 DEF BaudTypeOK
  <2>3. \A q \in Ports : device'[q] = Manager <=> entry'[q] = "open"
    BY <1>0, <2>1, <2>2 DEF DeviceIsAccountedFor
  <2>4. \A q \in Ports, y \in Callers \ {x} : device'[q] = y <=> device[q] = y
    BY <1>0, <2>1, <2>2
  <2>5. ASSUME NEW q \in Ports, NEW y \in Callers \ {x}
        PROVE  /\ device'[q] = y => call'[y].port = q /\ call'[y].at \in {"dwelling", "closing", "failing"}
               /\ call'[y].port = q /\ call'[y].at \in {"closing", "failing"} => device'[q] = y
    BY <1>0, <1>2, <2>4 DEF DeviceIsAccountedFor
  <2>6. ASSUME NEW q \in Ports
        PROVE  /\ device'[q] = x => r.port = q /\ r.at \in {"dwelling", "closing", "failing"}
               /\ r.port = q /\ r.at \in {"closing", "failing"} => device'[q] = x
    BY <2>1
  <2>. QED
    BY <1>2, <2>3, <2>5, <2>6 DEF DeviceIsAccountedFor
<1>. QED
  BY <1>1, <1>3, <1>4 DEF BaudInv

LEMMA DetectionKeeps ==
  ASSUME SharedInv, NEW x \in Callers,
         (\E q \in Ports : DetectCalled(x, q)) \/ Proceeds(x) \/ Disturbed(x)
  PROVE  SharedInv'
<1>. USE CallersAssumption
<1>. DEFINE p == call[x].port
<1>. DEFINE Becomes(to, left) == [call[x] EXCEPT !.at = to, !.left = left]
<1>0. /\ IInv /\ BaudInv /\ OneDetectionEach /\ DeviceIsAccountedFor
      /\ device \in [Ports -> {Manager, Closing, Free} \union Callers]
      /\ call \in [Callers -> CallType] /\ call[x] \in CallType
      /\ p \in Ports /\ faults \in 0..MaxFaults
  BY DEF SharedInv, BaudInv, BaudTypeOK, CallType
<1>1. UNCHANGED smVars /\ entry' = entry
  BY DEF DetectCalled, Proceeds, Disturbed, Listed, ProbeOpens, ProbeRefused, DwellEnds, ProbeClosed,
         ProbeFails, ProbeUnplugged, smVars
<1>2. IInv'
  BY <1>0, <1>1, StepInv
<1>3. faults' \in 0..MaxFaults
  BY <1>0 DEF DetectCalled, Proceeds, Disturbed, Listed, ProbeOpens, ProbeRefused, DwellEnds,
              ProbeClosed, ProbeFails, ProbeUnplugged, Fault
<1>4. call[x].at \in Running => p \in inProgress
  BY <1>0 DEF OneDetectionEach, Detects
<1>5. /\ device[p] = x => call[x].at \in {"dwelling", "closing", "failing"}
      /\ call[x].at \in {"closing", "failing"} => device[p] = x
      /\ \A q \in Ports : device[q] = x => q = p
  BY <1>0 DEF DeviceIsAccountedFor
<1>6. ASSUME NEW q \in Ports, DetectCalled(x, q)
      PROVE  BaudInv'
  <2>. DEFINE r == [call[x] EXCEPT !.at = "listing", !.port = q]
  <2>1. /\ r \in CallType /\ r.port = q /\ r.at = "listing" /\ call' = [call EXCEPT ![x] = r]
        /\ call[x].at = "idle" /\ UNCHANGED <<device, inProgress>>
    BY <1>0, <1>6 DEF DetectCalled, CallType
  <2>2. device'[q] # x
    BY <1>5, <2>1
  <2>. HIDE DEF r
  <2>. QED
    BY <1>0, <1>1, <1>3, <2>1, <2>2, CallMoves DEF Running
<1>7. ASSUME NEW to \in Over \union Running, NEW left \in 1..PROBES
      PROVE  Becomes(to, left) \in CallType /\ Becomes(to, left).port = p /\ Becomes(to, left).at = to
  BY <1>0, <1>7 DEF CallType
<1>8. call[x].left \in 1..PROBES
  BY <1>0 DEF CallType
<1>9. ASSUME NEW to, Moves(x, to)
      PROVE  call' = [call EXCEPT ![x] = Becomes(to, call[x].left)]
  BY <1>0, <1>9 DEF Moves, CallType
<1>. HIDE DEF Becomes
<1>10. ASSUME Listed(x) PROVE BaudInv'
  <2>1. call[x].at = "listing" /\ UNCHANGED device /\ device[p] # x
    BY <1>5, <1>10 DEF Listed
  <2>2. CASE Moves(x, "done") /\ UNCHANGED inProgress
    <3>. DEFINE r == Becomes("done", call[x].left)
    <3>1. r \in CallType /\ r.port = p /\ r.at = "done" /\ call' = [call EXCEPT ![x] = r]
      BY <1>7, <1>8, <1>9, <2>2 DEF Over
    <3>. HIDE DEF r
    <3>. QED
      BY <1>0, <1>1, <1>3, <2>1, <2>2, <3>1, CallMoves DEF Running
  <2>3. CASE p \notin inProgress /\ Moves(x, "opening") /\ inProgress' = inProgress \union {p}
    <3>. DEFINE r == Becomes("opening", call[x].left)
    <3>1. r \in CallType /\ r.port = p /\ r.at = "opening" /\ call' = [call EXCEPT ![x] = r]
      BY <1>7, <1>8, <1>9, <2>3 DEF Running
    <3>. HIDE DEF r
    <3>. QED
      BY <1>0, <1>1, <1>3, <2>1, <2>3, <3>1, CallMoves DEF Running
  <2>. QED
    BY <1>10, <2>2, <2>3 DEF Listed, Admits
<1>11. ASSUME ProbeOpens(x) PROVE BaudInv'
  <2>. DEFINE r == Becomes("dwelling", call[x].left)
  <2>1. r \in CallType /\ r.port = p /\ r.at = "dwelling" /\ call' = [call EXCEPT ![x] = r]
    BY <1>7, <1>8, <1>9, <1>11 DEF Running, ProbeOpens
  <2>2. /\ call[x].at = "opening" /\ inProgress' = inProgress
        /\ device[p] = Free /\ device' = [device EXCEPT ![p] = x]
    BY <1>11 DEF ProbeOpens
  <2>3. inProgress' = inProgress \union {p}
    BY <1>4, <2>2 DEF Running
  <2>. HIDE DEF r
  <2>. QED
    BY <1>0, <1>1, <1>3, <2>1, <2>2, <2>3, CallMoves DEF Running
\* However a detection ends, its device is no longer its own and inProgress forgets it.
<1>12. ASSUME Settles(x), call[x].at \in Running,
              \/ UNCHANGED device /\ device[p] # x
              \/ device[p] = x /\ device' = [device EXCEPT ![p] = Free]
       PROVE  BaudInv'
  <2>. DEFINE r == Becomes("done", call[x].left)
  <2>1. r \in CallType /\ r.port = p /\ r.at = "done" /\ call' = [call EXCEPT ![x] = r]
    BY <1>7, <1>8, <1>9, <1>12 DEF Over, Settles
  <2>2. inProgress' = inProgress \ {p}
    BY <1>12 DEF Settles
  <2>3. device'[p] # x
    BY <1>0, <1>12 DEF Free
  <2>. HIDE DEF r
  <2>. QED
    BY <1>0, <1>1, <1>3, <1>12, <2>1, <2>2, <2>3, CallMoves DEF Running
<1>13. ASSUME Probed(x), call[x].at \in Running,
              \/ UNCHANGED device /\ device[p] # x
              \/ device[p] = x /\ device' = [device EXCEPT ![p] = Free]
       PROVE  BaudInv'
  <2>1. CASE Settles(x)
    BY <1>12, <1>13, <2>1
  <2>2. CASE call[x].left > 1 /\ call' = [call EXCEPT ![x].at = "opening", ![x].left = @ - 1]
             /\ UNCHANGED inProgress
    <3>. DEFINE r == Becomes("opening", call[x].left - 1)
    <3>0. call[x].left - 1 \in 1..PROBES
      BY <1>8, <2>2
    <3>1. r \in CallType /\ r.port = p /\ r.at = "opening"
      BY <1>7, <3>0 DEF Running
    <3>2. call' = [call EXCEPT ![x] = r]
      BY <1>0, <2>2 DEF Becomes, CallType
    <3>3. inProgress' = inProgress \union {p}
      BY <1>4, <1>13, <2>2
    <3>4. device'[p] # x
      BY <1>0, <1>13 DEF Free
    <3>. HIDE DEF r
    <3>. QED
      BY <1>0, <1>1, <1>3, <1>13, <3>1, <3>2, <3>3, <3>4, CallMoves DEF Running
  <2>. QED
    BY <1>13, <2>1, <2>2 DEF Probed
<1>14. ASSUME ProbeRefused(x) PROVE BaudInv'
  BY <1>5, <1>12, <1>14 DEF ProbeRefused, Running
\* The port is closed, or failed and is closed: the device is still the detection's.
<1>15. ASSUME NEW to \in {"closing", "failing"}, Moves(x, to), call[x].at \in Running,
              device[p] = x, UNCHANGED <<device, inProgress>>
       PROVE  BaudInv'
  <2>. DEFINE r == Becomes(to, call[x].left)
  <2>1. r \in CallType /\ r.port = p /\ r.at = to /\ call' = [call EXCEPT ![x] = r]
    BY <1>7, <1>8, <1>9, <1>15 DEF Running
  <2>2. inProgress' = inProgress \union {p}
    BY <1>4, <1>15
  <2>. HIDE DEF r
  <2>. QED
    BY <1>0, <1>1, <1>3, <1>15, <2>1, <2>2, CallMoves DEF Running
<1>16. ASSUME DwellEnds(x) PROVE BaudInv'
  BY <1>13, <1>15, <1>16 DEF DwellEnds, Running
<1>17. ASSUME ProbeFails(x) PROVE BaudInv'
  BY <1>15, <1>17 DEF ProbeFails, Running
<1>18. ASSUME ProbeUnplugged(x) PROVE BaudInv'
  <2>1. /\ call' = [call EXCEPT ![x] = call[x]] /\ inProgress' = inProgress \union {p}
        /\ call[x].at = "dwelling" /\ device[p] = x /\ device' = [device EXCEPT ![p] = Free]
    BY <1>0, <1>4, <1>18 DEF ProbeUnplugged, detectVars, Running
  <2>2. device'[p] # x
    BY <1>0, <2>1 DEF Free
  <2>. QED
    BY <1>0, <1>1, <1>3, <2>1, <2>2, CallMoves DEF Running
<1>19. ASSUME ProbeClosed(x) PROVE BaudInv'
  BY <1>5, <1>12, <1>13, <1>19 DEF ProbeClosed, Running
<1>. QED
  BY <1>2, <1>6, <1>10, <1>11, <1>14, <1>16, <1>17, <1>18, <1>19 DEF SharedInv, Proceeds, Disturbed

-----------------------------------------------------------------------------
LEMMA BaudKeeps == SharedInv /\ [BaudNext]_baudVars => SharedInv'
<1>. SUFFICES ASSUME SharedInv, [BaudNext]_baudVars PROVE SharedInv'
  OBVIOUS
<1>1. CASE ManagerStep
  BY <1>1, ManagerKeeps
<1>2. ASSUME NEW x \in Callers,
             (\E p \in Ports : DetectCalled(x, p)) \/ Proceeds(x) \/ Disturbed(x)
      PROVE  SharedInv'
  BY <1>2, DetectionKeeps
<1>3. CASE UNCHANGED baudVars
  <2>1. IInv'
    BY <1>3, StepInv DEF SharedInv, baudVars
  <2>2. BaudInv'
    BY <1>3 DEF SharedInv, BaudInv, BaudTypeOK, OneDetectionEach, Detects, DeviceIsAccountedFor,
                baudVars, smVars, detectVars
  <2>. QED
    BY <2>1, <2>2 DEF SharedInv
<1>. QED
  BY <1>1, <1>2, <1>3 DEF BaudNext

(* Whatever sessions open and detections probe, one at most has a device,   *)
(* a detection is in progress exactly while it runs, and the manager's own  *)
(* bookkeeping is that of a manager nobody competes with.                   *)
THEOREM DevicesAreShared == BaudSpec => [](IInv /\ BaudInv)
<1>1. BaudSpec => []SharedInv
  BY BaudStarts, BaudKeeps, PTL DEF BaudSpec
<1>. QED
  BY <1>1, PTL DEF SharedInv

-----------------------------------------------------------------------------
(* No channel is open, nothing is asked for.                                *)
LEMMA ChannelsStart == HubInit => HubInv
<1>. SUFFICES ASSUME HubInit PROVE HubInv
  OBVIOUS
<1>1. IInv /\ BaudInv
  BY BaudStarts DEF HubInit, SharedInv
<1>2. ChannelsAgree
  BY ChannelsAssumption DEF HubInit, BaudInit, ChannelsAgree, Over, Bridged, Up
<1>. QED
  BY <1>1, <1>2 DEF HubInv

(* A step that moves no detection and touches channel c alone.              *)
LEMMA ChannelKeeps ==
  ASSUME ChannelsAgree, UNCHANGED call, NEW c \in Channels,
         NEW ch \in {"open", "ended", "closed"},
         NEW what \in {"reading", "over"} \union Pending \union Bridged,
         chan' = [chan EXCEPT ![c] = ch], doing' = [doing EXCEPT ![c] = what],
         doing[c] = "detecting" <=> what = "detecting",
         what \in Bridged => ch # "closed"
  PROVE  ChannelsAgree'
BY DEF ChannelsAgree, Up

(* Every step of the hub, of the shell's switch and of a bridge.            *)
LEMMA BridgingKeeps ==
  ASSUME ChannelsAgree, UNCHANGED baudVars, NEW c \in Channels,
         \/ ChannelOpens(c) \/ TooLong(c)
         \/ HandshakeIsBad(c) \/ HandshakeAdmin(c) \/ HandshakeShell(c) \/ HandshakeAsks(c)
         \/ OneShotAnswers(c) \/ BridgeMoves(c)
  PROVE  ChannelsAgree'
<1>. USE DEF Pending, Bridged
<1>1. /\ UNCHANGED call
      /\ chan \in [Channels -> {"none", "open", "ended", "closed"}]
      /\ doing \in [Channels -> {"reading", "over"} \union Pending \union Bridged]
      /\ doing[c] \in Bridged => Up(c)
      /\ chan[c] = "none" => doing[c] = "reading"
  BY DEF ChannelsAgree, baudVars, detectVars
<1>2. ASSUME Ends(c), doing[c] # "detecting", chan[c] # "none"
      PROVE  ChannelsAgree'
  <2>1. EndOf(c) \in {"ended", "closed"}
    BY <1>1, <1>2 DEF EndOf
  <2>. QED
    BY <1>1, <1>2, <2>1, ChannelKeeps DEF Ends
<1>3. ASSUME NEW what \in {"over", "asked", "spawning", "dialling", "admin", "shell"}, Does(c, what),
             doing[c] # "detecting", chan[c] # "none",
             what \in Bridged => chan[c] # "closed"
      PROVE  ChannelsAgree'
  <2>1. chan' = [chan EXCEPT ![c] = chan[c]] /\ chan[c] \in {"open", "ended", "closed"}
    BY <1>1, <1>3 DEF Does
  <2>. QED
    BY <1>1, <1>3, <2>1, ChannelKeeps DEF Does
<1>4. ASSUME ChannelOpens(c) \/ TooLong(c)
      PROVE  ChannelsAgree'
  <2>1. PICK ch \in {"open", "ended"} : chan' = [chan EXCEPT ![c] = ch]
    BY <1>4 DEF ChannelOpens, TooLong
  <2>2. doing[c] = "reading" /\ doing' = [doing EXCEPT ![c] = "reading"]
    BY <1>1, <1>4 DEF ChannelOpens, TooLong
  <2>. QED
    BY <1>1, <2>1, <2>2, ChannelKeeps
<1>5. ASSUME HandshakeIsBad(c) \/ HandshakeAdmin(c) \/ HandshakeShell(c) \/ HandshakeAsks(c)
      PROVE  ChannelsAgree'
  <2>1. doing[c] = "reading" /\ chan[c] \in {"open", "ended"}
    BY <1>5 DEF HandshakeIsBad, HandshakeAdmin, HandshakeShell, HandshakeAsks, Reads, Up
  <2>2. Ends(c) \/ \E what \in {"dialling", "spawning", "asked"} : Does(c, what)
    BY <1>5 DEF HandshakeIsBad, HandshakeAdmin, HandshakeShell, HandshakeAsks
  <2>. QED
    BY <1>2, <1>3, <2>1, <2>2
<1>6. ASSUME OneShotAnswers(c)
      PROVE  ChannelsAgree'
  BY <1>1, <1>2, <1>6 DEF OneShotAnswers
<1>7. ASSUME BridgeMoves(c)
      PROVE  ChannelsAgree'
  <2>1. /\ doing[c] \in {"dialling", "admin", "spawning", "shell"} /\ chan[c] # "none"
        /\ doing[c] # "spawning" => chan[c] # "closed"
    BY <1>1, <1>7 DEF BridgeMoves, AdminConnected, AdminCloses, ShellSpawned, ShellExits, Up
  <2>2. \/ Ends(c)
        \/ doing[c] = "dialling" /\ Does(c, "admin")
        \/ Does(c, "over")
        \/ chan[c] # "closed" /\ Does(c, "shell")
    BY <1>7 DEF BridgeMoves, AdminConnected, AdminCloses, ShellSpawned, ShellExits
  <2>. QED
    BY <1>2, <1>3, <2>1, <2>2
<1>. QED
  BY <1>4, <1>5, <1>6, <1>7

(* One channel closes, or all of them: bridges finish, questions go on.     *)
LEMMA ClosingKeeps ==
  ASSUME ChannelsAgree, NEW C \in SUBSET Channels, Close(C)
  PROVE  ChannelsAgree'
<1>1. UNCHANGED call
  BY DEF Close, baudVars, detectVars
<1>2. \A c \in Channels :
        /\ Finished(doing[c]) \in {"reading", "over"} \union Pending \union Bridged
        /\ Finished(doing[c]) \notin Bridged
        /\ doing[c] = "detecting" <=> Finished(doing[c]) = "detecting"
  BY DEF ChannelsAgree, Finished, Bridged, Pending
<1>. QED
  BY <1>1, <1>2 DEF ChannelsAgree, Close, Up

(* A detection that is asked for, moves or ends, for a channel or for the   *)
(* web page.                                                                *)
LEMMA DetectingKeeps ==
  ASSUME ChannelsAgree, BaudTypeOK, NEW x \in Callers,
         \/ x \notin Channels /\ WebDetection(x)
         \/ x \in Channels /\ (DetectionMoves(x) \/ \E p \in Ports : HandshakeDetects(x, p))
  PROVE  ChannelsAgree'
<1>. USE DEF Over
<1>1. \A y \in Callers \ {x} : call'[y] = call[y]
  BY DEF WebDetection, DetectionMoves, HandshakeDetects, DetectCalled, Proceeds, Disturbed, Listed,
         ProbeOpens, ProbeRefused, DwellEnds, ProbeClosed, ProbeFails, ProbeUnplugged, Probed,
         Settles, Moves, detectVars, BaudTypeOK
<1>2. CASE x \notin Channels /\ WebDetection(x)
  BY <1>1, <1>2, ChannelsAssumption DEF ChannelsAgree, WebDetection, chanVars, Up
<1>3. ASSUME x \in Channels, NEW p \in Ports, HandshakeDetects(x, p)
      PROVE  ChannelsAgree'
  <2>0. call'[x].at = "listing"
    <3>1. call \in [Callers -> CallType] /\ call[x] \in CallType
      BY DEF BaudTypeOK, CallType
    <3>2. call' = [call EXCEPT ![x] = [call[x] EXCEPT !.at = "listing", !.port = p]]
      BY <1>3, <3>1 DEF HandshakeDetects, DetectCalled, CallType
    <3>. QED
      BY <3>1, <3>2 DEF CallType
  <2>1. /\ UNCHANGED chan /\ doing' = [doing EXCEPT ![x] = "detecting"]
        /\ doing[x] = "reading" /\ chan[x] # "none"
    BY <1>3 DEF HandshakeDetects, Does, Reads, Up
  <2>2. \A c \in Channels \ {x} : call'[c] = call[c] /\ doing'[c] = doing[c]
    BY <1>1, <2>1, ChannelsAssumption DEF ChannelsAgree
  <2>3. doing'[x] = "detecting" /\ doing' \in [Channels -> {"reading", "over"} \union Pending \union Bridged]
    BY <1>3, <2>1 DEF ChannelsAgree, Pending
  <2>. QED
    BY <2>0, <2>1, <2>2, <2>3 DEF ChannelsAgree, Up, Bridged
<1>4. CASE x \in Channels /\ DetectionMoves(x)
  <2>1. call[x].at \in {"listing"} \union Running
    BY <1>4 DEF DetectionMoves, Proceeds, Disturbed, Listed, ProbeOpens, ProbeRefused, DwellEnds,
                ProbeClosed, ProbeFails, ProbeUnplugged, Running
  <2>2. call'[x].at \in {"done", "listing"} \union Running
    BY <1>4, <2>1 DEF DetectionMoves, Proceeds, Disturbed, Listed, ProbeOpens, ProbeRefused, DwellEnds,
                ProbeClosed, ProbeFails, ProbeUnplugged, Running, Probed, Settles, Moves, detectVars,
                BaudTypeOK
  <2>3. doing[x] = "detecting" /\ chan[x] # "none"
    BY <1>4, <2>1 DEF ChannelsAgree, Running
  <2>4. CASE call'[x].at = "done"
    <3>1. chan' = [chan EXCEPT ![x] = EndOf(x)] /\ doing' = [doing EXCEPT ![x] = "over"]
      BY <1>4, <2>4 DEF DetectionMoves, Answered, Ends
    <3>2. EndOf(x) \in {"ended", "closed"}
      BY <1>4, <2>3 DEF EndOf, ChannelsAgree
    <3>. QED
      BY <1>1, <1>4, <2>4, <3>1, <3>2, ChannelsAssumption DEF ChannelsAgree, Up, Bridged
  <2>5. CASE call'[x].at # "done"
    <3>1. UNCHANGED <<chan, doing>>
      BY <1>4, <2>5 DEF DetectionMoves, Answered
    <3>. QED
      BY <1>1, <1>4, <2>2, <2>3, <2>5, <3>1, ChannelsAssumption DEF ChannelsAgree, Up, Running
  <2>. QED
    BY <2>4, <2>5
<1>. QED
  BY <1>2, <1>3, <1>4

(* Every step of the channels is one of the detections, or leaves them.     *)
LEMMA HubMoves == [HubNext]_hubVars => [BaudNext]_baudVars
<1>. SUFFICES ASSUME [HubNext]_hubVars PROVE [BaudNext]_baudVars
  OBVIOUS
<1>. USE ChannelsAssumption
<1>1. CASE ManagerStep
  BY <1>1 DEF BaudNext
<1>2. ASSUME NEW x \in Callers \ Channels, WebDetection(x) PROVE BaudNext
  BY <1>2 DEF WebDetection, BaudNext
<1>3. ASSUME NEW c \in Channels, DetectionMoves(c) \/ \E p \in Ports : HandshakeDetects(c, p)
      PROVE  BaudNext
  BY <1>3 DEF DetectionMoves, HandshakeDetects, BaudNext
<1>4. ASSUME NEW c \in Channels,
             \/ ChannelOpens(c) \/ TooLong(c)
             \/ HandshakeIsBad(c) \/ HandshakeAdmin(c) \/ HandshakeShell(c) \/ HandshakeAsks(c)
             \/ OneShotAnswers(c) \/ BridgeMoves(c) \/ ChannelCloses(c)
      PROVE  UNCHANGED baudVars
  BY <1>4 DEF ChannelOpens, TooLong, HandshakeIsBad, HandshakeAdmin, HandshakeShell, HandshakeAsks,
              OneShotAnswers, BridgeMoves, AdminConnected, AdminCloses, ShellSpawned, ShellExits,
              ChannelCloses, Close
<1>5. CASE TunnelCloses \/ ShellSwitched
  BY <1>5 DEF TunnelCloses, Close, ShellSwitched
<1>6. CASE UNCHANGED hubVars
  BY <1>6 DEF hubVars
<1>. QED
  BY <1>1, <1>2, <1>3, <1>4, <1>5, <1>6 DEF HubNext, ReadsLine

LEMMA ChannelsKeep == HubInv /\ [HubNext]_hubVars => HubInv'
<1>. SUFFICES ASSUME HubInv, [HubNext]_hubVars PROVE HubInv'
  OBVIOUS
<1>. USE ChannelsAssumption
<1>1. SharedInv'
  BY HubMoves, BaudKeeps DEF HubInv, SharedInv
<1>2. ChannelsAgree /\ BaudTypeOK
  BY DEF HubInv, BaudInv
<1>3. CASE ManagerStep /\ UNCHANGED chanVars
  <2>1. UNCHANGED call
    BY <1>3 DEF ManagerStep, Answers, SessionOpens, SessionsRelease, PortOpens, PortRefuses, PortGone,
                PortClosed, detectVars
  <2>2. ChannelsAgree'
    BY <1>2, <1>3, <2>1 DEF ChannelsAgree, chanVars, Up
  <2>. QED
    BY <1>1, <2>2 DEF HubInv, SharedInv
<1>4. ASSUME NEW x \in Callers \ Channels, WebDetection(x) PROVE ChannelsAgree'
  BY <1>2, <1>4, DetectingKeeps
<1>5. ASSUME NEW c \in Channels, DetectionMoves(c) \/ \E p \in Ports : HandshakeDetects(c, p)
      PROVE  ChannelsAgree'
  BY <1>2, <1>5, DetectingKeeps
<1>6. ASSUME NEW c \in Channels,
             \/ ChannelOpens(c) \/ TooLong(c)
             \/ HandshakeIsBad(c) \/ HandshakeAdmin(c) \/ HandshakeShell(c) \/ HandshakeAsks(c)
             \/ OneShotAnswers(c) \/ BridgeMoves(c)
      PROVE  ChannelsAgree'
  <2>1. UNCHANGED baudVars
    BY <1>6 DEF ChannelOpens, TooLong, HandshakeIsBad, HandshakeAdmin, HandshakeShell, HandshakeAsks,
                OneShotAnswers, BridgeMoves, AdminConnected, AdminCloses, ShellSpawned, ShellExits
  <2>. QED
    BY <1>2, <1>6, <2>1, BridgingKeeps
<1>7. ASSUME TunnelCloses \/ \E c \in Channels : ChannelCloses(c) PROVE ChannelsAgree'
  <2>1. PICK C \in SUBSET Channels : Close(C)
    BY <1>7 DEF TunnelCloses, ChannelCloses
  <2>. QED
    BY <1>2, <2>1, ClosingKeeps
<1>8. ASSUME ShellSwitched \/ UNCHANGED hubVars PROVE ChannelsAgree'
  BY <1>2, <1>8 DEF ShellSwitched, hubVars, chanVars, baudVars, detectVars, ChannelsAgree, Up
<1>. QED
  BY <1>1, <1>3, <1>4, <1>5, <1>6, <1>7, <1>8 DEF HubNext, ReadsLine, HubInv, SharedInv

(* The manager, the detections and the channels of the hub agree at all     *)
(* times, however many of each there are.                                   *)
THEOREM ChannelsAreSound == HubSpec => []HubInv
BY ChannelsStart, ChannelsKeep, PTL DEF HubSpec
================================================================================
