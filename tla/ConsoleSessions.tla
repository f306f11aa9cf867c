--------------------------- MODULE ConsoleSessions ---------------------------
(***************************************************************************)
(* The four ways onto a serial port, over one SerialManager:               *)
(*   ssh     lib/sshServer.js    shells, with the port menu                *)
(*   web     lib/webTerminal.js  browser terminals                         *)
(*   tunnel  lib/tunnelClient.js hub sessions (openPortSession)            *)
(*   batch   lib/localPortStream.js, the port of a batch target            *)
(* and what an administrator does meanwhile: editing ports, disconnecting  *)
(* sessions, stopping SSH and the web console.                             *)
(*                                                                         *)
(* stream[s] is the client's side: a shell stream, a WebSocket, a tunneled *)
(* channel.  The server's own end()/destroy()/close() of it only starts    *)
(* its closing; the 'close' event comes later, or when the client goes.    *)
(***************************************************************************)
EXTENDS SerialManager

CONSTANTS
  Ssh, Web, Tunnel, Batch,  \* the sessions of each kind
  Dedicated,                \* the SSH and web users with a defaultPortId
  AssignedPort,             \* their defaultPortId
  CapturedUsers,            \* the users with captureEnabled
  CapturedPorts,            \* the ports with captureEnabled
  AllowPortMenu,            \* config.ssh.allowPortMenu
  EarlyLeave                \* may a stream close while its open() is in flight?

Consoles == Ssh \union Web
Deleted  == "deleted"
NoMenu   == [p \in Ports |-> Deleted]

ASSUME KindsAssumption ==
  /\ Sessions = Ssh \union Web \union Tunnel \union Batch
  /\ Ssh \intersect (Web \union Tunnel \union Batch) = {}
  /\ Web \intersect (Tunnel \union Batch) = {} /\ Tunnel \intersect Batch = {}
  /\ Dedicated \subseteq Consoles /\ AssignedPort \in [Dedicated -> Ports]
  /\ CapturedUsers \subseteq Consoles /\ CapturedPorts \subseteq Ports
  /\ AllowPortMenu \in BOOLEAN /\ EarlyLeave \in BOOLEAN

VARIABLES
  config,     \* the access mode of each configured port, or Deleted
  enabled,    \* which of "ssh" (server listening) and "web" are on
  authed,     \* SSH clients connected and authenticated
  at,         \* where a session's handler is
  stream,     \* the client's stream: up, closing (ended by us), down
  shown,      \* the port list an SSH menu was drawn from
  sshSessions, webSessions,  \* the session maps of sshServer and webTerminal
  capturing,  \* sessions with a capture file open
  checking    \* batch sessions about to test canWrite()

consoleVars == <<config, enabled, authed, at, stream, shown, sshSessions, webSessions,
                 capturing, checking>>
vars        == <<smVars, consoleVars>>

ConsoleInit ==
  /\ Init
  /\ config    \in [Ports -> Modes]
  /\ enabled   = {"ssh", "web"}
  /\ authed    = {}
  /\ at        = [s \in Sessions |-> "away"]
  /\ stream    = [s \in Sessions |-> "down"]
  /\ shown     = [s \in Sessions |-> NoMenu]
  /\ sshSessions = {} /\ webSessions = {}
  /\ capturing = {}
  /\ checking  = {}

-----------------------------------------------------------------------------
Configured == {p \in Ports : config[p] # Deleted}
Live       == {s \in Sessions : stream[s] # "down"}

\* A slip: both switches needed instead of either.
CaptureBoth(S, p) == {s \in S \intersect Consoles : p \in CapturedPorts /\ s \in CapturedUsers}

\* sessionCapture.startCapture(portConfig, meta).  The web terminal passes on
\* a consoleUser that carries no captureEnabled.
startCapture(S, p) ==
  {s \in S \intersect Consoles : p \in CapturedPorts \/ s \in CapturedUsers \intersect Ssh}

\* The bridges of S, which open() has just attached to p, start.
Bridge(S, p) ==
  /\ capturing'   = capturing \union startCapture(S, p)
  /\ webSessions' = webSessions \union (S \intersect Web)
  /\ checking'    = checking \union (S \intersect Batch)

\* Where a handler without a port goes: back to the menu loop while its stream
\* lives, else it ends the stream; a batch target is simply over.
Fallback(s, live) ==
  CASE s \notin live \/ s \in Batch                        -> "away"
    [] s \in live \intersect (Ssh \ Dedicated) /\ AllowPortMenu /\ Configured # {}
                                                           -> "menu"
    [] OTHER                                               -> "ended"

\* The bridges of S end, or never came to be; live are the streams that last.
Unbridge(S, live) ==
  LET next(s) == Fallback(s, live) IN
  /\ at'     = [s \in Sessions |-> IF s \in S THEN next(s) ELSE at[s]]
  /\ stream' = [s \in Sessions |->
                 CASE s \in S /\ next(s) = "away"  -> "down"
                   [] s \in S /\ next(s) = "ended" -> "closing"
                   [] s \in S /\ next(s) = "menu" /\ stream[s] = "down" -> "up"
                   [] OTHER                        -> stream[s]]
  /\ shown'  = [s \in Sessions |-> IF s \notin S THEN shown[s]
                                   ELSE IF next(s) = "menu" THEN config ELSE NoMenu]
  /\ capturing'   = capturing \ S
  /\ webSessions' = webSessions \ S
  /\ checking'    = checking \ S

\* open() with the port configuration the caller holds: refused on the spot,
\* left waiting for the device, or attached to a port that is open already.
Connect(s, p, mode) ==
  \/ OpenRefused(s, p, mode) /\ Unbridge({s}, Live \union {s})
  \/ /\ \/ /\ OpenDevice(s, p, mode) \/ AwaitDevice(s, p, mode)
           /\ UNCHANGED <<capturing, webSessions, checking>>
        \/ JoinOpenPort(s, p, mode) /\ Bridge({s}, p)
     /\ at'     = [at EXCEPT ![s] = "port"]
     /\ stream' = [stream EXCEPT ![s] = "up"]
     /\ shown'  = [shown EXCEPT ![s] = NoMenu]

\* A handler that goes to its menu, or ends its stream, without an open().
Settle(s) == Unbridge({s}, Live \union {s}) /\ UNCHANGED smVars

\* Promise continuations run before the next event: while a batch target has
\* yet to test canWrite(), nothing else happens.
Event == checking = {}

-----------------------------------------------------------------------------
(***************************************************************************)
(* SSH: an authenticated client opens a shell, startSession lists it and   *)
(* goes to the user's own port or to the menu.  Stopping the server closes *)
(* its listener and the shells, not the clients, which may open another.   *)
(***************************************************************************)
Authenticate(s) ==
  /\ Event /\ s \in Ssh \ authed /\ "ssh" \in enabled
  /\ authed' = authed \union {s}
  /\ UNCHANGED <<smVars, config, enabled, at, stream, shown, sshSessions, webSessions, capturing, checking>>

HangUp(s) ==
  /\ Event /\ s \in authed /\ at[s] = "away"
  /\ authed' = authed \ {s}
  /\ UNCHANGED <<smVars, config, enabled, at, stream, shown, sshSessions, webSessions, capturing, checking>>

startSession(s) ==
  /\ Event /\ s \in authed /\ at[s] = "away"
  /\ sshSessions' = sshSessions \union {s}
  /\ IF s \in Dedicated /\ AssignedPort[s] \in Configured
     THEN Connect(s, AssignedPort[s], config[AssignedPort[s]])
     ELSE Settle(s)
  /\ UNCHANGED <<config, enabled, authed>>

\* The menu acts on the list it was drawn from, not on the current one.
SelectPort(s, p) ==
  /\ Event /\ at[s] = "menu" /\ stream[s] = "up"
  /\ shown[s][p] # Deleted
  /\ Connect(s, p, shown[s][p])
  /\ UNCHANGED <<config, enabled, authed, sshSessions>>

\* A number the list does not have: the loop draws the menu again.
InvalidSelection(s) ==
  /\ Event /\ at[s] = "menu" /\ stream[s] = "up"
  /\ Settle(s)
  /\ UNCHANGED <<config, enabled, authed, sshSessions>>

Quit(s) ==
  /\ Event /\ at[s] = "menu" /\ stream[s] = "up"
  /\ at'     = [at EXCEPT ![s] = "ended"]
  /\ stream' = [stream EXCEPT ![s] = "closing"]
  /\ shown'  = [shown EXCEPT ![s] = NoMenu]
  /\ UNCHANGED <<smVars, config, enabled, authed, sshSessions, webSessions, capturing, checking>>

\* A slip: back to the menu with the port still held.
DetachHolding(s) ==
  /\ Event /\ s \in Ssh \intersect Attached /\ stream[s] = "up"
  /\ UNCHANGED smVars /\ Unbridge({s}, Live)
  /\ UNCHANGED <<config, enabled, authed, sshSessions>>

\* Ctrl+] while attached.
Detach(s) ==
  /\ Event /\ s \in Ssh \intersect Attached /\ stream[s] = "up"
  /\ ReleaseAll({s}) /\ Unbridge({s}, Live)
  /\ UNCHANGED <<config, enabled, authed, sshSessions>>

startSsh ==
  /\ Event /\ "ssh" \notin enabled
  /\ enabled' = enabled \union {"ssh"}
  /\ UNCHANGED <<smVars, config, authed, at, stream, shown, sshSessions, webSessions, capturing, checking>>

\* A slip: the sessions are forgotten, but their shells stay.
stopSshForgetting ==
  /\ Event /\ "ssh" \in enabled
  /\ ReleaseAll(sshSessions)
  /\ sshSessions' = {}
  /\ enabled' = enabled \ {"ssh"}
  /\ UNCHANGED <<config, authed, at, stream, shown, webSessions, capturing, checking>>

\* A record has a release only while attached.  Each bridge finishes with its
\* stream, whose 'close' is still to come.
stopSsh ==
  /\ Event /\ "ssh" \in enabled
  /\ ReleaseAll(sshSessions)
  /\ stream' = [s \in Sessions |-> IF s \in sshSessions THEN "closing" ELSE stream[s]]
  /\ sshSessions' = {}
  /\ enabled' = enabled \ {"ssh"}
  /\ UNCHANGED <<config, authed, at, shown, webSessions, capturing, checking>>

-----------------------------------------------------------------------------
(***************************************************************************)
(* Web terminals, hub sessions and batch targets.                          *)
(***************************************************************************)
WebConnection(s, p) ==
  /\ Event /\ s \in Web /\ at[s] = "away" /\ "web" \in enabled
  /\ IF s \in Dedicated THEN p = AssignedPort[s] ELSE AllowPortMenu
  /\ IF p \in Configured THEN Connect(s, p, config[p]) ELSE Settle(s)
  /\ UNCHANGED <<config, enabled, authed, sshSessions>>

openPortSession(s, p) ==
  /\ Event /\ s \in Tunnel /\ at[s] = "away"
  /\ IF p \in Configured THEN Connect(s, p, config[p]) ELSE Settle(s)
  /\ UNCHANGED <<config, enabled, authed, sshSessions>>

openLocalPort(s, p) ==
  /\ Event /\ s \in Batch /\ at[s] = "away" /\ p \in Configured
  /\ Connect(s, p, config[p])
  /\ UNCHANGED <<config, enabled, authed, sshSessions>>

\* A slip: the port is taken as it comes.
TakeUnchecked(s) ==
  /\ s \in checking /\ checking' = checking \ {s}
  /\ UNCHANGED <<smVars, at, stream, shown, webSessions, capturing, config, enabled, authed, sshSessions>>

\* The continuation of openLocalPort, oldest caller first: a port the script
\* cannot type into is given back at once.
CheckCanWrite(s) ==
  \E p \in Ports :
    /\ s \in checking \intersect sessions[p] /\ checking \intersect elders[s] = {}
    /\ IF canSessionWrite(s, p)
       THEN /\ checking' = checking \ {s}
            /\ UNCHANGED <<smVars, at, stream, shown, webSessions, capturing>>
       ELSE ReleaseAll({s}) /\ Unbridge({s}, Live)
    /\ UNCHANGED <<config, enabled, authed, sshSessions>>

\* runTarget's finally: stream.destroy().
BatchDone(s) ==
  /\ Event /\ s \in Batch \intersect Attached
  /\ ReleaseAll({s}) /\ Unbridge({s}, Live)
  /\ UNCHANGED <<config, enabled, authed, sshSessions>>

-----------------------------------------------------------------------------
(***************************************************************************)
(* The device, the client's stream, and the administrator.                 *)
(***************************************************************************)
Opened(p) ==
  /\ Event
  /\ DeviceOpened(p) /\ Bridge(waiting[p], p)
  /\ UNCHANGED <<config, enabled, authed, at, stream, shown, sshSessions>>

Failed(p) ==
  /\ Event
  /\ DeviceFailed(p) /\ Unbridge(waiting[p], Live)
  /\ UNCHANGED <<config, enabled, authed, sshSessions>>

Gone(p) ==
  /\ Event
  /\ DeviceGone(p) /\ Unbridge(sessions[p], Live)
  /\ UNCHANGED <<config, enabled, authed, sshSessions>>

\* A slip: only the session list hears of the close.
StreamClosedUnheard(s) ==
  /\ Event /\ s \notin Batch /\ stream[s] # "down"
  /\ stream'      = [stream EXCEPT ![s] = "down"]
  /\ sshSessions' = sshSessions \ {s}
  /\ UNCHANGED <<smVars, at, shown, webSessions, capturing, config, enabled, authed, checking>>

\* 'close' of a stream.  Only an attached session listens for it on behalf of
\* the port; while open() is in flight just the SSH session list does.
StreamClosed(s) ==
  /\ Event /\ s \notin Batch /\ stream[s] # "down"
  /\ stream'      = [stream EXCEPT ![s] = "down"]
  /\ sshSessions' = sshSessions \ {s}
  /\ IF s \in Waiting
     THEN EarlyLeave /\ UNCHANGED <<smVars, at, shown, webSessions, capturing>>
     ELSE /\ ReleaseAll({s})
          /\ at'          = [at EXCEPT ![s] = "away"]
          /\ shown'       = [shown EXCEPT ![s] = NoMenu]
          /\ webSessions' = webSessions \ {s}
          /\ capturing'   = capturing \ {s}
  /\ UNCHANGED <<config, enabled, authed, checking>>

kickSession(s) ==
  /\ Event /\ s \in sshSessions \union webSessions /\ stream[s] = "up"
  /\ stream' = [stream EXCEPT ![s] = "closing"]
  /\ UNCHANGED <<smVars, config, enabled, authed, at, shown, sshSessions, webSessions, capturing, checking>>

\* savePort, deletePort, replacePorts: nobody who is attached is told.
EditPort(p, mode) ==
  /\ Event /\ config[p] # mode
  /\ config' = [config EXCEPT ![p] = mode]
  /\ UNCHANGED <<smVars, enabled, authed, at, stream, shown, sshSessions, webSessions, capturing, checking>>

\* config.webTerminal.enabled: only new connections look at it.
SwitchWeb ==
  /\ Event
  /\ enabled' = IF "web" \in enabled THEN enabled \ {"web"} ELSE enabled \union {"web"}
  /\ UNCHANGED <<smVars, config, authed, at, stream, shown, sshSessions, webSessions, capturing, checking>>

-----------------------------------------------------------------------------
SshNext(s) ==
  \/ Authenticate(s) \/ HangUp(s) \/ startSession(s)
  \/ InvalidSelection(s) \/ Quit(s) \/ Detach(s)
  \/ \E p \in Ports : SelectPort(s, p)

OtherNext(s) ==
  \/ \E p \in Ports : WebConnection(s, p) \/ openPortSession(s, p) \/ openLocalPort(s, p)
  \/ CheckCanWrite(s) \/ BatchDone(s)

ConsoleNext ==
  \/ \E s \in Sessions : SshNext(s) \/ OtherNext(s) \/ StreamClosed(s) \/ kickSession(s)
  \/ \E p \in Ports : Opened(p) \/ Failed(p) \/ Gone(p)
  \/ \E p \in Ports, mode \in Modes \union {Deleted} : EditPort(p, mode)
  \/ startSsh \/ stopSsh \/ SwitchWeb

(***************************************************************************)
(* The event loop drains its continuations, the operating system answers   *)
(* every open, and a stream the server has ended closes in the end (the    *)
(* peer confirms, or its connection times out).  Nobody has to connect,    *)
(* type or leave.                                                          *)
(***************************************************************************)
ConsoleFairness ==
  /\ \A s \in Sessions : WF_vars(CheckCanWrite(s))
  /\ \A s \in Sessions : SF_vars(stream[s] = "closing" /\ StreamClosed(s))
  /\ \A p \in Ports : SF_vars(Opened(p) \/ Failed(p))

ConsoleSpec     == ConsoleInit /\ [][ConsoleNext]_vars
ConsoleFairSpec == ConsoleSpec /\ ConsoleFairness

-----------------------------------------------------------------------------
ConsoleTypeOK ==
  /\ TypeOK
  /\ config  \in [Ports -> Modes \union {Deleted}]
  /\ enabled \subseteq {"ssh", "web"} /\ authed \subseteq Ssh
  /\ at      \in [Sessions -> {"away", "menu", "port", "ended"}]
  /\ stream  \in [Sessions -> {"up", "closing", "down"}]
  /\ shown   \in [Sessions -> [Ports -> Modes \union {Deleted}]]
  /\ sshSessions \subseteq Ssh /\ webSessions \subseteq Web
  /\ capturing \subseteq Consoles /\ checking \subseteq Batch

(* However the four kinds of session interleave, what they do to the ports  *)
(* is what SerialManager allows its callers: one open() at a time each, and *)
(* only what open() attached is released.                                   *)
ImplementsManager == Spec

(* A batch script that was given a port can type into it for as long as it  *)
(* holds it (localPortStream.js: a port it can't write to is refused up     *)
(* front rather than letting a script silently type into nothing).          *)
BatchCanType ==
  \A p \in Ports : \A s \in (sessions[p] \intersect Batch) \ checking : canSessionWrite(s, p)

(* The Sessions tab names nobody who is gone, every shell nobody has ended, *)
(* in the menu as well as on a port, and the browsers attached to a port.   *)
SessionListIsTrue ==
  /\ \A s \in sshSessions : stream[s] # "down" /\ at[s] # "away"
  /\ webSessions = Web \intersect Attached
  /\ \A s \in Ssh : stream[s] = "up" => s \in sshSessions

(* A session that holds a port, or waits for one, is in its bridge: it is   *)
(* not in a menu it could choose another port from, nor thought to be gone. *)
HoldersAreAtPort == \A s \in Attached \union Waiting : at[s] = "port"

(* The console's state: its types, a serial manager in order, every holder  *)
(* where its handler says, and a Sessions tab that is true.                 *)
ConsoleInv == ConsoleTypeOK /\ IInv /\ HoldersAreAtPort /\ SessionListIsTrue

(* A capture file is open only for a session that has its port, or that     *)
(* stop() took it from, and for every console attached to a captured port.  *)
CaptureFollowsSession ==
  /\ \A s \in capturing : at[s] = "port" /\ s \notin Waiting
  /\ \A p \in CapturedPorts : sessions[p] \intersect Consoles \subseteq capturing

(* A session that the server ends, or an administrator disconnects, gives   *)
(* up its port and is gone.  It needs ~EarlyLeave.                          *)
DisconnectIsHonoured == \A s \in Sessions : stream[s] = "closing" ~> at[s] = "away"

-----------------------------------------------------------------------------
(* The rest is said of the program by its documents and comments and does   *)
(* not hold.                                                                *)

(* While anybody connected is attached to a first-write port, the session   *)
(* that can type is connected: the keyboard passes on when the writer goes  *)
(* (README.md, "first-write"; serialManager.js canSessionWrite).            *)
WriterIsConnected ==
  \A p \in Ports : \A s \in sessions[p] :
    /\ access[s] = "first-write" /\ IsOldest(s, p)
    /\ \E t \in sessions[p] : stream[t] = "up"
    => stream[s] # "down"

(* Stopping SSH-to-serial leaves no SSH session on a port (HANDBOOK.html,   *)
(* "Disable local SSH & web console").                                      *)
NoSshWhileStopped == "ssh" \notin enabled => Attached \intersect Ssh = {}

(* Every session of a user with capture turned on is recorded               *)
(* (HANDBOOK.html, "Capture this user's sessions"; sessionCapture.js).      *)
UserCaptureHonoured == CapturedUsers \intersect Attached \subseteq capturing
=============================================================================
