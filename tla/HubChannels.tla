------------------------------ MODULE HubChannels ------------------------------
(***************************************************************************)
(* lib/tunnelClient.js: what becomes of a channel the hub opens through    *)
(* the tunnel.  Its first line says what it is for: a bridge to this box's *)
(* own admin pages, a shell, or one question answered with one line, among *)
(* them a baud-rate detection (BaudDetect).  Port sessions are in          *)
(* ConsoleSessions and uploads in Uploads.                                 *)
(*                                                                         *)
(* The hub may close a channel, and the tunnel all of them, at any moment. *)
(***************************************************************************)
EXTENDS BaudDetect

CONSTANT Channels   \* channels the hub opens; those that detect are Callers

ASSUME ChannelsAssumption == Channels \subseteq Callers

VARIABLES
  chan,           \* not opened yet, open, ended from this side, or closed
  doing,          \* what bridgeChannel made of it
  shellEnabled    \* config.remoteShell.enabled

chanVars == <<chan, doing, shellEnabled>>
hubVars  == <<baudVars, chanVars>>

HubInit ==
  /\ BaudInit
  /\ chan         = [c \in Channels |-> "none"]
  /\ doing        = [c \in Channels |-> "reading"]
  /\ shellEnabled \in BOOLEAN

Pending == {"asked", "detecting", "dialling", "spawning"}   \* an answer is awaited
Bridged == {"dialling", "admin", "shell"}                   \* a socket or a child is held
Up(c)   == chan[c] \in {"open", "ended"}

EndOf(c)  == IF chan[c] = "open" THEN "ended" ELSE chan[c]
Ends(c)   == chan' = [chan EXCEPT ![c] = EndOf(c)] /\ doing' = [doing EXCEPT ![c] = "over"]
Does(c, what) == doing' = [doing EXCEPT ![c] = what] /\ UNCHANGED chan

-----------------------------------------------------------------------------
(***************************************************************************)
(* bridgeChannel                                                           *)
(***************************************************************************)
ChannelOpens(c) ==
  /\ chan[c] = "none"
  /\ chan' = [chan EXCEPT ![c] = "open"]
  /\ UNCHANGED <<baudVars, doing, shellEnabled>>

\* More than 1024 bytes and no line: the channel is ended, and still listened to.
TooLong(c) ==
  /\ chan[c] = "open" /\ doing[c] = "reading"
  /\ chan' = [chan EXCEPT ![c] = "ended"]
  /\ UNCHANGED <<baudVars, doing, shellEnabled>>

Reads(c) == Up(c) /\ doing[c] = "reading"

HandshakeIsBad(c) ==
  /\ Reads(c)
  /\ Ends(c)
  /\ UNCHANGED <<baudVars, shellEnabled>>

HandshakeAdmin(c) ==
  /\ Reads(c)
  /\ Does(c, "dialling")
  /\ UNCHANGED <<baudVars, shellEnabled>>

HandshakeShell(c) ==
  /\ Reads(c)
  /\ IF shellEnabled THEN Does(c, "spawning") ELSE Ends(c)
  /\ UNCHANGED <<baudVars, shellEnabled>>

\* listDevices, siteInfo, lldpNeighbors
HandshakeAsks(c) ==
  /\ Reads(c)
  /\ Does(c, "asked")
  /\ UNCHANGED <<baudVars, shellEnabled>>

HandshakeDetects(c, p) ==
  /\ Reads(c)
  /\ DetectCalled(c, p)
  /\ Does(c, "detecting")
  /\ UNCHANGED shellEnabled

-----------------------------------------------------------------------------
(***************************************************************************)
(* The answers.  end() on a channel already closed does nothing.           *)
(***************************************************************************)
OneShotAnswers(c) ==
  /\ doing[c] = "asked"
  /\ Ends(c)
  /\ UNCHANGED <<baudVars, shellEnabled>>

\* A slip: the promise of a detection that was refused or failed is dropped.
AnsweredIfFound(c) ==
  IF call'[c].at = "done" /\ call[c].at = "closing" THEN Ends(c) ELSE UNCHANGED <<chan, doing>>

Answered(c) == IF call'[c].at = "done" THEN Ends(c) ELSE UNCHANGED <<chan, doing>>

DetectionMoves(c) ==
  /\ Proceeds(c) \/ Disturbed(c)
  /\ Answered(c)
  /\ UNCHANGED shellEnabled

-----------------------------------------------------------------------------
(***************************************************************************)
(* The bridges.  finish() destroys the socket or kills the child, once.    *)
(***************************************************************************)
AdminConnected(c) ==
  /\ doing[c] = "dialling"
  /\ Does(c, "admin")
  /\ UNCHANGED <<baudVars, shellEnabled>>

\* 'close' or 'error' of the socket, connected or not.
AdminCloses(c) ==
  /\ doing[c] \in {"dialling", "admin"}
  /\ Ends(c)
  /\ UNCHANGED <<baudVars, shellEnabled>>

\* A slip: nobody asks whether the channel closed while the child was spawned.
ShellSpawnedAnyway(c) ==
  /\ doing[c] = "spawning"
  /\ Does(c, "shell")
  /\ UNCHANGED <<baudVars, shellEnabled>>

\* The child runs; it is killed at once if the channel closed meanwhile.
ShellSpawned(c) ==
  /\ doing[c] = "spawning"
  /\ Does(c, IF chan[c] = "closed" THEN "over" ELSE "shell")
  /\ UNCHANGED <<baudVars, shellEnabled>>

ShellExits(c) ==
  /\ doing[c] = "shell"
  /\ Ends(c)
  /\ UNCHANGED <<baudVars, shellEnabled>>

\* What a closing channel leaves: a bridge finishes, a question is still worked on.
Finished(what) == IF what \in {"reading"} \union Bridged THEN "over" ELSE what

Close(C) ==
  /\ chan'  = [c \in Channels |-> IF c \in C THEN "closed" ELSE chan[c]]
  /\ doing' = [c \in Channels |-> IF c \in C THEN Finished(doing[c]) ELSE doing[c]]
  /\ UNCHANGED <<baudVars, shellEnabled>>

ChannelCloses(c) == Up(c) /\ Close({c})

TunnelCloses == LET C == {c \in Channels : Up(c)} IN C # {} /\ Close(C)

ShellSwitched ==
  /\ shellEnabled' = ~shellEnabled
  /\ UNCHANGED <<baudVars, chan, doing>>

-----------------------------------------------------------------------------
ReadsLine(c) ==
  \/ HandshakeIsBad(c) \/ HandshakeAdmin(c) \/ HandshakeShell(c) \/ HandshakeAsks(c)
  \/ \E p \in Ports : HandshakeDetects(c, p)

BridgeMoves(c) == AdminConnected(c) \/ AdminCloses(c) \/ ShellSpawned(c) \/ ShellExits(c)

WebDetection(x) ==
  /\ (\E p \in Ports : DetectCalled(x, p)) \/ Proceeds(x) \/ Disturbed(x)
  /\ UNCHANGED chanVars

HubNext ==
  \/ ManagerStep /\ UNCHANGED chanVars
  \/ \E x \in Callers \ Channels : WebDetection(x)
  \/ \E c \in Channels :
       \/ ChannelOpens(c) \/ TooLong(c) \/ ReadsLine(c)
       \/ OneShotAnswers(c) \/ DetectionMoves(c) \/ BridgeMoves(c) \/ ChannelCloses(c)
  \/ TunnelCloses
  \/ ShellSwitched

HubSpec == HubInit /\ [][HubNext]_hubVars

(***************************************************************************)
(* Fairness.  Timers run out, the operating system answers an open, a      *)
(* close, a connect and a spawn, and a question answers or fails; somebody *)
(* tries a port again as long as nobody is on it.  The hub need not close  *)
(* a channel, and nothing need go wrong.                                   *)
(***************************************************************************)
Chan(A) == A /\ UNCHANGED chanVars

HubFairness ==
  /\ \A p \in Ports :
       /\ WF_hubVars(Chan(Answers(p)))
       /\ WF_hubVars(Chan(PortClosed(p)))
       /\ WF_hubVars(Chan(\E s \in Sessions, mode \in Modes : entry[p] = "none" /\ SessionOpens(s, p, mode)))
  /\ \A x \in Callers \ Channels : WF_hubVars(Chan(Proceeds(x)))
  /\ \A c \in Channels :
       /\ WF_hubVars(Proceeds(c) /\ Answered(c) /\ UNCHANGED shellEnabled)
       /\ WF_hubVars(OneShotAnswers(c))
       /\ WF_hubVars(AdminConnected(c) \/ (doing[c] = "dialling" /\ AdminCloses(c)))
       /\ WF_hubVars(ShellSpawned(c))

HubFairSpec == HubSpec /\ HubFairness

-----------------------------------------------------------------------------
(* A channel is being probed for exactly while its detection runs, a bridge *)
(* has a channel to bridge to, and nothing is done for one not yet opened.  *)
ChannelsAgree ==
  /\ chan  \in [Channels -> {"none", "open", "ended", "closed"}]
  /\ doing \in [Channels -> {"reading", "over"} \union Pending \union Bridged]
  /\ \A c \in Channels :
       /\ doing[c] = "detecting" <=> call[c].at \notin Over
       /\ doing[c] \in Bridged => Up(c)
       /\ chan[c] = "none" => doing[c] = "reading"

(* The invariant of the composed system: the manager's own, the detections' *)
(* and the channels'.  A probe never makes the manager and the operating    *)
(* system disagree on who has a device, nor outlives its place in           *)
(* inProgress, whatever the channels that asked for it do meanwhile.        *)
HubInv == IInv /\ BaudInv /\ ChannelsAgree

(* A port somebody keeps trying to open is opened again and again, however  *)
(* detections, refused opens and asynchronous closes get in each other's    *)
(* way: no device stays held by a probe that is over.                       *)
PortIsReachable == \A p \in Ports : []<>(sessions[p] # {})

(* The hub's operator gets an answer, or a bridge, on every channel whose   *)
(* first line asked for one, unless the channel closes first: a detection   *)
(* that is refused, or fails half-way, included.                            *)
ChannelsAreAnswered ==
  \A c \in Channels :
    doing[c] \in Pending ~> (chan[c] \in {"ended", "closed"} \/ doing[c] \in {"admin", "shell"})

(* No shell and no socket is left running for a channel that has closed,    *)
(* the shell that was still being spawned included.                         *)
NothingOutlivesItsChannel ==
  \A c \in Channels : chan[c] = "closed" ~> doing[c] \notin {"spawning"} \union Bridged
=============================================================================
