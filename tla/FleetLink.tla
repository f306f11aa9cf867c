------------------------------- MODULE FleetLink -------------------------------
(***************************************************************************)
(* The tunnel to the hub and the heartbeat that rides on it:               *)
(* lib/tunnelClient.js (connections), lib/fleetHeartbeat.js,               *)
(* lib/pinnedHttps.js, the /api/fleet routes of lib/webServer.js and the   *)
(* start of the process (server.js).                                       *)
(*                                                                         *)
(* A step is one event of the Node process: everything a handler does up   *)
(* to its next await.  A connection is one ssh2 Client object; it lives on *)
(* after the program forgets it, its listeners with it, until its socket   *)
(* is closed.  What the hub's commands do to the configuration is in       *)
(* AdminAccounts; here a command only acts or is refused.                  *)
(*                                                                         *)
(* External: ssh2 and the network.  A connection may fail, be dropped by   *)
(* the far end, or go stale: it looks open, carries nothing and may never  *)
(* report its end.  The hub may be rebuilt with other keys.                *)
(***************************************************************************)
EXTENDS Integers, FiniteSets

CONSTANTS
  Conns,       \* Client objects alive at one time (BOUND)
  Ticks,       \* heartbeats under way at one time (BOUND)
  Keys,        \* the identities the hub has over time
  THRESHOLD,   \* TUNNEL_FAILURE_RECONNECT_THRESHOLD
  MaxSaves,    \* BOUND on the admin's requests
  MaxFaults    \* BOUND on faults of the network, the hub and the process

Blank == "blank"    \* a fingerprint nobody has set
None  == "none"

ASSUME FleetAssumption ==
  /\ THRESHOLD \in Nat \ {0} /\ MaxSaves \in Nat /\ MaxFaults \in Nat
  /\ Blank \notin Keys /\ None \notin Conns \union Keys /\ Conns # {}

VARIABLES
  fleet,        \* the fleet part of the configuration: mode, apiPort, the two pins
  stopped, client, connected,
  timer,        \* the timer `reconnectTimer' refers to is armed
  orphans,      \* armed timers nothing refers to any more
  phase,        \* of a connection: none, connecting, authenticating, ready, stale
  heard,        \* connections that have their listeners
  ended,        \* connections end() was called on
  told,         \* the pin a connection's host verifier was made with
  beating,      \* the heartbeat's interval timer is set
  tick, streak,
  enroll,       \* the /api/fleet/enroll request under way
  hubKey, saves, faults

tunnel    == <<stopped, client, connected, timer, orphans, phase, heard, ended, told>>
heartbeat == <<beating, tick, streak>>
world     == <<hubKey, saves, faults>>
fleetVars == <<fleet, tunnel, heartbeat, enroll, world>>

Idle     == [phase |-> "idle", via |-> None, api |-> FALSE, tls |-> Blank, backup |-> FALSE]
NoEnroll == [phase |-> "idle", ssh |-> Blank, tls |-> Blank, api |-> FALSE]

FleetInit ==
  /\ fleet = [mode |-> "standalone", apiPort |-> FALSE, ssh |-> Blank, tls |-> Blank]
  /\ stopped = TRUE /\ client = None /\ connected = FALSE
  /\ timer = FALSE /\ orphans = 0
  /\ phase = [k \in Conns |-> "none"] /\ heard = {} /\ ended = {}
  /\ told = [k \in Conns |-> Blank]
  /\ beating = FALSE /\ tick = [t \in Ticks |-> Idle] /\ streak = 0
  /\ enroll = NoEnroll
  /\ hubKey \in Keys /\ saves = 0 /\ faults = 0

Fault == faults < MaxFaults /\ faults' = faults + 1

\* A Client object the process no longer refers to is free to stand for a new one.
Free == {k \in Conns \ {client} : phase[k] = "none" /\ \A t \in Ticks : tick[t].via # k}

\* The connection `client' refers to, unless it is closed.
Current == {k \in Conns : k = client /\ phase[k] # "none"}

Opening(k)  == phase[k] \in {"connecting", "authenticating"}
Looks(k)    == phase[k] \in {"ready", "stale"}       \* what the program can see
Refuses(k)  == told[k] \notin {Blank, hubKey}

-----------------------------------------------------------------------------
(* Connections.                                                            *)

\* connectOnce() beyond its guards: a new Client with its listeners, its verifier
\* made with the pin of this moment.  `ends' and `deaf' are the connections the
\* caller has ended and whose listeners it has removed before.
connectOnce(pin, ends, deaf) ==
  \E k \in Free :
    /\ k = CHOOSE f \in Free : TRUE
    /\ client' = k
    /\ phase' = [phase EXCEPT ![k] = "connecting"]
    /\ heard' = (heard \ deaf) \union {k}
    /\ ended' = (ended \union ends) \ {k}
    /\ told' = [told EXCEPT ![k] = pin]

\* stop(): only the connection `client' refers to is ended; its listeners stay.
stop ==
  /\ stopped' = TRUE /\ timer' = FALSE /\ connected' = FALSE
  /\ ended' = ended \union Current
  /\ UNCHANGED <<client, orphans, phase, heard, told>>

\* stop(), then start().
restart(pin) ==
  /\ stopped' = FALSE /\ timer' = FALSE /\ connected' = FALSE
  /\ connectOnce(pin, Current, {})
  /\ UNCHANGED orphans

\* A slip: the tunnel is torn down and left to its (removed) listeners.
forceDisconnect ==
  IF stopped THEN UNCHANGED tunnel
  ELSE /\ connected' = FALSE /\ timer' = FALSE
       /\ ended' = ended \union Current /\ heard' = heard \ Current
       /\ UNCHANGED <<stopped, client, orphans, phase, told>>

\* A slip: the stale connection is ended, and its close awaited.
forceEnd ==
  IF stopped THEN UNCHANGED tunnel
  ELSE /\ ended' = ended \union Current
       /\ UNCHANGED <<stopped, client, connected, timer, orphans, phase, heard, told>>

forceReconnect ==
  IF stopped THEN UNCHANGED tunnel
  ELSE /\ connected' = FALSE /\ timer' = FALSE
       /\ connectOnce(fleet.ssh, Current, Current)
       /\ UNCHANGED <<stopped, orphans>>

\* The 'close' event of connection k, if it has listeners.
Close(k) ==
  /\ phase' = [phase EXCEPT ![k] = "none"]
  /\ IF k \notin heard THEN UNCHANGED <<connected, timer, orphans>>
     ELSE /\ connected' = FALSE
          /\ timer' = (timer \/ ~stopped)
          /\ orphans' = IF timer /\ ~stopped THEN orphans + 1 ELSE orphans
  /\ heard' = heard \ {k} /\ ended' = ended \ {k}
  /\ told' = [told EXCEPT ![k] = Blank]
  /\ UNCHANGED <<stopped, client>>

\* makeHostVerifier's callback: a blank pin trusts, and pins, what it sees.
HostVerified(k) ==
  /\ phase[k] = "connecting" /\ k \notin ended /\ ~Refuses(k)
  /\ phase' = [phase EXCEPT ![k] = "authenticating"]
  /\ fleet' = IF told[k] = Blank THEN [fleet EXCEPT !.ssh = hubKey] ELSE fleet
  /\ UNCHANGED <<stopped, client, connected, timer, orphans, heard, ended, told,
                 heartbeat, enroll, world>>

Ready(k) ==
  /\ phase[k] = "authenticating" /\ k \notin ended
  /\ phase' = [phase EXCEPT ![k] = "ready"]
  /\ connected' = (connected \/ k \in heard)
  /\ UNCHANGED <<fleet, stopped, client, timer, orphans, heard, ended, told,
                 heartbeat, enroll, world>>

\* The process is gone and comes back: server.js starts the tunnel and the
\* heartbeat of a managed box.
ProcessStarts ==
  LET managed == fleet.mode = "managed"
      first   == CHOOSE k \in Conns : TRUE
  IN  /\ stopped' = ~managed /\ beating' = managed
      /\ client' = IF managed THEN first ELSE None
      /\ phase' = [k \in Conns |-> IF managed /\ k = first THEN "connecting" ELSE "none"]
      /\ heard' = IF managed THEN {first} ELSE {}
      /\ ended' = {} /\ connected' = FALSE /\ timer' = FALSE /\ orphans' = 0
      /\ told' = [k \in Conns |-> IF managed /\ k = first THEN fleet.ssh ELSE Blank]
      /\ tick' = [t \in Ticks |-> Idle] /\ streak' = 0 /\ enroll' = NoEnroll
      /\ UNCHANGED fleet

\* An 'error' nobody listens to ends the process; systemd starts it again.
ErrorThenClose(k) ==
  IF k \in heard THEN Close(k) /\ UNCHANGED <<fleet, heartbeat, enroll>> ELSE ProcessStarts

\* The verifier refuses, or the connection fails before it is ready.
ConnectFails(k) ==
  /\ Opening(k) /\ k \notin ended
  /\ ErrorThenClose(k)
  /\ (IF phase[k] = "connecting" /\ Refuses(k) THEN UNCHANGED faults ELSE Fault)
  /\ UNCHANGED <<hubKey, saves>>

\* end() takes effect.
EndedCloses(k) ==
  /\ k \in ended /\ (Opening(k) \/ phase[k] = "ready")
  /\ Close(k)
  /\ UNCHANGED <<fleet, heartbeat, enroll, world>>

\* The far end drops a connection.
HubDrops(k) ==
  /\ phase[k] = "ready" /\ k \notin ended /\ Fault
  /\ Close(k)
  /\ UNCHANGED <<fleet, heartbeat, enroll, hubKey, saves>>

\* ... or it goes stale, and may report that late, or never.
GoesStale(k) ==
  /\ phase[k] = "ready" /\ Fault
  /\ phase' = [phase EXCEPT ![k] = "stale"]
  /\ UNCHANGED <<fleet, stopped, client, connected, timer, orphans, heard, ended, told,
                 heartbeat, enroll, hubKey, saves>>

LateClose(k) ==
  /\ phase[k] = "stale"
  /\ \/ Close(k) /\ UNCHANGED <<fleet, heartbeat, enroll>>
     \/ ErrorThenClose(k)
  /\ UNCHANGED world

\* The reconnect timer, and one that a newer has replaced.
TimerFires ==
  /\ timer
  /\ IF stopped THEN timer' = FALSE /\ UNCHANGED <<client, phase, heard, ended, told>>
     ELSE timer' = FALSE /\ connectOnce(fleet.ssh, {}, {})
  /\ UNCHANGED <<fleet, stopped, connected, orphans, heartbeat, enroll, world>>

OrphanFires ==
  /\ orphans > 0 /\ orphans' = orphans - 1
  /\ IF stopped THEN UNCHANGED <<client, phase, heard, ended, told>>
     ELSE connectOnce(fleet.ssh, {}, {})
  /\ UNCHANGED <<fleet, stopped, connected, timer, heartbeat, enroll, world>>

-----------------------------------------------------------------------------
(* The heartbeat.                                                          *)

\* postJson(): over the tunnel when it says it is connected, otherwise directly if
\* there is an API port.  The certificate pin is read here, before any wait.
PostJson(t, api, tls, backup) ==
  tick' = [tick EXCEPT ![t] =
    IF connected
    THEN [phase |-> "channel", via |-> client, api |-> api, tls |-> tls, backup |-> backup]
    ELSE IF api
    THEN [phase |-> "direct", via |-> None, api |-> api, tls |-> tls, backup |-> backup]
    ELSE Idle]

\* tick() up to its first wait.  start() calls it at once, the timer every 30 s,
\* whether or not the tick before it is over.
TickStarts(t) ==
  /\ beating /\ tick[t] = Idle
  /\ PostJson(t, fleet.apiPort, fleet.tls, FALSE)
  /\ UNCHANGED <<fleet, tunnel, beating, streak, enroll, world>>

ChannelOpens(t) ==
  /\ tick[t].phase = "channel"
  /\ phase[tick[t].via] = "ready" /\ tick[t].via \notin ended
  /\ tick' = [tick EXCEPT ![t].phase = "request"]
  /\ UNCHANGED <<fleet, tunnel, beating, streak, enroll, world>>

\* No channel in 10 s, or a request over one that fails.  The third in a row
\* tears the tunnel down; then the direct call, if there is an API port.
StreakEnds == streak + 1 >= THRESHOLD

TunnelFails(t) ==
  /\ tick[t].phase \in {"channel", "request"}
  /\ (IF phase[tick[t].via] = "ready" /\ tick[t].via \notin ended THEN Fault ELSE UNCHANGED faults)
  /\ IF StreakEnds THEN forceReconnect /\ streak' = 0
     ELSE streak' = streak + 1 /\ UNCHANGED tunnel
  /\ tick' = [tick EXCEPT ![t] =
       IF tick[t].api THEN [tick[t] EXCEPT !.phase = "direct", !.via = None] ELSE Idle]
  /\ UNCHANGED <<fleet, beating, enroll, hubKey, saves>>

\* A slip: a box that has pinned nothing trusts the command.
VerifiedOrUnpinned == fleet.ssh \in {hubKey, Blank}

\* verifyHubCommand(): the pin of this moment decides.
Verified == fleet.ssh = hubKey

\* The hub's answer: nothing to do, a backup to send, or another command.
Answered(t) ==
  \/ tick' = [tick EXCEPT ![t] = [Idle EXCEPT !.phase = "answered"]]
  \/ Verified /\ ~tick[t].backup /\ PostJson(t, tick[t].api, fleet'.tls, TRUE)
  \/ Verified /\ ~tick[t].backup /\ tick' = [tick EXCEPT ![t] = [Idle EXCEPT !.phase = "acting"]]

TunnelAnswers(t) ==
  /\ tick[t].phase = "request"
  /\ phase[tick[t].via] = "ready" /\ tick[t].via \notin ended
  /\ streak' = 0 /\ UNCHANGED fleet /\ Answered(t)
  /\ UNCHANGED <<tunnel, beating, enroll, world>>

\* pinnedHttps.postJson(): a blank pin trusts, and pins, the certificate it sees.
SeesCertificate(tls) == fleet' = IF tls = Blank THEN [fleet EXCEPT !.tls = hubKey] ELSE fleet

DirectAnswers(t) ==
  /\ tick[t].phase = "direct" /\ tick[t].tls \in {Blank, hubKey}
  /\ SeesCertificate(tick[t].tls) /\ Answered(t)
  /\ UNCHANGED <<tunnel, beating, streak, enroll, world>>

\* The direct call fails before or after the certificate was seen.
DirectFails(t) ==
  /\ tick[t].phase = "direct"
  /\ UNCHANGED fleet \/ SeesCertificate(tick[t].tls)
  /\ tick' = [tick EXCEPT ![t] = Idle]
  /\ UNCHANGED <<tunnel, beating, streak, enroll, world>>

\* The command is carried out, and the tick is over.
TickEnds(t) ==
  /\ tick[t].phase \in {"answered", "acting"}
  /\ tick' = [tick EXCEPT ![t] = Idle]
  /\ UNCHANGED <<fleet, tunnel, beating, streak, enroll, world>>

-----------------------------------------------------------------------------
(* The admin's requests, the hub and the process.                          *)

\* POST /api/fleet: the form's fields replace the configuration, the pins with them.
SaveFleet ==
  \E mode \in {"standalone", "managed"}, api \in BOOLEAN, ssh, tls \in {Blank, hubKey} :
    /\ saves < MaxSaves /\ saves' = saves + 1
    /\ fleet' = [mode |-> mode, apiPort |-> api, ssh |-> ssh, tls |-> tls]
    /\ beating' = (mode = "managed")
    /\ IF mode = "managed" THEN restart(ssh) ELSE stop
    /\ UNCHANGED <<tick, streak, enroll, hubKey, faults>>

\* POST /api/fleet/enroll up to its first wait: a connection of its own.
EnrollBegins ==
  \E api \in BOOLEAN :
    /\ enroll = NoEnroll /\ saves < MaxSaves /\ saves' = saves + 1
    /\ enroll' = [phase |-> "tunnel", ssh |-> fleet.ssh, tls |-> fleet.tls, api |-> api]
    /\ UNCHANGED <<fleet, tunnel, heartbeat, hubKey, faults>>

\* The enrolment went through: managed mode, with the pins there are now.
Enrolled(f) ==
  /\ fleet' = [f EXCEPT !.mode = "managed", !.apiPort = enroll.api]
  /\ restart(f.ssh) /\ beating' = TRUE
  /\ enroll' = NoEnroll

EnrollOverTunnel ==
  /\ enroll.phase = "tunnel" /\ enroll.ssh \in {Blank, hubKey}
  /\ Enrolled(IF enroll.ssh = Blank THEN [fleet EXCEPT !.ssh = hubKey] ELSE fleet)
  /\ UNCHANGED <<tick, streak, world>>

\* Not over the tunnel port (its host key may have been pinned): directly, or not at all.
EnrollFallsBack ==
  /\ enroll.phase = "tunnel"
  /\ fleet' \in {fleet, IF enroll.ssh = Blank THEN [fleet EXCEPT !.ssh = hubKey] ELSE fleet}
  /\ enroll' = IF enroll.api THEN [enroll EXCEPT !.phase = "direct"] ELSE NoEnroll
  /\ UNCHANGED <<tunnel, heartbeat, world>>

EnrollDirectly ==
  /\ enroll.phase = "direct" /\ enroll.tls \in {Blank, hubKey}
  /\ Enrolled(IF enroll.tls = Blank THEN [fleet EXCEPT !.tls = hubKey] ELSE fleet)
  /\ UNCHANGED <<tick, streak, world>>

EnrollFails ==
  /\ enroll.phase = "direct" /\ enroll' = NoEnroll
  /\ UNCHANGED fleet \/ SeesCertificate(enroll.tls)
  /\ UNCHANGED <<tunnel, heartbeat, world>>

HubRebuilt ==
  /\ Fault /\ hubKey' \in Keys \ {hubKey}
  /\ UNCHANGED <<fleet, tunnel, heartbeat, enroll, saves>>

Restarts ==
  /\ Fault /\ ProcessStarts /\ UNCHANGED <<hubKey, saves>>

ConnNext(k) ==
  \/ HostVerified(k) \/ Ready(k) \/ ConnectFails(k) \/ EndedCloses(k)
  \/ HubDrops(k) \/ GoesStale(k) \/ LateClose(k)

TickNext(t) ==
  \/ TickStarts(t) \/ ChannelOpens(t) \/ TunnelFails(t) \/ TunnelAnswers(t)
  \/ DirectAnswers(t) \/ DirectFails(t) \/ TickEnds(t)

FleetNext ==
  \/ \E k \in Conns : ConnNext(k)
  \/ TimerFires \/ OrphanFires
  \/ \E t \in Ticks : TickNext(t)
  \/ SaveFleet \/ EnrollBegins \/ EnrollOverTunnel \/ EnrollFallsBack
  \/ EnrollDirectly \/ EnrollFails
  \/ HubRebuilt \/ Restarts

FleetSpec == FleetInit /\ [][FleetNext]_fleetVars

\* Timers fire, sockets and requests come to an end one way or the other: every
\* connection attempt has its readyTimeout, every request its 10 s.
FleetFairness ==
  /\ \A k \in Conns :
       /\ WF_fleetVars(HostVerified(k) \/ Ready(k) \/ ConnectFails(k))
       /\ WF_fleetVars(EndedCloses(k))
  /\ WF_fleetVars(TimerFires) /\ WF_fleetVars(OrphanFires)
  /\ \A t \in Ticks :
       /\ WF_fleetVars(TickStarts(t))
       /\ WF_fleetVars(ChannelOpens(t) \/ TunnelFails(t) \/ TunnelAnswers(t))
       /\ WF_fleetVars(DirectAnswers(t) \/ DirectFails(t))
       /\ WF_fleetVars(TickEnds(t))

FleetFairSpec == FleetSpec /\ FleetFairness

-----------------------------------------------------------------------------
(* Properties.                                                             *)

\* The shape of the state.
FleetTypeOK ==
  /\ fleet \in [mode : {"standalone", "managed"}, apiPort : BOOLEAN,
                ssh : Keys \union {Blank}, tls : Keys \union {Blank}]
  /\ stopped \in BOOLEAN /\ client \in Conns \union {None} /\ connected \in BOOLEAN
  /\ timer \in BOOLEAN /\ orphans \in Nat
  /\ phase \in [Conns -> {"none", "connecting", "authenticating", "ready", "stale"}]
  /\ heard \subseteq Conns /\ ended \subseteq Conns
  /\ told \in [Conns -> Keys \union {Blank}]
  /\ beating \in BOOLEAN /\ streak \in Nat
  /\ hubKey \in Keys

\* What status() reports, and the dashboard and the heartbeat believe, is at least
\* possible: there is a connection with listeners that looks open.
ConnectedIsPossible == connected => \E k \in heard : Looks(k)

\* No lost reconnect: a started tunnel is connected, about to be, or has a timer
\* that will connect it, whatever late closes, second timers, forced reconnects and
\* restarts there were (lib/tunnelClient.js, connectOnce, close, forceReconnect).
ReconnectIsPending ==
  \/ stopped \/ connected \/ timer \/ orphans > 0
  \/ \E k \in heard : Opening(k)

\* Saving, enrolling and a start of the process keep them together: the tunnel runs
\* and the heartbeat beats exactly when the saved mode says so.
RunsAsConfigured == (stopped <=> fleet.mode = "standalone") /\ (beating <=> fleet.mode = "managed")

\* The tunnel's invariant, inductive as it stands but for what is typed next.
TunnelInv == FleetTypeOK /\ ConnectedIsPossible /\ ReconnectIsPending /\ RunsAsConfigured

\* What a heartbeat and an enrolment took along when they began.
Pins == Keys \union {Blank}
WorkTypeOK ==
  /\ tick \in [Ticks -> [phase : {"idle", "channel", "request", "direct", "answered", "acting"},
                        via : Conns \union {None}, api : BOOLEAN, tls : Pins, backup : BOOLEAN]]
  /\ enroll \in [phase : {"idle", "tunnel", "direct"}, ssh : Pins, tls : Pins, api : BOOLEAN]

\* The invariant of the link to the hub, inductive as it stands.
LinkInv == TunnelInv /\ WorkTypeOK

\* A managed box reaches its hub through the tunnel over and over, although a
\* connection may go stale without a word: the failing heartbeats replace it.
\* (Unless the hub's key is not the pinned one: then an admin must act.)
HeartbeatsArrive ==
  []<>(stopped \/ fleet.ssh \notin {Blank, hubKey}
       \/ \E t \in Ticks : tick[t].phase = "request" /\ phase[tick[t].via] = "ready")

\* A command acts only if the hub that sent it has the key that is pinned when the
\* answer comes, whatever was pinned when the tick began; unpinned, none does.
CommandsFollowThePin ==
  [][\A t \in Ticks :
       tick'[t].phase = "acting" /\ tick[t].phase # "acting" => fleet'.ssh = hubKey]_fleetVars

\* A box an admin has made standalone is off the tunnel: what is still open has been
\* told to end.
StandaloneIsOffline ==
  fleet.mode = "standalone" => \A k \in Conns : phase[k] = "ready" => k \in ended
=============================================================================
