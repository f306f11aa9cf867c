---------------------------- MODULE FleetLink_proofs ----------------------------
(***************************************************************************)
(* Proofs about FleetLink, for any number of connections, ticks, saves and *)
(* faults and any identities of the hub.                                   *)
(***************************************************************************)
EXTENDS FleetLink, TLAPS

\* Two connections, one of them gone or new: what the others look like stays.
LEMMA NewConnection ==
  ASSUME FleetTypeOK, NEW pin \in Keys \union {Blank},
         NEW ends \in SUBSET Conns, NEW deaf \in SUBSET Conns,
         connectOnce(pin, ends, deaf)
  PROVE  /\ client' \in Conns /\ heard' \subseteq Conns /\ ended' \subseteq Conns
         /\ phase' \in [Conns -> {"none", "connecting", "authenticating", "ready", "stale"}]
         /\ told' \in [Conns -> Keys \union {Blank}]
         /\ \E k \in heard' : Opening(k)'
         /\ \A k \in heard \ deaf : Looks(k) => k \in heard' /\ Looks(k)'
<1>1. PICK k \in Free :
        /\ client' = k
        /\ phase' = [phase EXCEPT ![k] = "connecting"]
        /\ heard' = (heard \ deaf) \union {k}
        /\ ended' = (ended \union ends) \ {k}
        /\ told' = [told EXCEPT ![k] = pin]
  BY DEF connectOnce
<1>2. k \in Conns /\ phase[k] = "none"
  BY DEF Free
<1>3. /\ client' \in Conns /\ heard' \subseteq Conns /\ ended' \subseteq Conns
      /\ phase' \in [Conns -> {"none", "connecting", "authenticating", "ready", "stale"}]
      /\ told' \in [Conns -> Keys \union {Blank}]
  BY <1>1, <1>2 DEF FleetTypeOK
<1>4. k \in heard' /\ Opening(k)'
  BY <1>1, <1>2 DEF FleetTypeOK, Opening
<1>5. \A j \in heard \ deaf : Looks(j) => j \in heard' /\ Looks(j)'
  BY <1>1, <1>2 DEF FleetTypeOK, Looks
<1> QED
  BY <1>3, <1>4, <1>5

\* A close that is heard leaves a timer armed; one that is not changes nothing the
\* program can see.
LEMMA CloseKeeps ==
  ASSUME TunnelInv, NEW k \in Conns, Close(k), UNCHANGED <<fleet, heartbeat, hubKey>>
  PROVE  TunnelInv'
<1> USE DEF TunnelInv
<1>1. FleetTypeOK'
  <2>1. /\ phase' \in [Conns -> {"none", "connecting", "authenticating", "ready", "stale"}]
        /\ told' \in [Conns -> Keys \union {Blank}]
    BY DEF FleetTypeOK, Close
  <2>2. heard' \subseteq Conns /\ ended' \subseteq Conns
    BY DEF FleetTypeOK, Close
  <2>3. connected' \in BOOLEAN /\ orphans' \in Nat
    <3>1. orphans \in Nat /\ connected \in BOOLEAN
      BY DEF FleetTypeOK
    <3>2. orphans' \in {orphans, orphans + 1}
      BY DEF Close
    <3>3. connected' = FALSE \/ connected' = connected
      BY DEF Close
    <3>4. orphans' \in Nat
      BY <3>1, <3>2
    <3>5. connected' \in BOOLEAN
      BY <3>1, <3>3, Zenon
    <3> QED
      BY <3>4, <3>5
  <2>4. timer' \in BOOLEAN
    <3>1. CASE k \in heard
      BY <3>1, Zenon DEF Close
    <3>2. CASE k \notin heard
      BY <3>2 DEF Close, FleetTypeOK
    <3> QED
      BY <3>1, <3>2
  <2> QED
    BY <2>1, <2>2, <2>3, <2>4 DEF FleetTypeOK, Close, heartbeat
<1>2. ConnectedIsPossible'
  <2>1. CASE k \in heard
    BY <2>1 DEF Close, ConnectedIsPossible
  <2>2. CASE k \notin heard
    BY <2>2 DEF Close, ConnectedIsPossible, Looks, FleetTypeOK
  <2> QED BY <2>1, <2>2
<1>3. ReconnectIsPending'
  <2>1. CASE k \in heard
    BY <2>1 DEF Close, ReconnectIsPending
  <2>2. CASE k \notin heard
    BY <2>2 DEF Close, ReconnectIsPending, Opening, FleetTypeOK
  <2> QED BY <2>1, <2>2
<1>4. RunsAsConfigured'
  BY DEF Close, RunsAsConfigured, heartbeat
<1> QED
  BY <1>1, <1>2, <1>3, <1>4

\* A process that starts connects if the box is managed, and has no connection else.
LEMMA StartKeeps ==
  ASSUME TunnelInv, ProcessStarts, UNCHANGED hubKey
  PROVE  TunnelInv'
<1> DEFINE first == CHOOSE k \in Conns : TRUE
<1>1. first \in Conns
  BY FleetAssumption
<1> HIDE DEF first
<1>2. /\ UNCHANGED <<fleet, hubKey>>
      /\ stopped' = ~(fleet.mode = "managed") /\ beating' = (fleet.mode = "managed")
      /\ client' = IF fleet.mode = "managed" THEN first ELSE None
      /\ phase' = [k \in Conns |-> IF fleet.mode = "managed" /\ k = first THEN "connecting" ELSE "none"]
      /\ heard' = IF fleet.mode = "managed" THEN {first} ELSE {}
      /\ ended' = {} /\ connected' = FALSE /\ timer' = FALSE /\ orphans' = 0
      /\ told' = [k \in Conns |-> IF fleet.mode = "managed" /\ k = first THEN fleet.ssh ELSE Blank]
      /\ streak' = 0
  BY DEF ProcessStarts, first
<1>3. FleetTypeOK'
  BY <1>1, <1>2 DEF TunnelInv, FleetTypeOK
<1>4. ConnectedIsPossible' /\ RunsAsConfigured'
  BY <1>2 DEF TunnelInv, FleetTypeOK, ConnectedIsPossible, RunsAsConfigured
<1>5. ReconnectIsPending'
  BY <1>1, <1>2 DEF ReconnectIsPending, Opening
<1> QED
  BY <1>3, <1>4, <1>5 DEF TunnelInv

\* ... which is also what an error nobody listens to comes to.
LEMMA ErrorKeeps ==
  ASSUME TunnelInv, NEW k \in Conns, ErrorThenClose(k), UNCHANGED hubKey
  PROVE  TunnelInv'
<1>1. CASE k \in heard
  BY <1>1, CloseKeeps DEF ErrorThenClose
<1>2. CASE k \notin heard
  BY <1>2, StartKeeps DEF ErrorThenClose
<1> QED
  BY <1>1, <1>2

\* What the program may end is a connection.
LEMMA CurrentIsConn == Current \in SUBSET Conns
BY DEF Current

\* stop() and start(): the tunnel is off, or has a connection of the new pin.
LEMMA RestartKeeps ==
  ASSUME TunnelInv, NEW pin \in Keys \union {Blank}, restart(pin),
         fleet' \in [mode : {"standalone", "managed"}, apiPort : BOOLEAN,
                     ssh : Keys \union {Blank}, tls : Keys \union {Blank}],
         fleet'.mode = "managed", beating' = TRUE, UNCHANGED <<streak, hubKey>>
  PROVE  TunnelInv'
<1>1. connectOnce(pin, Current, {})
  BY DEF restart
<1>2. /\ client' \in Conns /\ heard' \subseteq Conns /\ ended' \subseteq Conns
      /\ phase' \in [Conns -> {"none", "connecting", "authenticating", "ready", "stale"}]
      /\ told' \in [Conns -> Keys \union {Blank}]
      /\ \E k \in heard' : Opening(k)'
  BY <1>1, NewConnection, CurrentIsConn DEF TunnelInv
<1>3. FleetTypeOK'
  BY <1>2 DEF TunnelInv, FleetTypeOK, restart
<1> QED
  BY <1>2, <1>3 DEF TunnelInv, restart, ConnectedIsPossible, ReconnectIsPending, RunsAsConfigured

LEMMA StopKeeps ==
  ASSUME TunnelInv, stop,
         fleet' \in [mode : {"standalone", "managed"}, apiPort : BOOLEAN,
                     ssh : Keys \union {Blank}, tls : Keys \union {Blank}],
         fleet'.mode = "standalone", beating' = FALSE, UNCHANGED <<streak, hubKey>>
  PROVE  TunnelInv'
BY CurrentIsConn
DEF TunnelInv, FleetTypeOK, stop, ConnectedIsPossible, ReconnectIsPending, RunsAsConfigured

\* A timer that fires connects, unless the tunnel has been stopped.
LEMMA FiringKeeps ==
  ASSUME TunnelInv, UNCHANGED <<fleet, stopped, connected, heartbeat, hubKey>>,
         timer' \in BOOLEAN, orphans' \in Nat,
         IF stopped THEN UNCHANGED <<client, phase, heard, ended, told>>
                    ELSE connectOnce(fleet.ssh, {}, {})
  PROVE  TunnelInv'
<1>1. CASE stopped
  BY <1>1
  DEF TunnelInv, FleetTypeOK, ConnectedIsPossible, ReconnectIsPending, RunsAsConfigured, heartbeat, Looks
<1>2. CASE ~stopped
  <2>1. fleet.ssh \in Keys \union {Blank}
    BY DEF TunnelInv, FleetTypeOK
  <2>2. connectOnce(fleet.ssh, {}, {})
    BY <1>2
  <2>3. /\ client' \in Conns /\ heard' \subseteq Conns /\ ended' \subseteq Conns
        /\ phase' \in [Conns -> {"none", "connecting", "authenticating", "ready", "stale"}]
        /\ told' \in [Conns -> Keys \union {Blank}]
        /\ \E k \in heard' : Opening(k)'
        /\ \A k \in heard \ {} : Looks(k) => k \in heard' /\ Looks(k)'
    <3>1. {} \in SUBSET Conns /\ FleetTypeOK
      BY DEF TunnelInv
    <3> QED
      BY <2>1, <2>2, <3>1, NewConnection
  <2>4. FleetTypeOK'
    BY <2>3 DEF TunnelInv, FleetTypeOK, heartbeat
  <2> QED
    BY <2>3, <2>4 DEF TunnelInv, ConnectedIsPossible, ReconnectIsPending, RunsAsConfigured, heartbeat
<1> QED
  BY <1>1, <1>2

LEMMA ForceKeeps ==
  ASSUME TunnelInv, forceReconnect, streak' \in Nat, UNCHANGED <<fleet, beating, hubKey>>
  PROVE  TunnelInv'
<1>1. CASE stopped
  BY <1>1
  DEF TunnelInv, FleetTypeOK, ConnectedIsPossible, ReconnectIsPending, RunsAsConfigured,
      forceReconnect, tunnel, Looks, Opening
<1>2. CASE ~stopped
  <2>1. fleet.ssh \in Keys \union {Blank}
    BY DEF TunnelInv, FleetTypeOK
  <2>2. /\ connected' = FALSE /\ timer' = FALSE /\ UNCHANGED <<stopped, orphans>>
        /\ connectOnce(fleet.ssh, Current, Current)
    BY <1>2 DEF forceReconnect
  <2>3. /\ client' \in Conns /\ heard' \subseteq Conns /\ ended' \subseteq Conns
        /\ phase' \in [Conns -> {"none", "connecting", "authenticating", "ready", "stale"}]
        /\ told' \in [Conns -> Keys \union {Blank}]
        /\ \E k \in heard' : Opening(k)'
    BY <2>1, <2>2, NewConnection, CurrentIsConn DEF TunnelInv
  <2>4. FleetTypeOK'
    BY <2>2, <2>3 DEF TunnelInv, FleetTypeOK
  <2> QED
    BY <2>2, <2>3, <2>4 DEF TunnelInv, ConnectedIsPossible, ReconnectIsPending, RunsAsConfigured
<1> QED
  BY <1>1, <1>2

\* Steps that leave the tunnel, the mode and the heartbeat's timer as they are.
LEMMA ElsewhereKeeps ==
  ASSUME TunnelInv, UNCHANGED <<tunnel, beating>>, streak' \in Nat, hubKey' \in Keys,
         fleet' \in [mode : {"standalone", "managed"}, apiPort : BOOLEAN,
                     ssh : Keys \union {Blank}, tls : Keys \union {Blank}],
         fleet'.mode = fleet.mode
  PROVE  TunnelInv'
BY DEF TunnelInv, FleetTypeOK, ConnectedIsPossible, ReconnectIsPending, RunsAsConfigured,
       tunnel, Looks, Opening

\* A step of one connection.
LEMMA ConnStepKeeps ==
  ASSUME TunnelInv, NEW k \in Conns, ConnNext(k)
  PROVE  TunnelInv'
<1>1. CASE HostVerified(k)
  <2>1. fleet' \in [mode : {"standalone", "managed"}, apiPort : BOOLEAN,
                    ssh : Keys \union {Blank}, tls : Keys \union {Blank}]
        /\ fleet'.mode = fleet.mode
    BY <1>1 DEF HostVerified, TunnelInv, FleetTypeOK
  <2>2. FleetTypeOK'
    BY <1>1, <2>1 DEF HostVerified, TunnelInv, FleetTypeOK, heartbeat, world
  <2>3. ConnectedIsPossible'
    BY <1>1 DEF HostVerified, TunnelInv, FleetTypeOK, ConnectedIsPossible, Looks
  <2>4. ReconnectIsPending'
    BY <1>1 DEF HostVerified, TunnelInv, FleetTypeOK, ReconnectIsPending, Opening
  <2>5. RunsAsConfigured'
    BY <1>1, <2>1 DEF HostVerified, TunnelInv, RunsAsConfigured, heartbeat
  <2> QED
    BY <2>2, <2>3, <2>4, <2>5 DEF TunnelInv
<1>2. CASE Ready(k)
  <2>1. connected' \in BOOLEAN
    <3>1. CASE k \in heard
      BY <1>2, <3>1 DEF Ready
    <3>2. CASE k \notin heard
      BY <1>2, <3>2 DEF Ready, TunnelInv, FleetTypeOK
    <3> QED
      BY <3>1, <3>2
  <2>2. FleetTypeOK'
    BY <1>2, <2>1 DEF Ready, TunnelInv, FleetTypeOK, heartbeat, world
  <2>3. ConnectedIsPossible'
    BY <1>2 DEF Ready, TunnelInv, FleetTypeOK, ConnectedIsPossible, Looks
  <2>4. ReconnectIsPending'
    BY <1>2 DEF Ready, TunnelInv, FleetTypeOK, ReconnectIsPending, Opening
  <2>5. RunsAsConfigured'
    BY <1>2 DEF Ready, TunnelInv, RunsAsConfigured, heartbeat
  <2> QED
    BY <2>2, <2>3, <2>4, <2>5 DEF TunnelInv
<1>3. CASE ConnectFails(k)
  BY <1>3, ErrorKeeps DEF ConnectFails
<1>4. CASE EndedCloses(k)
  BY <1>4, CloseKeeps DEF EndedCloses, world
<1>5. CASE HubDrops(k)
  BY <1>5, CloseKeeps DEF HubDrops
<1>6. CASE GoesStale(k)
  <2>1. FleetTypeOK'
    BY <1>6 DEF GoesStale, TunnelInv, FleetTypeOK, heartbeat
  <2>2. ConnectedIsPossible'
    BY <1>6 DEF GoesStale, TunnelInv, FleetTypeOK, ConnectedIsPossible, Looks
  <2>3. ReconnectIsPending'
    BY <1>6 DEF GoesStale, TunnelInv, FleetTypeOK, ReconnectIsPending, Opening
  <2>4. RunsAsConfigured'
    BY <1>6 DEF GoesStale, TunnelInv, RunsAsConfigured, heartbeat
  <2> QED
    BY <2>1, <2>2, <2>3, <2>4 DEF TunnelInv
<1>7. CASE LateClose(k)
  BY <1>7, CloseKeeps, ErrorKeeps DEF LateClose, world
<1> QED
  BY <1>1, <1>2, <1>3, <1>4, <1>5, <1>6, <1>7 DEF ConnNext

\* The certificate of the hub may be pinned; nothing else of the configuration moves.
LEMMA CertificateIsPinned ==
  ASSUME FleetTypeOK, NEW tls, SeesCertificate(tls) \/ UNCHANGED fleet
  PROVE  /\ fleet' \in [mode : {"standalone", "managed"}, apiPort : BOOLEAN,
                         ssh : Keys \union {Blank}, tls : Keys \union {Blank}]
         /\ fleet'.mode = fleet.mode /\ fleet'.ssh = fleet.ssh
BY DEF FleetTypeOK, SeesCertificate

\* A step of one heartbeat.
LEMMA TickStepKeeps ==
  ASSUME TunnelInv, NEW t \in Ticks, TickNext(t)
  PROVE  TunnelInv'
<1> FleetTypeOK /\ streak \in Nat /\ hubKey \in Keys
  BY DEF TunnelInv, FleetTypeOK
<1>0. fleet \in [mode : {"standalone", "managed"}, apiPort : BOOLEAN,
                 ssh : Keys \union {Blank}, tls : Keys \union {Blank}]
  BY DEF FleetTypeOK
<1>1. CASE TickStarts(t) \/ ChannelOpens(t) \/ TickEnds(t)
  BY <1>0, <1>1, ElsewhereKeeps DEF TickStarts, ChannelOpens, TickEnds, world
<1>2. CASE TunnelFails(t)
  <2>1. UNCHANGED <<fleet, beating, hubKey>>
    BY <1>2 DEF TunnelFails
  <2>2. CASE StreakEnds
    BY <1>2, <2>1, <2>2, ForceKeeps DEF TunnelFails
  <2>3. CASE ~StreakEnds
    BY <1>0, <1>2, <2>1, <2>3, ElsewhereKeeps DEF TunnelFails
  <2> QED
    BY <2>2, <2>3
<1>3. CASE TunnelAnswers(t)
  BY <1>0, <1>3, ElsewhereKeeps DEF TunnelAnswers, world
<1>4. CASE DirectAnswers(t) \/ DirectFails(t)
  <2>1. SeesCertificate(tick[t].tls) \/ UNCHANGED fleet
    BY <1>4 DEF DirectAnswers, DirectFails
  <2> QED
    BY <1>4, <2>1, CertificateIsPinned, ElsewhereKeeps DEF DirectAnswers, DirectFails, world
<1> QED
  BY <1>1, <1>2, <1>3, <1>4 DEF TickNext

\* The admin's requests.
LEMMA RequestKeeps ==
  ASSUME TunnelInv, WorkTypeOK,
         SaveFleet \/ EnrollBegins \/ EnrollOverTunnel \/ EnrollFallsBack
           \/ EnrollDirectly \/ EnrollFails
  PROVE  TunnelInv'
<1> FleetTypeOK /\ streak \in Nat /\ hubKey \in Keys
  BY DEF TunnelInv, FleetTypeOK
<1> DEFINE Fleets == [mode : {"standalone", "managed"}, apiPort : BOOLEAN,
                      ssh : Keys \union {Blank}, tls : Keys \union {Blank}]
<1>0. fleet \in Fleets
  BY DEF FleetTypeOK
<1>1. CASE SaveFleet
  <2>1. PICK mode \in {"standalone", "managed"}, api \in BOOLEAN, ssh \in {Blank, hubKey},
             tls \in {Blank, hubKey} :
          /\ fleet' = [mode |-> mode, apiPort |-> api, ssh |-> ssh, tls |-> tls]
          /\ beating' = (mode = "managed")
          /\ IF mode = "managed" THEN restart(ssh) ELSE stop
          /\ UNCHANGED <<streak, hubKey>>
    BY <1>1 DEF SaveFleet
  <2>2. fleet' \in Fleets /\ fleet'.mode = mode /\ ssh \in Keys \union {Blank}
    BY <2>1
  <2>3. CASE mode = "managed"
    BY <2>1, <2>2, <2>3, RestartKeeps
  <2>4. CASE mode = "standalone"
    BY <2>1, <2>2, <2>4, StopKeeps
  <2> QED
    BY <2>3, <2>4
<1>2. CASE EnrollBegins
  BY <1>0, <1>2, ElsewhereKeeps DEF EnrollBegins, heartbeat
<1>3. ASSUME NEW f \in Fleets, Enrolled(f), UNCHANGED <<tick, streak, world>>
      PROVE  TunnelInv'
  <2>1. fleet' \in Fleets /\ fleet'.mode = "managed"
    BY <1>3 DEF Enrolled, WorkTypeOK
  <2>2. restart(f.ssh) /\ beating' = TRUE /\ f.ssh \in Keys \union {Blank}
    BY <1>3 DEF Enrolled
  <2> QED
    BY <1>3, <2>1, <2>2, RestartKeeps DEF world
<1>4. CASE EnrollOverTunnel
  <2>1. PICK f \in Fleets : Enrolled(f)
    BY <1>0, <1>4 DEF EnrollOverTunnel
  <2> QED
    BY <1>3, <1>4, <2>1 DEF EnrollOverTunnel
<1>5. CASE EnrollFallsBack
  <2>1. fleet' \in Fleets /\ fleet'.mode = fleet.mode
    BY <1>0, <1>5 DEF EnrollFallsBack
  <2> QED
    BY <1>5, <2>1, ElsewhereKeeps DEF EnrollFallsBack, heartbeat, world
<1>6. CASE EnrollDirectly
  <2>1. PICK f \in Fleets : Enrolled(f)
    BY <1>0, <1>6 DEF EnrollDirectly
  <2> QED
    BY <1>3, <1>6, <2>1 DEF EnrollDirectly
<1>7. CASE EnrollFails
  BY <1>7, CertificateIsPinned, ElsewhereKeeps DEF EnrollFails, heartbeat, world
<1> QED
  BY <1>1, <1>2, <1>4, <1>5, <1>6, <1>7

\* A request of the heartbeat takes well-typed things along, and never acts.
LEMMA PostIsTyped ==
  ASSUME FleetTypeOK, WorkTypeOK, NEW t \in Ticks, NEW api \in BOOLEAN, NEW tls \in Pins,
         NEW b \in BOOLEAN, PostJson(t, api, tls, b)
  PROVE  /\ tick' \in [Ticks -> [phase : {"idle", "channel", "request", "direct", "answered", "acting"},
                           via : Conns \union {None}, api : BOOLEAN, tls : Pins, backup : BOOLEAN]]
         /\ tick'[t].phase # "acting"
         /\ \A u \in Ticks \ {t} : tick'[u] = tick[u]
<1> DEFINE new == IF connected
                  THEN [phase |-> "channel", via |-> client, api |-> api, tls |-> tls, backup |-> b]
                  ELSE IF api
                  THEN [phase |-> "direct", via |-> None, api |-> api, tls |-> tls, backup |-> b]
                  ELSE Idle
<1>1. tick' = [tick EXCEPT ![t] = new]
  BY DEF PostJson
<1>2. /\ new \in [phase : {"idle", "channel", "request", "direct", "answered", "acting"},
                  via : Conns \union {None}, api : BOOLEAN, tls : Pins, backup : BOOLEAN]
      /\ new.phase # "acting"
  BY DEF FleetTypeOK, Idle, Pins
<1> HIDE DEF new
<1> QED
  BY <1>1, <1>2 DEF WorkTypeOK

\* An answer acts only if it is verified.
LEMMA AnswerIsTyped ==
  ASSUME FleetTypeOK, WorkTypeOK, NEW t \in Ticks, fleet'.tls \in Pins, Answered(t)
  PROVE  /\ tick' \in [Ticks -> [phase : {"idle", "channel", "request", "direct", "answered", "acting"},
                           via : Conns \union {None}, api : BOOLEAN, tls : Pins, backup : BOOLEAN]]
         /\ tick'[t].phase = "acting" => Verified
         /\ \A u \in Ticks \ {t} : tick'[u] = tick[u]
<1>1. CASE tick' = [tick EXCEPT ![t] = [Idle EXCEPT !.phase = "answered"]]
  BY <1>1 DEF WorkTypeOK, Idle, Pins
<1>2. CASE PostJson(t, tick[t].api, fleet'.tls, TRUE)
  <2>1. tick[t].api \in BOOLEAN
    BY DEF WorkTypeOK
  <2> QED
    BY <1>2, <2>1, PostIsTyped
<1>3. CASE Verified /\ tick' = [tick EXCEPT ![t] = [Idle EXCEPT !.phase = "acting"]]
  BY <1>3 DEF WorkTypeOK, Idle, Pins
<1> QED
  BY <1>1, <1>2, <1>3 DEF Answered

\* What one heartbeat does to the ticks, and under which pin.
LEMMA TickMoves ==
  ASSUME FleetTypeOK, WorkTypeOK, NEW t \in Ticks, TickNext(t)
  PROVE  /\ WorkTypeOK'
         /\ \A u \in Ticks :
              tick'[u].phase = "acting" /\ tick[u].phase # "acting" => fleet'.ssh = hubKey
<1>0. UNCHANGED enroll
  BY DEF TickNext, TickStarts, ChannelOpens, TunnelFails, TunnelAnswers, DirectAnswers,
         DirectFails, TickEnds
<1>1. CASE TickStarts(t)
  <2>1. fleet.apiPort \in BOOLEAN /\ fleet.tls \in Pins
    BY DEF FleetTypeOK, Pins
  <2>2. PostJson(t, fleet.apiPort, fleet.tls, FALSE)
    BY <1>1 DEF TickStarts
  <2> QED
    BY <1>0, <2>1, <2>2, PostIsTyped DEF WorkTypeOK
<1>2. CASE ChannelOpens(t)
  BY <1>0, <1>2 DEF ChannelOpens, WorkTypeOK
<1>3. CASE TunnelFails(t)
  <2> DEFINE calls == [phase : {"idle", "channel", "request", "direct", "answered", "acting"},
                       via : Conns \union {None}, api : BOOLEAN, tls : Pins, backup : BOOLEAN]
             next  == IF tick[t].api THEN [tick[t] EXCEPT !.phase = "direct", !.via = None] ELSE Idle
  <2>1. tick[t] \in calls /\ tick \in [Ticks -> calls]
    BY DEF WorkTypeOK
  <2>2. Idle \in calls /\ Idle.phase # "acting"
    BY DEF Idle, Pins
  <2>3. next \in calls /\ next.phase # "acting"
    BY <2>1, <2>2
  <2>4. tick' = [tick EXCEPT ![t] = next]
    BY <1>3 DEF TunnelFails
  <2> HIDE DEF next
  <2>5. /\ tick' \in [Ticks -> calls] /\ tick'[t].phase # "acting"
        /\ \A u \in Ticks \ {t} : tick'[u] = tick[u]
    BY <2>1, <2>3, <2>4
  <2> QED
    BY <1>0, <2>5 DEF WorkTypeOK
<1>4. CASE TunnelAnswers(t)
  <2>1. UNCHANGED fleet /\ Answered(t) /\ fleet'.tls \in Pins
    BY <1>4 DEF TunnelAnswers, FleetTypeOK, Pins
  <2> QED
    BY <1>0, <2>1, AnswerIsTyped DEF WorkTypeOK, Verified
<1>5. CASE DirectAnswers(t)
  <2>1. SeesCertificate(tick[t].tls) /\ Answered(t)
    BY <1>5 DEF DirectAnswers
  <2>2. fleet'.tls \in Pins /\ fleet'.ssh = fleet.ssh
    BY <2>1, CertificateIsPinned DEF Pins
  <2> QED
    BY <1>0, <2>1, <2>2, AnswerIsTyped DEF WorkTypeOK, Verified
<1>6. CASE DirectFails(t) \/ TickEnds(t)
  <2>1. tick' = [tick EXCEPT ![t] = Idle]
    BY <1>6 DEF DirectFails, TickEnds
  <2>2. Idle \in [phase : {"idle", "channel", "request", "direct", "answered", "acting"},
                  via : Conns \union {None}, api : BOOLEAN, tls : Pins, backup : BOOLEAN]
        /\ Idle.phase # "acting"
    BY DEF Idle, Pins
  <2> QED
    BY <1>0, <2>1, <2>2 DEF WorkTypeOK
<1> QED
  BY <1>1, <1>2, <1>3, <1>4, <1>5, <1>6 DEF TickNext

\* A process that starts has no heartbeat and no enrolment under way.
LEMMA StartIsIdle ==
  ASSUME WorkTypeOK, ProcessStarts
  PROVE  WorkTypeOK' /\ \A u \in Ticks : tick'[u].phase # "acting"
BY DEF ProcessStarts, WorkTypeOK, Idle, NoEnroll, Pins

\* No other step touches the ticks.
LEMMA WorkMoves ==
  ASSUME FleetTypeOK, WorkTypeOK, [FleetNext]_fleetVars
  PROVE  /\ WorkTypeOK'
         /\ \A u \in Ticks :
              tick'[u].phase = "acting" /\ tick[u].phase # "acting" => fleet'.ssh = hubKey
<1>1. CASE \E k \in Conns : ConnNext(k)
  <2>1. ProcessStarts \/ UNCHANGED <<heartbeat, enroll>>
    BY <1>1 DEF ConnNext, HostVerified, Ready, ConnectFails, EndedCloses, HubDrops, GoesStale,
                LateClose, ErrorThenClose
  <2> QED
    BY <2>1, StartIsIdle DEF heartbeat, WorkTypeOK
<1>2. CASE TimerFires \/ OrphanFires
  BY <1>2 DEF TimerFires, OrphanFires, heartbeat, WorkTypeOK
<1>3. CASE \E t \in Ticks : TickNext(t)
  BY <1>3, TickMoves
<1>4. CASE SaveFleet
  BY <1>4 DEF SaveFleet, WorkTypeOK
<1>5. CASE EnrollBegins
  <2>1. UNCHANGED tick /\ enroll'.phase = "tunnel"
    BY <1>5 DEF EnrollBegins, heartbeat
  <2>2. enroll' \in [phase : {"idle", "tunnel", "direct"}, ssh : Pins, tls : Pins, api : BOOLEAN]
    BY <1>5 DEF EnrollBegins, FleetTypeOK, Pins
  <2> QED
    BY <2>1, <2>2 DEF WorkTypeOK
<1>6. CASE EnrollOverTunnel \/ EnrollFallsBack \/ EnrollDirectly \/ EnrollFails
  <2>1. UNCHANGED tick
    BY <1>6 DEF EnrollOverTunnel, EnrollFallsBack, EnrollDirectly, EnrollFails, heartbeat
  <2>2. enroll' \in {NoEnroll, enroll, [enroll EXCEPT !.phase = "direct"]}
    BY <1>6 DEF EnrollOverTunnel, EnrollFallsBack, EnrollDirectly, EnrollFails, Enrolled
  <2>3. NoEnroll \in [phase : {"idle", "tunnel", "direct"}, ssh : Pins, tls : Pins, api : BOOLEAN]
    BY DEF NoEnroll, Pins
  <2>4. [enroll EXCEPT !.phase = "direct"]
          \in [phase : {"idle", "tunnel", "direct"}, ssh : Pins, tls : Pins, api : BOOLEAN]
    BY DEF WorkTypeOK
  <2>5. enroll' \in [phase : {"idle", "tunnel", "direct"}, ssh : Pins, tls : Pins, api : BOOLEAN]
    BY <2>2, <2>3, <2>4 DEF WorkTypeOK
  <2> QED
    BY <2>1, <2>5 DEF WorkTypeOK
<1>7. CASE HubRebuilt
  BY <1>7 DEF HubRebuilt, heartbeat, WorkTypeOK
<1>8. CASE Restarts
  BY <1>8, StartIsIdle DEF Restarts
<1>9. CASE UNCHANGED fleetVars
  BY <1>9 DEF fleetVars, heartbeat, WorkTypeOK
<1> QED
  BY <1>1, <1>2, <1>3, <1>4, <1>5, <1>6, <1>7, <1>8, <1>9 DEF FleetNext

\* The invariant holds at the start ...
LEMMA LinkStarts == FleetInit => LinkInv
<1> SUFFICES ASSUME FleetInit PROVE LinkInv
  OBVIOUS
<1>1. FleetTypeOK
  BY DEF FleetInit, FleetTypeOK
<1>2. ConnectedIsPossible /\ ReconnectIsPending /\ RunsAsConfigured
  BY DEF FleetInit, ConnectedIsPossible, ReconnectIsPending, RunsAsConfigured
<1>3. WorkTypeOK
  BY DEF FleetInit, WorkTypeOK, Idle, NoEnroll, Pins
<1> QED
  BY <1>1, <1>2, <1>3 DEF LinkInv, TunnelInv

\* ... and every step keeps it.
LEMMA LinkKeeps == LinkInv /\ [FleetNext]_fleetVars => LinkInv'
<1> SUFFICES ASSUME LinkInv, [FleetNext]_fleetVars PROVE LinkInv'
  OBVIOUS
<1> TunnelInv /\ WorkTypeOK /\ FleetTypeOK
  BY DEF LinkInv, TunnelInv
<1>1. WorkTypeOK'
  BY WorkMoves
<1>2. TunnelInv'
  <2> streak \in Nat /\ hubKey \in Keys /\ orphans \in Nat
      /\ fleet \in [mode : {"standalone", "managed"}, apiPort : BOOLEAN,
                    ssh : Keys \union {Blank}, tls : Keys \union {Blank}]
    BY DEF FleetTypeOK
  <2>1. CASE \E k \in Conns : ConnNext(k)
    BY <2>1, ConnStepKeeps
  <2>2. CASE TimerFires
    <3>1. IF stopped THEN UNCHANGED <<client, phase, heard, ended, told>>
                     ELSE connectOnce(fleet.ssh, {}, {})
      BY <2>2 DEF TimerFires
    <3>2. timer' \in BOOLEAN /\ orphans' \in Nat
          /\ UNCHANGED <<fleet, stopped, connected, heartbeat, hubKey>>
      BY <2>2 DEF TimerFires, world
    <3> QED
      BY <3>1, <3>2, FiringKeeps
  <2>3. CASE OrphanFires
    <3>1. IF stopped THEN UNCHANGED <<client, phase, heard, ended, told>>
                     ELSE connectOnce(fleet.ssh, {}, {})
      BY <2>3 DEF OrphanFires
    <3>2. orphans' \in Nat
      BY <2>3 DEF OrphanFires
    <3>3. timer' \in BOOLEAN /\ UNCHANGED <<fleet, stopped, connected, heartbeat, hubKey>>
      BY <2>3 DEF OrphanFires, world, FleetTypeOK
    <3> QED
      BY <3>1, <3>2, <3>3, FiringKeeps
  <2>4. CASE \E t \in Ticks : TickNext(t)
    BY <2>4, TickStepKeeps
  <2>5. CASE SaveFleet \/ EnrollBegins \/ EnrollOverTunnel \/ EnrollFallsBack
               \/ EnrollDirectly \/ EnrollFails
    BY <2>5, RequestKeeps
  <2>6. CASE HubRebuilt
    BY <2>6, ElsewhereKeeps DEF HubRebuilt, heartbeat
  <2>7. CASE Restarts
    BY <2>7, StartKeeps DEF Restarts
  <2>8. CASE UNCHANGED fleetVars
    BY <2>8, ElsewhereKeeps DEF fleetVars, heartbeat, world
  <2> QED
    BY <2>1, <2>2, <2>3, <2>4, <2>5, <2>6, <2>7, <2>8 DEF FleetNext
<1> QED
  BY <1>1, <1>2 DEF LinkInv

(* No reconnect is lost, what the tunnel says of itself is possible, and    *)
(* the saved mode is what runs: LinkInv always holds (lib/tunnelClient.js,  *)
(* lib/fleetHeartbeat.js).                                                  *)
THEOREM LinkIsKept == FleetSpec => []LinkInv
<1>1. FleetInit => LinkInv
  BY LinkStarts
<1>2. LinkInv /\ [FleetNext]_fleetVars => LinkInv'
  BY LinkKeeps
<1> QED
  BY <1>1, <1>2, PTL DEF FleetSpec

(* A heartbeat carries a command out only under the pin of the hub that     *)
(* sent it (lib/fleetHeartbeat.js, verifyHubCommand).                       *)
THEOREM PinIsObeyed == FleetSpec => CommandsFollowThePin
<1>1. LinkInv /\ [FleetNext]_fleetVars =>
        [\A t \in Ticks :
           tick'[t].phase = "acting" /\ tick[t].phase # "acting" => fleet'.ssh = hubKey]_fleetVars
  BY WorkMoves DEF LinkInv, TunnelInv
<1>2. FleetSpec => []LinkInv
  BY LinkIsKept
<1> QED
  BY <1>1, <1>2, PTL DEF FleetSpec, CommandsFollowThePin
=============================================================================
