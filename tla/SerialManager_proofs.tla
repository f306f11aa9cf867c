------------------------ MODULE SerialManager_proofs ------------------------
(***************************************************************************)
(* Proofs about SerialManager, for any finite set of sessions, any set of  *)
(* ports and any access modes.                                             *)
(***************************************************************************)
EXTENDS SerialManager, Sequences, FiniteSetTheorems, WellFoundedInduction, TLAPS

-----------------------------------------------------------------------------
(* A set of sessions is finite and can be counted.                          *)
LEMMA FiniteSessions ==
  ASSUME NEW S \in SUBSET Sessions
  PROVE  IsFiniteSet(S) /\ Cardinality(S) \in Nat
BY SessionsAssumption, FS_Subset, FS_CardinalityType

(* Attached and Waiting, elementwise.                                       *)
LEMMA AttachedElements ==
  ASSUME NEW s
  PROVE  /\ s \in Attached <=> \E p \in Ports : s \in sessions[p]
         /\ s \in Waiting  <=> \E p \in Ports : s \in waiting[p]
BY DEF Attached, Waiting

(* The manager starts with nothing open, in a state of the invariant.       *)
LEMMA InitInv == Init => IInv
BY FS_EmptySet
DEF Init, IInv, TypeOK, EntryMatchesHolders, RefCountMatches, OnePortPerSession,
    SeniorityIsTotal, ExclusiveIsOldest, Members, AccessModes, NotOpen

-----------------------------------------------------------------------------
(* open() on a port nobody has registers an entry with one waiting caller.  *)
LEMMA OpenDeviceInv ==
  ASSUME IInv, NEW s \in Sessions, NEW p \in Ports, NEW mode \in Modes,
         Idle(s), OpenDevice(s, p, mode)
  PROVE  IInv'
<1>1. TypeOK'
  BY ModesAssumption DEF IInv, TypeOK, OpenDevice
<1>2. s \notin Attached /\ s \notin Waiting /\ elders[s] = {}
  BY DEF Idle, IInv, OnePortPerSession
<1>3. \A q \in Ports : s \notin Members(q)
  BY <1>2, AttachedElements DEF Members
<1>4. /\ Members(p)' = {s} /\ Members(p) = {}
      /\ \A q \in Ports \ {p} : Members(q)' = Members(q)
  BY DEF OpenDevice, IInv, TypeOK, EntryMatchesHolders, Members
<1>5. /\ \A t \in Sessions \ {s} : access'[t] = access[t]
      /\ elders' = elders
  BY DEF OpenDevice, IInv, TypeOK
<1>6. EntryMatchesHolders'
  BY DEF IInv, TypeOK, EntryMatchesHolders, OpenDevice
<1>7. RefCountMatches'
  BY DEF IInv, RefCountMatches, OpenDevice
<1>8. OnePortPerSession'
  <2>1. \A q, r \in Ports : q # r => Members(q)' \intersect Members(r)' = {}
    BY <1>3, <1>4 DEF IInv, OnePortPerSession
  <2>2. Attached' = Attached /\ Waiting \subseteq Waiting'
    BY DEF OpenDevice, Attached, Waiting, IInv, TypeOK, EntryMatchesHolders
  <2>3. \A q \in Ports : \A t \in Members(q)' : access'[t] # NotOpen
    BY <1>3, <1>4, <1>5, ModesAssumption
    DEF OpenDevice, IInv, TypeOK, OnePortPerSession, Members, AccessModes, NotOpen
  <2>. QED
    BY <1>5, <2>1, <2>2, <2>3 DEF IInv, OnePortPerSession
<1>9. SeniorityIsTotal'
  BY <1>2, <1>4, <1>5 DEF IInv, SeniorityIsTotal
<1>10. ExclusiveIsOldest'
  <2>. SUFFICES ASSUME NEW q \in Ports, NEW t \in Members(q)', access'[t] = "exclusive"
                PROVE  elders'[t] = {}
    BY DEF ExclusiveIsOldest
  <2>1. CASE t = s
    BY <2>1, <1>2, <1>5
  <2>2. CASE t # s
    <3>1. t \in Members(q) /\ t \in Sessions
      BY <2>2, <1>4 DEF Members, IInv, TypeOK
    <3>. QED
      BY <3>1, <2>2, <1>5 DEF IInv, ExclusiveIsOldest
  <2>. QED
    BY <2>1, <2>2
<1>. QED
  BY <1>1, <1>6, <1>7, <1>8, <1>9, <1>10 DEF IInv

(* A caller that finds the open in flight waits behind the others.          *)
LEMMA AwaitDeviceInv ==
  ASSUME IInv, NEW s \in Sessions, NEW p \in Ports, NEW mode \in Modes,
         Idle(s), AwaitDevice(s, p, mode)
  PROVE  IInv'
<1>1. TypeOK'
  BY ModesAssumption DEF IInv, TypeOK, AwaitDevice
<1>2. s \notin Attached /\ s \notin Waiting /\ elders[s] = {}
  BY DEF Idle, IInv, OnePortPerSession
<1>3. \A q \in Ports : s \notin Members(q)
  BY <1>2, AttachedElements DEF Members
<1>4. /\ Members(p)' = Members(p) \union {s} /\ Members(p) = waiting[p]
      /\ \A q \in Ports \ {p} : Members(q)' = Members(q)
  BY DEF AwaitDevice, IInv, TypeOK, EntryMatchesHolders, Members
<1>5. /\ \A t \in Sessions \ {s} : access'[t] = access[t] /\ elders'[t] = elders[t]
      /\ access'[s] = mode /\ elders'[s] = Members(p) /\ mode # "exclusive"
  BY <1>4 DEF AwaitDevice, Refused, IInv, TypeOK
<1>6. EntryMatchesHolders'
  BY DEF IInv, TypeOK, EntryMatchesHolders, AwaitDevice
<1>7. RefCountMatches'
  BY DEF IInv, RefCountMatches, AwaitDevice
<1>8. OnePortPerSession'
  <2>1. \A q, r \in Ports : q # r => Members(q)' \intersect Members(r)' = {}
    BY <1>3, <1>4 DEF IInv, OnePortPerSession
  <2>2. Attached' = Attached /\ Waiting \subseteq Waiting' /\ s \in Waiting'
    BY DEF AwaitDevice, Attached, Waiting, IInv, TypeOK
  <2>3. \A q \in Ports : \A t \in Members(q)' : access'[t] # NotOpen
    BY <1>3, <1>4, <1>5, ModesAssumption DEF IInv, TypeOK, OnePortPerSession, Members, AccessModes, NotOpen
  <2>. QED
    BY <1>5, <2>1, <2>2, <2>3 DEF IInv, OnePortPerSession
<1>9. SeniorityIsTotal'
  <2>. SUFFICES ASSUME NEW q \in Ports, NEW t \in Members(q)'
                PROVE  /\ elders'[t] \subseteq Members(q)' \ {t}
                       /\ \A u \in Members(q)' \ {t} :
                            /\ (t \in elders'[u]) # (u \in elders'[t])
                            /\ u \in elders'[t] => elders'[u] \subseteq elders'[t]
    BY DEF SeniorityIsTotal
  <2>1. \A r \in Ports : \A v \in Members(r) :
          v \in Sessions /\ v # s /\ elders'[v] = elders[v] /\ elders[v] \subseteq Members(r) \ {v}
    BY <1>3, <1>5 DEF Members, IInv, TypeOK, SeniorityIsTotal
  <2>2. CASE q = p /\ t = s
    BY <2>1, <2>2, <1>3, <1>4, <1>5
  <2>3. CASE t # s
    <3>1. t \in Members(q)
      BY <2>3, <1>4
    <3>. QED
      BY <3>1, <2>1, <2>3, <1>3, <1>4, <1>5 DEF IInv, SeniorityIsTotal
  <2>. QED
    BY <2>2, <2>3, <1>3, <1>4
<1>10. ExclusiveIsOldest'
  BY <1>3, <1>4, <1>5 DEF IInv, ExclusiveIsOldest, TypeOK, Members
<1>. QED
  BY <1>1, <1>6, <1>7, <1>8, <1>9, <1>10 DEF IInv

(* A caller that finds the port open attaches behind its holders.           *)
LEMMA JoinOpenPortInv ==
  ASSUME IInv, NEW s \in Sessions, NEW p \in Ports, NEW mode \in Modes,
         Idle(s), JoinOpenPort(s, p, mode)
  PROVE  IInv'
<1>1. TypeOK'
  BY ModesAssumption DEF IInv, TypeOK, JoinOpenPort
<1>2. s \notin Attached /\ s \notin Waiting /\ elders[s] = {}
  BY DEF Idle, IInv, OnePortPerSession
<1>3. \A q \in Ports : s \notin Members(q)
  BY <1>2, AttachedElements DEF Members
<1>4. /\ Members(p)' = Members(p) \union {s} /\ Members(p) = sessions[p]
      /\ \A q \in Ports \ {p} : Members(q)' = Members(q)
  BY DEF JoinOpenPort, IInv, TypeOK, EntryMatchesHolders, Members
<1>5. /\ \A t \in Sessions \ {s} : access'[t] = access[t] /\ elders'[t] = elders[t]
      /\ access'[s] = mode /\ elders'[s] = Members(p) /\ mode # "exclusive"
  BY <1>4 DEF JoinOpenPort, Refused, IInv, TypeOK
<1>6. EntryMatchesHolders'
  BY DEF IInv, TypeOK, EntryMatchesHolders, JoinOpenPort
<1>7. RefCountMatches'
  <2>1. sessions[p] \in SUBSET Sessions /\ s \notin sessions[p]
    BY <1>3 DEF IInv, TypeOK, Members
  <2>2. Cardinality(sessions[p] \union {s}) = Cardinality(sessions[p]) + 1
    BY <2>1, FiniteSessions, FS_AddElement
  <2>. QED
    BY <2>2 DEF IInv, TypeOK, RefCountMatches, JoinOpenPort
<1>8. OnePortPerSession'
  <2>1. \A q, r \in Ports : q # r => Members(q)' \intersect Members(r)' = {}
    BY <1>3, <1>4 DEF IInv, OnePortPerSession
  <2>2. Attached \subseteq Attached' /\ Waiting = Waiting' /\ s \in Attached'
    BY DEF JoinOpenPort, Attached, Waiting, IInv, TypeOK
  <2>3. \A q \in Ports : \A t \in Members(q)' : access'[t] # NotOpen
    BY <1>3, <1>4, <1>5, ModesAssumption DEF IInv, TypeOK, OnePortPerSession, Members, AccessModes, NotOpen
  <2>. QED
    BY <1>5, <2>1, <2>2, <2>3 DEF IInv, OnePortPerSession
<1>9. SeniorityIsTotal'
  <2>. SUFFICES ASSUME NEW q \in Ports, NEW t \in Members(q)'
                PROVE  /\ elders'[t] \subseteq Members(q)' \ {t}
                       /\ \A u \in Members(q)' \ {t} :
                            /\ (t \in elders'[u]) # (u \in elders'[t])
                            /\ u \in elders'[t] => elders'[u] \subseteq elders'[t]
    BY DEF SeniorityIsTotal
  <2>1. \A r \in Ports : \A v \in Members(r) :
          v \in Sessions /\ v # s /\ elders'[v] = elders[v] /\ elders[v] \subseteq Members(r) \ {v}
    BY <1>3, <1>5 DEF Members, IInv, TypeOK, SeniorityIsTotal
  <2>2. CASE q = p /\ t = s
    BY <2>1, <2>2, <1>3, <1>4, <1>5
  <2>3. CASE t # s
    <3>1. t \in Members(q)
      BY <2>3, <1>4
    <3>. QED
      BY <3>1, <2>1, <2>3, <1>3, <1>4, <1>5 DEF IInv, SeniorityIsTotal
  <2>. QED
    BY <2>2, <2>3, <1>3, <1>4
<1>10. ExclusiveIsOldest'
  BY <1>3, <1>4, <1>5 DEF IInv, ExclusiveIsOldest, TypeOK, Members
<1>. QED
  BY <1>1, <1>6, <1>7, <1>8, <1>9, <1>10 DEF IInv

(* The device answers: the waiting callers become the holders, and nothing  *)
(* else about the queue changes.                                            *)
LEMMA DeviceOpenedInv ==
  ASSUME IInv, NEW p \in Ports, DeviceOpened(p)
  PROVE  IInv'
<1>1. /\ sessions[p] = {} /\ waiting[p] # {} /\ refCount[p] = 0
      /\ waiting[p] \in SUBSET Sessions
  BY FS_EmptySet DEF DeviceOpened, IInv, TypeOK, EntryMatchesHolders, RefCountMatches
<1>2. TypeOK'
  BY <1>1, FiniteSessions DEF IInv, TypeOK, DeviceOpened
<1>3. \A q \in Ports : Members(q)' = Members(q)
  BY <1>1 DEF Members, DeviceOpened, IInv, TypeOK
<1>4. elders' = elders /\ access' = access
  BY DEF DeviceOpened
<1>5. EntryMatchesHolders'
  BY <1>1 DEF IInv, TypeOK, EntryMatchesHolders, DeviceOpened
<1>6. RefCountMatches'
  BY <1>1, FiniteSessions DEF IInv, TypeOK, RefCountMatches, DeviceOpened
<1>7. OnePortPerSession'
  <2>1. Attached' \union Waiting' = Attached \union Waiting
    BY <1>1 DEF DeviceOpened, Attached, Waiting, IInv, TypeOK
  <2>. QED
    BY <1>3, <1>4, <2>1 DEF IInv, OnePortPerSession
<1>8. SeniorityIsTotal' /\ ExclusiveIsOldest'
  BY <1>3, <1>4 DEF IInv, SeniorityIsTotal, ExclusiveIsOldest
<1>. QED
  BY <1>2, <1>5, <1>6, <1>7, <1>8 DEF IInv

(* The device does not open: its callers are forgotten, all of them.        *)
LEMMA DeviceFailedInv ==
  ASSUME IInv, NEW p \in Ports, DeviceFailed(p)
  PROVE  IInv'
<1>1. sessions[p] = {} /\ Members(p) = waiting[p]
  BY DEF DeviceFailed, IInv, EntryMatchesHolders, Members
<1>2. TypeOK'
  BY DEF IInv, TypeOK, DeviceFailed, AccessModes, NotOpen
<1>3. Members(p)' = {} /\ \A q \in Ports \ {p} : Members(q)' = Members(q)
  BY <1>1 DEF Members, DeviceFailed, IInv, TypeOK
<1>4. /\ \A t \in Sessions \ waiting[p] : elders'[t] = elders[t] /\ access'[t] = access[t]
      /\ \A t \in waiting[p] : elders'[t] = {}
  BY DEF DeviceFailed, IInv, TypeOK
<1>5. \A q \in Ports \ {p} : \A t \in Members(q) : t \in Sessions \ waiting[p]
  BY <1>1 DEF IInv, TypeOK, OnePortPerSession, Members
<1>6. EntryMatchesHolders'
  BY <1>1 DEF IInv, TypeOK, EntryMatchesHolders, DeviceFailed
<1>7. RefCountMatches'
  BY DEF IInv, RefCountMatches, DeviceFailed
<1>8. OnePortPerSession'
  <2>1. \A t \in Sessions : t \notin Attached' \union Waiting'
           => t \in waiting[p] \/ t \notin Attached \union Waiting
    BY <1>1 DEF DeviceFailed, Attached, Waiting, IInv, TypeOK
  <2>2. \A t \in Sessions \ (Attached' \union Waiting') : elders'[t] = {}
    BY <1>4, <2>1 DEF IInv, OnePortPerSession
  <2>3. \A q \in Ports : \A t \in Members(q)' : access'[t] # NotOpen
    BY <1>3, <1>4, <1>5 DEF IInv, OnePortPerSession
  <2>. QED
    BY <1>3, <2>2, <2>3 DEF IInv, OnePortPerSession
<1>9. SeniorityIsTotal'
  BY <1>3, <1>4, <1>5 DEF IInv, SeniorityIsTotal
<1>10. ExclusiveIsOldest'
  BY <1>3, <1>4, <1>5 DEF IInv, ExclusiveIsOldest
<1>. QED
  BY <1>2, <1>6, <1>7, <1>8, <1>9, <1>10 DEF IInv

(* Whoever leaves, the rest keep their places.                              *)
LEMMA ReleaseAllInv ==
  ASSUME IInv, NEW S \in SUBSET Sessions, ReleaseAll(S)
  PROVE  IInv'
<1>. DEFINE out == S \intersect Attached
<1>1. /\ \A q \in Ports : sessions[q] \in SUBSET Sessions
      /\ \A q \in Ports : sessions[q] \intersect S \in SUBSET Sessions
  BY DEF IInv, TypeOK
<1>2. \A q \in Ports :
        /\ sessions'[q] = sessions[q] \ S
        /\ refCount'[q] = Cardinality(sessions[q]) - Cardinality(sessions[q] \intersect S)
        /\ entry'[q] = IF sessions[q] \intersect S # {} /\ refCount'[q] <= 0
                       THEN "none" ELSE entry[q]
  BY DEF ReleaseAll, Left, Closes, IInv, RefCountMatches
<1>3. \A q \in Ports : refCount'[q] = Cardinality(sessions'[q]) /\ refCount'[q] \in Nat
  <2>. SUFFICES ASSUME NEW q \in Ports
                PROVE  refCount'[q] = Cardinality(sessions'[q]) /\ refCount'[q] \in Nat
    OBVIOUS
  <2>1. IsFiniteSet(sessions[q]) /\ sessions'[q] \in SUBSET Sessions
    BY <1>1, <1>2, FiniteSessions
  <2>2. Cardinality(sessions[q] \ S) = Cardinality(sessions[q]) - Cardinality(sessions[q] \intersect S)
    BY <2>1, FS_Difference
  <2>. QED
    BY <1>2, <2>1, <2>2, FiniteSessions
<1>4. /\ \A t \in out : elders'[t] = {} /\ access'[t] = NotOpen
      /\ \A t \in Sessions \ out : elders'[t] = elders[t] \ out /\ access'[t] = access[t]
  BY DEF ReleaseAll, IInv, TypeOK
<1>5. waiting' = waiting
  BY DEF ReleaseAll
<1>6. TypeOK'
  <2>1. entry' \in [Ports -> {"none", "opening", "open"}] /\ sessions' \in [Ports -> SUBSET Sessions]
    BY DEF ReleaseAll, IInv, TypeOK
  <2>2. refCount' \in [Ports -> Nat]
    BY <1>3 DEF ReleaseAll
  <2>3. elders' \in [Sessions -> SUBSET Sessions] /\ access' \in [Sessions -> AccessModes \union {NotOpen}]
    BY DEF ReleaseAll, IInv, TypeOK
  <2>. QED
    BY <1>5, <2>1, <2>2, <2>3 DEF IInv, TypeOK
<1>7. \A q \in Ports : \A t \in waiting[q] : t \notin Attached
  <2>. SUFFICES ASSUME NEW q \in Ports, NEW t \in waiting[q], NEW r \in Ports, t \in sessions[r]
                PROVE  FALSE
    BY AttachedElements
  <2>1. CASE q = r
    BY <2>1 DEF IInv, TypeOK, EntryMatchesHolders
  <2>2. CASE q # r
    BY <2>2 DEF IInv, OnePortPerSession, Members
  <2>. QED
    BY <2>1, <2>2
<1>8. \A q \in Ports : Members(q)' = Members(q) \ out
  BY <1>2, <1>5, <1>7, AttachedElements DEF Members
<1>9. EntryMatchesHolders'
  <2>. SUFFICES ASSUME NEW q \in Ports
                PROVE  /\ entry'[q] = "none"    => sessions'[q] = {} /\ waiting'[q] = {}
                       /\ entry'[q] = "opening" => sessions'[q] = {} /\ waiting'[q] # {}
                       /\ entry'[q] = "open"    => sessions'[q] # {} /\ waiting'[q] = {}
    BY DEF EntryMatchesHolders
  <2>1. CASE sessions[q] \intersect S = {}
    BY <2>1, <1>2, <1>5 DEF IInv, EntryMatchesHolders
  <2>2. CASE sessions[q] \intersect S # {}
    <3>1. entry[q] = "open" /\ waiting[q] = {}
      BY <2>2 DEF IInv, TypeOK, EntryMatchesHolders
    <3>2. refCount'[q] <= 0 <=> sessions'[q] = {}
      <4>1. IsFiniteSet(sessions'[q])
        BY <1>1, <1>2, FiniteSessions
      <4>. QED
        BY <4>1, <1>3, FS_EmptySet
    <3>. QED
      BY <3>1, <3>2, <2>2, <1>2, <1>5
  <2>. QED
    BY <2>1, <2>2
<1>10. RefCountMatches'
  BY <1>3 DEF RefCountMatches
<1>11. \A q \in Ports : \A t \in Members(q)' :
         t \in Members(q) /\ elders'[t] = elders[t] \ out /\ access'[t] = access[t]
  BY <1>4, <1>8 DEF IInv, TypeOK, Members
<1>12. OnePortPerSession'
  <2>1. \A t \in Sessions : t \notin Attached' \union Waiting' => t \in out \/ t \notin Attached \union Waiting
    <3>. TAKE t \in Sessions
    <3>1. ASSUME NEW q \in Ports, t \in sessions[q], t \notin out
          PROVE  t \in Attached'
      BY <1>2, <3>1 DEF Attached
    <3>2. ASSUME NEW q \in Ports, t \in waiting[q]
          PROVE  t \in Waiting'
      BY <1>5, <3>2 DEF Waiting
    <3>. QED
      BY <3>1, <3>2, AttachedElements
  <2>2. \A t \in Sessions \ (Attached' \union Waiting') : elders'[t] = {}
    BY <1>4, <2>1 DEF IInv, OnePortPerSession
  <2>3. \A q \in Ports : \A t \in Members(q)' : access'[t] # NotOpen
    BY <1>11 DEF IInv, OnePortPerSession
  <2>. QED
    BY <1>8, <2>2, <2>3 DEF IInv, OnePortPerSession
<1>13. SeniorityIsTotal'
  <2>. SUFFICES ASSUME NEW q \in Ports, NEW t \in Members(q)'
                PROVE  /\ elders'[t] \subseteq Members(q)' \ {t}
                       /\ \A u \in Members(q)' \ {t} :
                            /\ (t \in elders'[u]) # (u \in elders'[t])
                            /\ u \in elders'[t] => elders'[u] \subseteq elders'[t]
    BY DEF SeniorityIsTotal
  <2>1. elders'[t] \subseteq Members(q)' \ {t}
    BY <1>8, <1>11 DEF IInv, SeniorityIsTotal
  <2>2. ASSUME NEW u \in Members(q)' \ {t}
        PROVE  /\ (t \in elders'[u]) # (u \in elders'[t])
               /\ u \in elders'[t] => elders'[u] \subseteq elders'[t]
    <3>1. t \notin out /\ u \notin out /\ t \in Members(q) /\ u \in Members(q)
      BY <1>8
    <3>2. /\ (t \in elders[u]) # (u \in elders[t])
          /\ u \in elders[t] => elders[u] \subseteq elders[t]
      BY <3>1 DEF IInv, SeniorityIsTotal
    <3>. QED
      BY <3>1, <3>2, <1>11
  <2>. QED
    BY <2>1, <2>2
<1>14. ExclusiveIsOldest'
  BY <1>11 DEF IInv, ExclusiveIsOldest
<1>. QED
  BY <1>6, <1>9, <1>10, <1>12, <1>13, <1>14 DEF IInv

-----------------------------------------------------------------------------
(* Every step of the manager keeps the invariant.                           *)
LEMMA StepInv == IInv /\ [Next]_smVars => IInv'
<1>. SUFFICES ASSUME IInv, [Next]_smVars PROVE IInv'
  OBVIOUS
<1>1. ASSUME NEW s \in Sessions, NEW p \in Ports, NEW mode \in Modes, Idle(s), OpenCall(s, p, mode)
      PROVE  IInv'
  <2>1. CASE OpenRefused(s, p, mode)
    BY <2>1 DEF OpenRefused, smVars, IInv, TypeOK, EntryMatchesHolders, RefCountMatches,
                OnePortPerSession, SeniorityIsTotal, ExclusiveIsOldest, Members, Attached, Waiting
  <2>2. CASE OpenDevice(s, p, mode)
    BY <1>1, <2>2, OpenDeviceInv
  <2>3. CASE AwaitDevice(s, p, mode)
    BY <1>1, <2>3, AwaitDeviceInv
  <2>4. CASE JoinOpenPort(s, p, mode)
    BY <1>1, <2>4, JoinOpenPortInv
  <2>. QED
    BY <1>1, <2>1, <2>2, <2>3, <2>4 DEF OpenCall
<1>2. ASSUME NEW S \in SUBSET Sessions, ReleaseAll(S)
      PROVE  IInv'
  BY <1>2, ReleaseAllInv
<1>3. ASSUME NEW p \in Ports, DeviceOpened(p)
      PROVE  IInv'
  BY <1>3, DeviceOpenedInv
<1>4. ASSUME NEW p \in Ports, DeviceFailed(p)
      PROVE  IInv'
  BY <1>4, DeviceFailedInv
<1>5. ASSUME NEW p \in Ports, DeviceGone(p)
      PROVE  IInv'
  <2>1. sessions[p] \in SUBSET Sessions /\ ReleaseAll(sessions[p])
    BY <1>5 DEF DeviceGone, IInv, TypeOK
  <2>. QED
    BY <2>1, ReleaseAllInv
<1>6. CASE UNCHANGED smVars
  BY <1>6 DEF smVars, IInv, TypeOK, EntryMatchesHolders, RefCountMatches,
              OnePortPerSession, SeniorityIsTotal, ExclusiveIsOldest, Members, Attached, Waiting
<1>. QED
  BY <1>1, <1>2, <1>3, <1>4, <1>5, <1>6 DEF Next

(* The inductive invariant: types, entries that match their holders, true   *)
(* reference counts, and one strict order of seniority on every port.       *)
THEOREM Invariant == Spec => []IInv
BY InitInv, StepInv, PTL DEF Spec

(* Types.                                                                   *)
THEOREM TypeCorrect == Spec => []TypeOK
<1>1. IInv => TypeOK
  BY DEF IInv
<1>. QED
  BY <1>1, Invariant, PTL

(* The reference count that closes a port is the number of its holders, and *)
(* a port is open exactly while it has one.                                 *)
THEOREM CountsAreTrue == Spec => [](RefCountMatches /\ EntryMatchesHolders)
<1>1. IInv => RefCountMatches /\ EntryMatchesHolders
  BY DEF IInv
<1>. QED
  BY <1>1, Invariant, PTL

(* At most one session types into a port unless one of two asked for        *)
(* shared-rw: of two holders only one is the oldest, and an exclusive one   *)
(* is always that.                                                          *)
THEOREM OneTypist == Spec => []OnlySharedRwShares
<1>1. IInv => OnlySharedRwShares
  <2>. SUFFICES ASSUME IInv, NEW p \in Ports, NEW s \in sessions[p], NEW t \in sessions[p], s # t,
                       canSessionWrite(s, p), canSessionWrite(t, p)
                PROVE  access[s] = "shared-rw" \/ access[t] = "shared-rw"
    BY DEF OnlySharedRwShares
  <2>1. s \in Members(p) /\ t \in Members(p) /\ s \in Sessions /\ t \in Sessions
    BY DEF Members, IInv, TypeOK
  <2>2. \A u \in {s, t} : elders[u] # {} => access[u] = "shared-rw"
    BY <2>1 DEF IInv, TypeOK, OnePortPerSession, ExclusiveIsOldest, canSessionWrite, IsOldest,
                AccessModes, NotOpen
  <2>. QED
    BY <2>1, <2>2 DEF IInv, SeniorityIsTotal
<1>. QED
  BY <1>1, Invariant, PTL

-----------------------------------------------------------------------------
(* A nonempty set of natural numbers has a least element.                   *)
LEMMA LeastNatural ==
  ASSUME NEW T \in SUBSET Nat, T # {}
  PROVE  \E x \in T : \A y \in T : x <= y
<1>1. \E x \in T : \A y \in T : ~(<<y, x>> \in OpToRel(<, Nat))
  BY WFMin, NatLessThanWellFounded, Zenon
<1>2. PICK x \in T : \A y \in T : ~(<<y, x>> \in OpToRel(<, Nat))
  BY <1>1
<1>3. ASSUME NEW y \in T
      PROVE  x <= y
  <2>1. ~(y < x)
    BY <1>2, <1>3, Zenon DEF OpToRel
  <2>. QED
    BY <2>1
<1>. QED
  BY <1>3

(* Somebody is the longest-connected holder of every open port: one with    *)
(* the fewest ahead of it has nobody ahead, or the first of those would     *)
(* have fewer still.                                                        *)
LEMMA SomebodyIsOldest ==
  ASSUME IInv, NEW p \in Ports, entry[p] = "open"
  PROVE  \E w \in sessions[p] : elders[w] = {}
<1>. DEFINE ranks == {Cardinality(elders[s]) : s \in sessions[p]}
<1>1. sessions[p] # {} /\ Members(p) = sessions[p] /\ sessions[p] \in SUBSET Sessions
  BY DEF IInv, TypeOK, EntryMatchesHolders, Members
<1>2. \A s \in sessions[p] : elders[s] \in SUBSET Sessions
  BY <1>1 DEF IInv, TypeOK
<1>3. ranks \in SUBSET Nat /\ ranks # {}
  BY <1>1, <1>2, FiniteSessions
<1>4. \E n \in ranks : \A m \in ranks : n <= m
  <2>. HIDE DEF ranks
  <2>. QED
    BY <1>3, LeastNatural
<1>5. PICK w \in sessions[p] : \A s \in sessions[p] : Cardinality(elders[w]) <= Cardinality(elders[s])
  BY <1>4
<1>6. ASSUME NEW s \in elders[w]
      PROVE  FALSE
  <2>1. s \in sessions[p] \ {w} /\ elders[s] \subseteq elders[w] /\ s \notin elders[s]
    BY <1>1, <1>6 DEF IInv, SeniorityIsTotal
  <2>2. IsFiniteSet(elders[w]) /\ Cardinality(elders[w]) \in Nat /\ Cardinality(elders[s]) \in Nat
    BY <1>2, <2>1, FiniteSessions
  <2>3. /\ Cardinality(elders[s]) <= Cardinality(elders[w])
        /\ Cardinality(elders[w]) = Cardinality(elders[s]) => elders[w] = elders[s]
    BY <2>1, <2>2, FS_Subset
  <2>. QED
    BY <1>5, <1>6, <2>1, <2>2, <2>3
<1>. QED
  BY <1>6

(* On a first-write port there is always exactly one session that can type. *)
THEOREM KeyboardIsNeverLost == Spec => []FirstWriteHasOneWriter
<1>1. IInv => FirstWriteHasOneWriter
  <2>. SUFFICES ASSUME IInv, NEW p \in Ports, entry[p] = "open",
                       \A s \in sessions[p] : access[s] = "first-write"
                PROVE  \E w \in sessions[p] : \A s \in sessions[p] : canSessionWrite(s, p) <=> s = w
    BY DEF FirstWriteHasOneWriter
  <2>1. \A s \in sessions[p] : canSessionWrite(s, p) <=> elders[s] = {}
    BY DEF canSessionWrite, IsOldest
  <2>2. PICK w \in sessions[p] : elders[w] = {}
    BY SomebodyIsOldest
  <2>3. \A s \in sessions[p] : elders[s] = {} => s = w
    BY <2>2 DEF IInv, SeniorityIsTotal, Members
  <2>. QED
    BY <2>1, <2>2, <2>3
<1>. QED
  BY <1>1, Invariant, PTL

-----------------------------------------------------------------------------
(* Every step leaves the keyboard with those who had it, for as long as     *)
(* they stay, and puts newcomers behind all who were there.                 *)
LEMMA StepKeepsKeyboard == IInv /\ [Next]_smVars => [NobodyCutsIn]_smVars
<1>. SUFFICES ASSUME IInv, Next, NEW p \in Ports, NEW s \in sessions[p], s \in sessions'[p]
              PROVE  /\ canSessionWrite(s, p) => canSessionWrite(s, p)'
                     /\ \A t \in sessions'[p] \ sessions[p] : s \in elders'[t]
  BY DEF NobodyCutsIn
<1>1. /\ entry[p] = "open" /\ s \in Sessions /\ s \in Attached
      /\ \A q \in Ports : s \notin waiting[q]
  <2>1. entry[p] = "open" /\ s \in Sessions /\ s \in Attached /\ waiting[p] = {}
    BY AttachedElements DEF IInv, TypeOK, EntryMatchesHolders
  <2>. QED
    BY <2>1 DEF IInv, OnePortPerSession, Members
<1>2. SUFFICES /\ access'[s] = access[s] /\ elders'[s] \subseteq elders[s] /\ entry'[p] # "none"
               /\ \A t \in sessions'[p] \ sessions[p] : s \in elders'[t]
  BY <1>1 DEF canSessionWrite, IsOldest
<1>3. CASE \E r \in Sessions, q \in Ports, mode \in Modes : Idle(r) /\ OpenCall(r, q, mode)
  <2>1. PICK r \in Sessions, q \in Ports, mode \in Modes : Idle(r) /\ OpenCall(r, q, mode)
    BY <1>3
  <2>2. r # s
    BY <2>1, <1>1 DEF Idle
  <2>3. CASE OpenRefused(r, q, mode)
    BY <2>3, <1>1 DEF OpenRefused, smVars
  <2>4. CASE OpenDevice(r, q, mode)
    BY <2>2, <2>4, <1>1 DEF OpenDevice, IInv, TypeOK
  <2>5. CASE AwaitDevice(r, q, mode)
    BY <2>2, <2>5, <1>1 DEF AwaitDevice, IInv, TypeOK
  <2>6. CASE JoinOpenPort(r, q, mode)
    BY <2>2, <2>6, <1>1 DEF JoinOpenPort, IInv, TypeOK
  <2>. QED
    BY <2>1, <2>3, <2>4, <2>5, <2>6 DEF OpenCall
<1>4. ASSUME NEW S \in SUBSET Sessions, ReleaseAll(S)
      PROVE  /\ access'[s] = access[s] /\ elders'[s] \subseteq elders[s] /\ entry'[p] # "none"
             /\ \A t \in sessions'[p] \ sessions[p] : s \in elders'[t]
  <2>1. sessions'[p] = sessions[p] \ S /\ s \notin S
    BY <1>4 DEF ReleaseAll
  <2>2. EntryMatchesHolders'
    BY <1>4, ReleaseAllInv DEF IInv
  <2>3. entry'[p] # "none"
    BY <2>2 DEF EntryMatchesHolders
  <2>. QED
    BY <1>1, <1>4, <2>1, <2>3 DEF ReleaseAll, IInv, TypeOK
<1>5. ASSUME NEW q \in Ports, DeviceOpened(q) \/ DeviceFailed(q)
      PROVE  /\ access'[s] = access[s] /\ elders'[s] \subseteq elders[s] /\ entry'[p] # "none"
             /\ \A t \in sessions'[p] \ sessions[p] : s \in elders'[t]
  BY <1>1, <1>5 DEF DeviceOpened, DeviceFailed, IInv, TypeOK
<1>6. ASSUME NEW q \in Ports, DeviceGone(q)
      PROVE  \E S \in SUBSET Sessions : ReleaseAll(S)
  BY <1>6 DEF DeviceGone, IInv, TypeOK
<1>. QED
  BY <1>3, <1>4, <1>5, <1>6 DEF Next

(* A session that can type types on until it leaves.                        *)
THEOREM NobodyTakesTheKeyboard == Spec => KeyboardIsKept
BY Invariant, StepKeepsKeyboard, PTL DEF Spec, KeyboardIsKept
-----------------------------------------------------------------------------
(* The manager keeps the promise of PortSharing.  A session's rank is the   *)
(* number of sessions ahead of it; the ranks on a port are 0, 1, 2, ...     *)
(* without gap, so that the queue is well defined.                          *)
Rank(s) == Cardinality(elders[s])

LEMMA EldersAttached ==
  ASSUME IInv, NEW p \in Ports, NEW s \in sessions[p]
  PROVE  /\ s \in Sessions /\ IsFiniteSet(sessions[p]) /\ Cardinality(sessions[p]) \in Nat
         /\ elders[s] \in SUBSET (sessions[p] \ {s})
         /\ IsFiniteSet(elders[s]) /\ Rank(s) \in Nat
         /\ \A t \in sessions[p] \ {s} :
              /\ (s \in elders[t]) # (t \in elders[s])
              /\ t \in elders[s] => elders[t] \subseteq elders[s]
<1>1. s \in Sessions /\ sessions[p] \in SUBSET Sessions
  BY DEF IInv, TypeOK
<1>2. Members(p) = sessions[p]
  BY DEF IInv, TypeOK, EntryMatchesHolders, Members
<1>3. /\ elders[s] \in SUBSET (sessions[p] \ {s})
      /\ \A t \in sessions[p] \ {s} :
           /\ (s \in elders[t]) # (t \in elders[s])
           /\ t \in elders[s] => elders[t] \subseteq elders[s]
  BY <1>2 DEF IInv, SeniorityIsTotal
<1>4. elders[s] \in SUBSET Sessions
  BY <1>1, <1>3
<1>. QED
  BY <1>1, <1>3, <1>4, FiniteSessions DEF Rank

\* Whoever is ahead has the lower rank, and nobody shares one.
LEMMA RanksDiffer ==
  ASSUME IInv, NEW p \in Ports, NEW s \in sessions[p], NEW t \in sessions[p], s # t
  PROVE  /\ s \in elders[t] => Rank(s) < Rank(t)
         /\ t \in elders[s] => Rank(t) < Rank(s)
         /\ s \in elders[t] \/ t \in elders[s]
<1>1. ASSUME NEW a \in sessions[p], NEW b \in sessions[p], a # b, a \in elders[b]
      PROVE  Rank(a) < Rank(b)
  <2>1. /\ elders[a] \in SUBSET elders[b] /\ a \notin elders[a]
        /\ IsFiniteSet(elders[b]) /\ Rank(a) \in Nat /\ Rank(b) \in Nat
    BY <1>1, EldersAttached
  <2>2. Rank(a) <= Rank(b) /\ (Rank(b) = Rank(a) => elders[b] = elders[a])
    BY <2>1, FS_Subset DEF Rank
  <2>3. elders[a] # elders[b]
    BY <1>1, <2>1
  <2>. QED
    BY <2>1, <2>2, <2>3
<1>2. s \in elders[t] \/ t \in elders[s]
  BY EldersAttached
<1>. QED
  BY <1>1, <1>2

LEMMA RanksAreDense ==
  ASSUME IInv, NEW p \in Ports
  PROVE  /\ \A s \in sessions[p] : Rank(s) + 1 \in 1..Cardinality(sessions[p])
         /\ \A i \in 1..Cardinality(sessions[p]) : \E s \in sessions[p] : Rank(s) = i - 1
<1> DEFINE n == Cardinality(sessions[p])
           f == [s \in sessions[p] |-> Rank(s) + 1]
<1>1. IsFiniteSet(sessions[p]) /\ n \in Nat
  BY FiniteSessions DEF IInv, TypeOK
<1>2. \A s \in sessions[p] : Rank(s) \in Nat /\ Rank(s) + 1 \in 1..n
  <2> TAKE s \in sessions[p]
  <2>1. elders[s] \in SUBSET sessions[p] /\ elders[s] # sessions[p] /\ Rank(s) \in Nat
    BY EldersAttached
  <2>2. Rank(s) <= n /\ Rank(s) # n
    BY <1>1, <2>1, FS_Subset DEF Rank
  <2> QED
    BY <1>1, <2>1, <2>2
<1>3. \A s, t \in sessions[p] : Rank(s) = Rank(t) => s = t
  <2> SUFFICES ASSUME NEW s \in sessions[p], NEW t \in sessions[p], s # t
               PROVE  Rank(s) # Rank(t)
    OBVIOUS
  <2>1. Rank(s) \in Nat /\ Rank(t) \in Nat
    BY <1>2
  <2> QED
    BY <2>1, RanksDiffer
<1>. HIDE DEF n
<1>4. f \in Injection(sessions[p], 1..n)
  <2>1. \A s \in sessions[p] : f[s] = Rank(s) + 1 /\ f[s] \in 1..n
    BY <1>2
  <2>2. \A s, t \in sessions[p] : f[s] = f[t] => s = t
    BY <1>2, <1>3, <2>1
  <2> QED
    BY <2>1, <2>2 DEF Injection, IsInjective
<1>5. IsFiniteSet(1..n) /\ Cardinality(1..n) = n
  BY <1>1, FS_Interval
<1>. HIDE DEF f
<1>6. f \in Surjection(sessions[p], 1..n)
  BY <1>4, <1>5, FS_Injection DEF n
<1>7. \A i \in 1..n : \E s \in sessions[p] : f[s] = i
  BY <1>6 DEF Surjection
<1>8. \A s \in sessions[p] : f[s] = Rank(s) + 1
  BY DEF f
<1>9. \A i \in 1..n : \E s \in sessions[p] : Rank(s) = i - 1
  <2> TAKE i \in 1..n
  <2>1. PICK s \in sessions[p] : f[s] = i
    BY <1>7
  <2>2. Rank(s) = i - 1
    BY <1>1, <1>2, <1>8, <2>1
  <2> QED
    BY <2>2
<1>. QED
  BY <1>2, <1>9 DEF n

\* The same of all ports, and after a step.
RanksAreOrdered ==
  \A p \in Ports : \A s, t \in sessions[p] :
    s # t /\ s \in elders[t] => Cardinality(elders[s]) < Cardinality(elders[t])

LEMMA RanksOrdered == IInv => RanksAreOrdered
BY RanksDiffer DEF RanksAreOrdered, Rank

LEMMA RanksOrderedNext == IInv' => RanksAreOrdered'
BY RanksOrdered, PTL

\* What is in the queues.
QueuesAreRight ==
  /\ queues \in [Ports -> Seq(Sessions)]
  /\ \A p \in Ports :
       /\ Len(queues[p]) = Cardinality(sessions[p]) /\ Len(queues[p]) \in Nat
       /\ \A i \in 1..Len(queues[p]) : queues[p][i] \in sessions[p] /\ Rank(queues[p][i]) = i - 1
       /\ \A s \in sessions[p] : /\ Rank(s) \in Nat /\ Rank(s) + 1 \in 1..Len(queues[p])
                                 /\ queues[p][Rank(s) + 1] = s

LEMMA QueuesRight == IInv => QueuesAreRight
<1>. SUFFICES ASSUME IInv PROVE QueuesAreRight
  OBVIOUS
<1>1. ASSUME NEW p \in Ports
      PROVE  /\ Queue(p) \in Seq(Sessions)
             /\ Len(Queue(p)) = Cardinality(sessions[p]) /\ Len(Queue(p)) \in Nat
             /\ \A i \in 1..Len(Queue(p)) : Queue(p)[i] \in sessions[p] /\ Rank(Queue(p)[i]) = i - 1
             /\ \A s \in sessions[p] : /\ Rank(s) \in Nat /\ Rank(s) + 1 \in 1..Len(Queue(p))
                                       /\ Queue(p)[Rank(s) + 1] = s
  <2> DEFINE n == Cardinality(sessions[p])
  <2>1. n \in Nat /\ sessions[p] \in SUBSET Sessions
    BY FiniteSessions DEF IInv, TypeOK
  <2>2. \A i \in 1..n : Queue(p)[i] \in sessions[p] /\ Rank(Queue(p)[i]) = i - 1
    <3> TAKE i \in 1..n
    <3>1. Queue(p)[i] = CHOOSE s \in sessions[p] : Rank(s) = i - 1
      BY DEF Queue, Rank
    <3>2. \E s \in sessions[p] : Rank(s) = i - 1
      BY RanksAreDense
    <3> QED
      BY <3>1, <3>2
  <2>3. DOMAIN Queue(p) = 1..n /\ Queue(p) = [i \in 1..n |-> Queue(p)[i]]
    BY DEF Queue
  <2> HIDE DEF n
  <2>4. Queue(p) \in Seq(Sessions) /\ Len(Queue(p)) = n
    BY <2>1, <2>2, <2>3
  <2>5. ASSUME NEW s \in sessions[p]
        PROVE  /\ Rank(s) \in Nat /\ Rank(s) + 1 \in 1..n
               /\ Queue(p)[Rank(s) + 1] = s
    <3>1. Rank(s) \in Nat
      BY EldersAttached
    <3>2. Rank(s) + 1 \in 1..n
      BY RanksAreDense DEF n
    <3> DEFINE t == Queue(p)[Rank(s) + 1]
    <3>3. t \in sessions[p] /\ Rank(t) = Rank(s)
      BY <2>2, <3>1, <3>2
    <3> HIDE DEF t
    <3>4. t = s
      BY <3>1, <3>3, RanksDiffer
    <3> QED
      BY <3>1, <3>2, <3>4 DEF t
  <2> QED
    BY <2>1, <2>2, <2>4, <2>5 DEF n
<1>. QED
  BY <1>1 DEF QueuesAreRight, queues

LEMMA QueuesRightNext == IInv' => QueuesAreRight'
BY QueuesRight, PTL
\* A queue whose sessions keep their ranks stays as it is.
LEMMA QueueStays ==
  ASSUME QueuesAreRight, QueuesAreRight', NEW p \in Ports,
         sessions'[p] = sessions[p], \A s \in sessions[p] : Rank(s)' = Rank(s)
  PROVE  queues'[p] = queues[p]
<1>1. Len(queues'[p]) = Len(queues[p]) /\ Len(queues[p]) \in Nat
  BY DEF QueuesAreRight
<1>2. queues[p] \in Seq(Sessions) /\ queues'[p] \in Seq(Sessions)
  BY DEF QueuesAreRight
<1>3. ASSUME NEW i \in 1..Len(queues[p])
      PROVE  queues'[p][i] = queues[p][i]
  <2>1. PICK s \in sessions[p] : queues[p][i] = s /\ Rank(s) = i - 1
    BY DEF QueuesAreRight
  <2>2. Rank(s)' = i - 1 /\ s \in sessions'[p]
    BY <2>1
  <2>3. queues'[p][Rank(s)' + 1] = s
    BY <2>2 DEF QueuesAreRight
  <2>4. (i - 1) + 1 = i
    BY <1>1
  <2> QED
    BY <2>1, <2>2, <2>3, <2>4
<1>. QED
  BY <1>1, <1>2, <1>3

\* Nobody is in a queue twice, and the queues hold the sessions attached.
QueuesListAttached ==
  /\ \A p \in Ports : Sharing!IsInjective(queues[p]) /\ Sharing!Holders(p) = sessions[p]
  /\ Sharing!Inside = Attached

LEMMA QueuesList == QueuesAreRight => QueuesListAttached
<1>. SUFFICES ASSUME QueuesAreRight PROVE QueuesListAttached
  OBVIOUS
<1>1. ASSUME NEW p \in Ports
      PROVE  Sharing!IsInjective(queues[p]) /\ Sharing!Holders(p) = sessions[p]
  <2>1. DOMAIN queues[p] = 1..Len(queues[p])
    BY DEF QueuesAreRight
  <2>2. Sharing!IsInjective(queues[p])
    <3>1. \A i \in 1..Len(queues[p]) : Rank(queues[p][i]) = i - 1
      BY DEF QueuesAreRight
    <3>2. \A i, j \in 1..Len(queues[p]) : queues[p][i] = queues[p][j] => i - 1 = j - 1
      BY <3>1
    <3>3. \A i, j \in 1..Len(queues[p]) : i - 1 = j - 1 => i = j
      BY DEF QueuesAreRight
    <3> QED
      BY <2>1, <3>2, <3>3 DEF Sharing!IsInjective
  <2>3. Sharing!Holders(p) = sessions[p]
    <3>1. Sharing!Holders(p) = {queues[p][i] : i \in 1..Len(queues[p])}
      BY <2>1 DEF Sharing!Holders, Sharing!ToSet
    <3>2. \A i \in 1..Len(queues[p]) : queues[p][i] \in sessions[p]
      BY DEF QueuesAreRight
    <3>3. \A s \in sessions[p] : \E i \in 1..Len(queues[p]) : queues[p][i] = s
      BY DEF QueuesAreRight
    <3> QED
      BY <3>1, <3>2, <3>3
  <2> QED
    BY <2>2, <2>3
<1>2. Sharing!Inside = Attached
  BY <1>1 DEF Sharing!Inside, Attached
<1>. QED
  BY <1>1, <1>2 DEF QueuesListAttached

LEMMA QueuesListNext == QueuesAreRight' => QueuesListAttached'
BY QueuesList, PTL

LEMMA QueuesAreQueues ==
  ASSUME QueuesAreRight'
  PROVE  queues' \in Sharing!Queues
<1>1. ASSUME NEW p \in Ports
      PROVE  queues'[p] \in Seq(Sessions) /\ Sharing!IsInjective(queues'[p])
  <2>1. DOMAIN queues'[p] = 1..Len(queues'[p]) /\ queues'[p] \in Seq(Sessions)
    BY DEF QueuesAreRight
  <2>2. \A i \in 1..Len(queues'[p]) : (Rank(queues[p][i]))' = i - 1
    BY DEF QueuesAreRight
  <2>3. \A i, j \in 1..Len(queues'[p]) : queues'[p][i] = queues'[p][j] => i - 1 = j - 1
    BY <2>2 DEF Rank
  <2>4. \A i, j \in 1..Len(queues'[p]) : i - 1 = j - 1 => i = j
    BY DEF QueuesAreRight
  <2> QED
    BY <2>1, <2>3, <2>4 DEF Sharing!IsInjective
<1>2. queues' \in [Ports -> Seq(Sessions)]
  BY DEF QueuesAreRight
<1>. QED
  BY <1>1, <1>2 DEF Sharing!Queues
-----------------------------------------------------------------------------
(* What the steps of the manager are to its callers.                        *)

\* Nobody comes or goes.
LEMMA NothingHappens ==
  ASSUME IInv, QueuesAreRight, QueuesAreRight', sessions' = sessions,
         \A p \in Ports : \A s \in sessions[p] : elders'[s] = elders[s] /\ access'[s] = access[s]
  PROVE  UNCHANGED Sharing!vars
<1>1. ASSUME NEW p \in Ports
      PROVE  queues'[p] = queues[p]
  <2>1. \A s \in sessions[p] : Rank(s)' = Rank(s)
    BY DEF Rank
  <2> QED
    BY <2>1, QueueStays
<1>2. queues' = queues
  BY <1>1 DEF QueuesAreRight
<1>3. modes' = modes
  <2>1. Attached' = Attached
    BY DEF Attached
  <2>2. \A s \in Attached : access'[s] = access[s]
    BY AttachedElements
  <2> QED
    BY <2>1, <2>2 DEF modes
<1>. QED
  BY <1>2, <1>3 DEF Sharing!vars

\* Sessions join the others of one port, behind them.
LEMMA SomeAreAdmitted ==
  ASSUME IInv, IInv', QueuesAreRight, QueuesAreRight', NEW p \in Ports,
         sessions[p] \subseteq sessions'[p], sessions'[p] # sessions[p],
         \A q \in Ports \ {p} : sessions'[q] = sessions[q],
         \A s \in sessions'[p] \ sessions[p] : s \notin Attached,
         \A s \in Attached : elders'[s] = elders[s] /\ access'[s] = access[s]
  PROVE  Sharing!Admit(p)
<1>1. /\ queues[p] \in Seq(Sessions) /\ queues'[p] \in Seq(Sessions)
      /\ Len(queues[p]) \in Nat /\ Len(queues'[p]) \in Nat
  BY DEF QueuesAreRight
<1>2. \A q \in Ports : \A s \in sessions[q] : Rank(s)' = Rank(s)
  <2>1. \A q \in Ports : \A s \in sessions[q] : elders'[s] = elders[s]
    BY AttachedElements
  <2> QED
    BY <2>1 DEF Rank
<1>3. Len(queues[p]) < Len(queues'[p])
  <2>1. IsFiniteSet(sessions'[p])
    BY FiniteSessions DEF IInv, TypeOK
  <2>2. /\ Cardinality(sessions[p]) <= Cardinality(sessions'[p])
        /\ Cardinality(sessions[p]) # Cardinality(sessions'[p])
    BY <2>1, FS_Subset
  <2>3. /\ Len(queues[p]) = Cardinality(sessions[p])
        /\ Len(queues'[p]) = Cardinality(sessions'[p])
    BY DEF QueuesAreRight
  <2> QED
    BY <1>1, <2>2, <2>3
<1>4. \A i \in 1..Len(queues[p]) : queues'[p][i] = queues[p][i]
  <2> TAKE i \in 1..Len(queues[p])
  <2>1. PICK s \in sessions[p] : queues[p][i] = s /\ Rank(s) = i - 1
    BY DEF QueuesAreRight
  <2>2. Rank(s)' = i - 1 /\ s \in sessions'[p]
    BY <1>2, <2>1
  <2>3. queues'[p][Rank(s)' + 1] = s
    BY <2>2 DEF QueuesAreRight
  <2>4. (i - 1) + 1 = i
    BY <1>1
  <2> QED
    BY <2>1, <2>2, <2>3, <2>4
<1>5. Sharing!IsStrictPrefix(queues[p], queues'[p])
  <2> DEFINE n == Len(queues[p])
             old == queues[p]
             new == queues'[p]
  <2>1. /\ SubSeq(old, 1, n) \in Seq(Sessions) /\ SubSeq(new, 1, n) \in Seq(Sessions)
        /\ Len(SubSeq(old, 1, n)) = n /\ Len(SubSeq(new, 1, n)) = n
        /\ \A i \in 1..n : SubSeq(old, 1, n)[i] = old[i] /\ SubSeq(new, 1, n)[i] = new[i]
    BY <1>1, <1>3
  <2> HIDE DEF n, old, new
  <2>2. SubSeq(old, 1, n) = SubSeq(new, 1, n)
    BY <1>4, <2>1 DEF n, old, new
  <2>3. Len(old) <= Len(new) /\ old # new
    BY <1>1, <1>3 DEF n, old, new
  <2> QED
    BY <2>2, <2>3 DEF Sharing!IsStrictPrefix, Sharing!IsPrefix, n, old, new
<1>6. ASSUME NEW i \in (Len(queues[p]) + 1)..Len(queues'[p])
      PROVE  /\ queues'[p][i] \notin Sharing!Inside
             /\ modes'[queues'[p][i]] # NotOpen
             /\ modes'[queues'[p][i]] = "exclusive" => i = 1
  <2>1. i \in 1..Len(queues'[p])
    BY <1>1
  <2>2. PICK t \in Sessions : queues'[p][i] = t /\ t \in sessions'[p] /\ Rank(t)' = i - 1
    <3>1. queues'[p][i] \in sessions'[p] /\ (Rank(queues[p][i]))' = i - 1
      BY <2>1 DEF QueuesAreRight
    <3>2. queues'[p][i] \in Sessions
      BY <3>1 DEF IInv, TypeOK
    <3> QED
      BY <3>1, <3>2 DEF Rank
  <2>3. t \notin sessions[p]
    <3>1. t \in sessions[p] => Rank(t) + 1 \in 1..Len(queues[p]) /\ Rank(t) = i - 1
      BY <1>2, <2>2 DEF QueuesAreRight
    <3> QED
      BY <1>1, <3>1
  <2>4. t \notin Sharing!Inside
    BY <2>2, <2>3, QueuesList DEF QueuesListAttached
  <2>5. t \in Attached' /\ modes'[t] = access'[t]
    BY <2>2 DEF modes, Attached
  <2>6. access'[t] # NotOpen /\ (access'[t] = "exclusive" => elders'[t] = {})
    BY <2>2 DEF IInv, OnePortPerSession, ExclusiveIsOldest, Members
  <2>7. elders'[t] = {} => i = 1
    BY <1>1, <2>2, FS_EmptySet DEF Rank
  <2> QED
    BY <2>2, <2>4, <2>5, <2>6, <2>7
<1>7. \A q \in Ports \ {p} : queues'[q] = queues[q]
  BY <1>2, QueueStays
<1>8. \A s \in Sessions \ (Sharing!Holders(p)' \ Sharing!Holders(p)) : modes'[s] = modes[s]
  <2>1. Sharing!Holders(p) = sessions[p] /\ Sharing!Holders(p)' = sessions'[p]
    BY QueuesList, QueuesListNext DEF QueuesListAttached
  <2> SUFFICES ASSUME NEW s \in Sessions, s \notin sessions'[p] \ sessions[p]
               PROVE  modes'[s] = modes[s]
    BY <2>1
  <2>2. s \in Attached' <=> s \in Attached
    BY DEF Attached
  <2> QED
    BY <2>2 DEF modes
<1>. QED
  BY <1>5, <1>6, <1>7, <1>8 DEF Sharing!Admit, NotOpen, Sharing!Outside
\* Sessions leave; the others keep their order.
LEMMA SomeLeave ==
  ASSUME IInv, IInv', QueuesAreRight, QueuesAreRight', NEW S \in SUBSET Sessions, ReleaseAll(S)
  PROVE  Sharing!Leave(S \intersect Attached) /\ S \intersect Attached \in SUBSET Sharing!Inside
<1> DEFINE out == S \intersect Attached
<1>1. /\ sessions' = [p \in Ports |-> sessions[p] \ S]
      /\ elders'   = [s \in Sessions |-> IF s \in out THEN {} ELSE elders[s] \ out]
      /\ access'   = [s \in Sessions |-> IF s \in out THEN NotOpen ELSE access[s]]
  BY DEF ReleaseAll
<1>2. \A p \in Ports : sessions'[p] = sessions[p] \ out
  BY <1>1 DEF Attached
<1>3. Sharing!Inside = Attached
  BY QueuesList DEF QueuesListAttached
<1>. HIDE DEF out
<1>4. ASSUME NEW p \in Ports
      PROVE  Sharing!Remains(queues'[p], queues[p], out)
  <2>1. Sharing!ToSet(queues[p]) = sessions[p] /\ Sharing!ToSet(queues'[p]) = sessions'[p]
    BY QueuesList, QueuesListNext DEF QueuesListAttached, Sharing!Holders
  <2>2. DOMAIN queues[p] = 1..Len(queues[p]) /\ DOMAIN queues'[p] = 1..Len(queues'[p])
    BY DEF QueuesAreRight
  <2>3. ASSUME NEW i \in DOMAIN queues'[p], NEW j \in DOMAIN queues'[p],
               NEW k \in DOMAIN queues[p], NEW l \in DOMAIN queues[p],
               i < j, queues'[p][i] = queues[p][k], queues'[p][j] = queues[p][l]
        PROVE  k < l
    <3>1. PICK s \in sessions[p] : queues[p][k] = s /\ Rank(s) = k - 1
      BY <2>2 DEF QueuesAreRight
    <3>2. PICK t \in sessions[p] : queues[p][l] = t /\ Rank(t) = l - 1
      BY <2>2 DEF QueuesAreRight
    <3>3. s \in sessions'[p] /\ Rank(s)' = i - 1 /\ t \in sessions'[p] /\ Rank(t)' = j - 1
      <4>1. /\ queues'[p][i] \in sessions'[p] /\ (Rank(queues[p][i]))' = i - 1
            /\ queues'[p][j] \in sessions'[p] /\ (Rank(queues[p][j]))' = j - 1
        BY <2>2 DEF QueuesAreRight
      <4> QED
        BY <2>3, <3>1, <3>2, <4>1 DEF Rank
    <3>4. /\ i \in Nat /\ j \in Nat /\ k \in Nat /\ l \in Nat
          /\ s \in Sessions /\ t \in Sessions /\ s \notin out /\ t \notin out
      <4>1. i \in Nat /\ j \in Nat /\ k \in Nat /\ l \in Nat
        <5>1. Len(queues[p]) \in Nat /\ Len(queues'[p]) \in Nat
          BY DEF QueuesAreRight
        <5>2. /\ i \in 1..Len(queues'[p]) /\ j \in 1..Len(queues'[p])
              /\ k \in 1..Len(queues[p]) /\ l \in 1..Len(queues[p])
          BY <2>2, Zenon
        <5> QED
          BY <5>1, <5>2
      <4>2. s \in Sessions /\ t \in Sessions
        BY DEF IInv, TypeOK
      <4> QED
        BY <1>2, <3>3, <4>1, <4>2
    <3>5. s # t
      BY <2>3, <3>3, <3>4
    <3>6. ~(t \in elders'[s])
      <4>1. t \in elders'[s] => Cardinality(elders'[t]) < Cardinality(elders'[s])
        <5>1. RanksAreOrdered'
          BY RanksOrderedNext
        <5> QED
          BY <3>3, <3>5, <5>1 DEF RanksAreOrdered
      <4>2. Cardinality(elders'[s]) = i - 1 /\ Cardinality(elders'[t]) = j - 1
        BY <3>3 DEF Rank
      <4> QED
        BY <2>3, <3>4, <4>1, <4>2
    <3>7. ~(t \in elders[s])
      BY <1>1, <3>4, <3>6
    <3>8. s \in elders[t] /\ Rank(s) < Rank(t)
      BY <3>5, <3>7, RanksDiffer
    <3> QED
      BY <3>1, <3>2, <3>4, <3>8
  <2> QED
    BY <1>2, <2>1, <2>3 DEF Sharing!Remains
<1>5. modes' = [s \in Sessions |-> IF s \in out THEN NotOpen ELSE modes[s]]
  <2>1. \A s \in Sessions : s \in Attached' <=> s \in Attached /\ s \notin out
    BY <1>2, AttachedElements DEF Attached
  <2>2. out \subseteq Attached
    BY DEF out
  <2> QED
    BY <1>1, <2>1, <2>2 DEF modes
<1>6. out \in SUBSET Sharing!Inside
  BY <1>3 DEF out
<1>. QED
  BY <1>4, <1>5, <1>6 DEF Sharing!Leave, Sharing!Outside, NotOpen, out

\* Every step is a step of PortSharing, or nothing its callers see.
LEMMA StepShares == IInv /\ IInv' /\ [Next]_smVars => [Sharing!Next]_(Sharing!vars)
<1>. SUFFICES ASSUME IInv, IInv', [Next]_smVars PROVE [Sharing!Next]_(Sharing!vars)
  OBVIOUS
<1>1. QueuesAreRight /\ QueuesAreRight' /\ queues' \in Sharing!Queues
  BY QueuesRight, QueuesRightNext, QueuesAreQueues
<1>2. ASSUME NEW s \in Sessions, NEW p \in Ports, NEW mode \in Modes, Idle(s), OpenCall(s, p, mode)
      PROVE  Sharing!Admit(p) \/ UNCHANGED Sharing!vars
  <2>1. s \notin Attached /\ \A q \in Ports : s \notin sessions[q]
    BY <1>2 DEF Idle, Attached
  <2>2. CASE OpenRefused(s, p, mode)
    BY <1>1, <2>2, NothingHappens DEF OpenRefused, smVars
  <2>3. CASE OpenDevice(s, p, mode) \/ AwaitDevice(s, p, mode)
    <3>1. /\ sessions' = sessions
          /\ \A t \in Sessions \ {s} : elders'[t] = elders[t] /\ access'[t] = access[t]
      BY <2>3 DEF OpenDevice, AwaitDevice, IInv, TypeOK
    <3>2. \A q \in Ports : \A t \in sessions[q] : elders'[t] = elders[t] /\ access'[t] = access[t]
      BY <2>1, <3>1 DEF IInv, TypeOK
    <3> QED
      BY <1>1, <3>1, <3>2, NothingHappens
  <2>4. CASE JoinOpenPort(s, p, mode)
    <3>1. /\ sessions'[p] = sessions[p] \union {s}
          /\ \A q \in Ports \ {p} : sessions'[q] = sessions[q]
          /\ \A t \in Sessions \ {s} : elders'[t] = elders[t] /\ access'[t] = access[t]
      BY <2>4 DEF JoinOpenPort, IInv, TypeOK
    <3>2. \A t \in Attached : elders'[t] = elders[t] /\ access'[t] = access[t]
      BY <2>1, <3>1 DEF IInv, TypeOK, Attached
    <3> QED
      BY <1>1, <2>1, <3>1, <3>2, SomeAreAdmitted
  <2> QED
    BY <1>2, <2>2, <2>3, <2>4 DEF OpenCall
<1>3. ASSUME NEW S \in SUBSET Sessions, ReleaseAll(S)
      PROVE  \E T \in SUBSET Sharing!Inside : Sharing!Leave(T)
  BY <1>1, <1>3, SomeLeave
<1>4. ASSUME NEW p \in Ports, DeviceOpened(p)
      PROVE  Sharing!Admit(p)
  <2>1. sessions[p] = {} /\ waiting[p] # {}
    BY <1>4 DEF DeviceOpened, IInv, EntryMatchesHolders
  <2>2. /\ sessions'[p] = waiting[p] /\ \A q \in Ports \ {p} : sessions'[q] = sessions[q]
        /\ elders' = elders /\ access' = access
    BY <1>4, <2>1 DEF DeviceOpened, IInv, TypeOK
  <2>3. \A t \in waiting[p] : t \notin Attached
    <3> SUFFICES ASSUME NEW t \in waiting[p], NEW q \in Ports, t \in sessions[q] PROVE FALSE
      BY AttachedElements
    <3>1. q # p
      BY <2>1
    <3> QED
      BY <3>1 DEF IInv, OnePortPerSession, Members
  <2> QED
    BY <1>1, <2>1, <2>2, <2>3, SomeAreAdmitted
<1>5. ASSUME NEW p \in Ports, DeviceFailed(p)
      PROVE  UNCHANGED Sharing!vars
  <2>1. /\ sessions' = sessions
        /\ \A t \in Sessions \ waiting[p] : elders'[t] = elders[t] /\ access'[t] = access[t]
    BY <1>5 DEF DeviceFailed
  <2>2. ASSUME NEW q \in Ports, NEW t \in sessions[q]
        PROVE  t \in Sessions /\ t \notin waiting[p]
    <3>1. sessions[p] = {}
      BY <1>5 DEF DeviceFailed, IInv, EntryMatchesHolders
    <3>2. q # p
      BY <2>2, <3>1
    <3> QED
      BY <2>2, <3>2 DEF IInv, TypeOK, OnePortPerSession, Members
  <2> QED
    BY <1>1, <2>1, <2>2, NothingHappens
<1>6. ASSUME NEW p \in Ports, DeviceGone(p)
      PROVE  \E S \in SUBSET Sessions : ReleaseAll(S)
  BY <1>6 DEF DeviceGone, IInv, TypeOK
<1>7. CASE UNCHANGED smVars
  BY <1>1, <1>7, NothingHappens DEF smVars
<1>. QED
  BY <1>1, <1>2, <1>3, <1>4, <1>5, <1>6, <1>7 DEF Next, Sharing!Next

\* The manager starts with empty queues.
LEMMA InitShares == Init => Sharing!Init
<1>. SUFFICES ASSUME Init PROVE Sharing!Init
  OBVIOUS
<1>1. \A p \in Ports : sessions[p] = {}
  BY DEF Init
<1>2. \A p \in Ports : Queue(p) = <<>>
  <2>1. \A p \in Ports : Cardinality(sessions[p]) = 0
    BY <1>1, FS_EmptySet
  <2> QED
    BY <2>1 DEF Queue
<1>3. queues = [p \in Ports |-> <<>>]
  BY <1>2 DEF queues
<1>4. modes = [s \in Sessions |-> NotOpen]
  BY <1>1 DEF modes, Attached
<1>. QED
  BY <1>3, <1>4 DEF Sharing!Init, Sharing!Outside, NotOpen

(* The manager implements the promise it makes its callers: whatever opens, *)
(* fails, is unplugged or released, and in whatever order, each port's      *)
(* sessions are a queue that newcomers join at the back.                    *)
THEOREM SharingIsKept == Spec => ImplementsSharing
BY InitShares, StepShares, Invariant, PTL DEF Spec, ImplementsSharing, Sharing!Spec
=============================================================================
