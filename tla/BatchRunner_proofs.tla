--------------------------- MODULE BatchRunner_proofs ---------------------------
(***************************************************************************)
(* Proofs about BatchRunner, for any number of runs and targets, any       *)
(* script, any limits, and a file that is written and read at any time.    *)
(***************************************************************************)
EXTENDS BatchRunner, FiniteSetTheorems, SequenceTheorems, WellFoundedInduction, TLAPS

(* Jobs.                                                                   *)

LEMMA JobsAreTargets ==
  /\ \A j \in Jobs : j[1] \in Runs /\ j \in JobsOf(j[1])
  /\ \A r \in Runs : \A j \in JobsOf(r) : j \in Jobs /\ j[1] = r
  /\ \A r \in Runs : JobsOf(r) # {}
  /\ IsFiniteSet(Jobs)
<1>1. TargetCount \in Nat \ {0} /\ IsFiniteSet(Runs)
  BY BatchAssumption
<1>2. IsFiniteSet(Targets) /\ 1 \in Targets
  BY <1>1, FS_Interval DEF Targets
<1>3. IsFiniteSet(Jobs)
  BY <1>1, <1>2, FS_Product DEF Jobs
<1>4. \A r \in Runs : <<r, 1>> \in JobsOf(r)
  BY <1>2 DEF JobsOf
<1> QED
  BY <1>3, <1>4 DEF Jobs, JobsOf

(* Counting: the members of a finite set of numbers are numbered from one. *)

LEMMA Ranks ==
  ASSUME NEW I \in SUBSET Int, IsFiniteSet(I)
  PROVE  LET rank(i) == Cardinality({k \in I : k <= i})
         IN  /\ \A i \in I : rank(i) \in 1..Cardinality(I)
             /\ \A i, k \in I : rank(i) = rank(k) => i = k
             /\ \A n \in 1..Cardinality(I) : \E i \in I : rank(i) = n
<1> DEFINE upto(i) == {k \in I : k <= i}
           rank(i) == Cardinality(upto(i))
<1>1. Cardinality(I) \in Nat
  BY FS_CardinalityType
<1>2. ASSUME NEW i \in I
      PROVE  IsFiniteSet(upto(i)) /\ rank(i) \in 1..Cardinality(I)
  <2>1. upto(i) \in SUBSET I /\ i \in upto(i)
    OBVIOUS
  <2>2. IsFiniteSet(upto(i)) /\ rank(i) <= Cardinality(I)
    BY <2>1, FS_Subset
  <2>3. rank(i) \in Nat /\ rank(i) # 0
    BY <2>1, <2>2, FS_CardinalityType, FS_EmptySet
  <2> QED
    BY <1>1, <2>2, <2>3
<1>3. ASSUME NEW i \in I, NEW k \in I, i < k
      PROVE  rank(i) # rank(k)
  <2>0. \A x \in I : (x <= i => x <= k) /\ k <= k /\ ~(k <= i)
    BY <1>3
  <2>1. upto(i) \in SUBSET upto(k) /\ k \in upto(k) /\ k \notin upto(i)
    BY <2>0
  <2>2. IsFiniteSet(upto(k))
    BY <1>2
  <2>3. upto(i) # upto(k)
    BY <2>1, Zenon
  <2> HIDE DEF upto
  <2>4. Cardinality(upto(k)) = Cardinality(upto(i)) => upto(k) = upto(i)
    BY <2>1, <2>2, FS_Subset
  <2> QED
    BY <2>3, <2>4
<1>4. \A i, k \in I : rank(i) = rank(k) => i = k
  <2> HIDE DEF rank
  <2> QED
    BY <1>3
<1> DEFINE f == [i \in I |-> rank(i)]
<1>5. f \in Injection(I, 1..Cardinality(I))
  <2> HIDE DEF rank
  <2> QED
    BY <1>2, <1>4 DEF Injection, IsInjective
<1>6. IsFiniteSet(1..Cardinality(I)) /\ Cardinality(1..Cardinality(I)) = Cardinality(I)
  BY <1>1, FS_Interval
<1> HIDE DEF f
<1>7. f \in Surjection(I, 1..Cardinality(I))
  BY <1>5, <1>6, FS_Injection
<1>8. \A n \in 1..Cardinality(I) : \E i \in I : f[i] = n
  BY <1>7 DEF Surjection
<1>9. \A n \in 1..Cardinality(I) : \E i \in I : rank(i) = n
  BY <1>8 DEF f
<1> QED
  BY <1>2, <1>4, <1>9

\* What filter leaves: those wanted, as often as they were there.
LEMMA Filtered ==
  ASSUME NEW A, NEW s \in Seq(A), NEW S
  PROVE  /\ filter(s, S) \in Seq(A)
         /\ ToSet(filter(s, S)) = ToSet(s) \intersect S
         /\ IsInjective(s) => IsInjective(filter(s, S))
<1> DEFINE places == {i \in DOMAIN s : s[i] \in S}
           rank(i) == Cardinality({k \in places : k <= i})
           nth(n) == CHOOSE i \in places : rank(i) = n
           out == filter(s, S)
<1>1. Len(s) \in Nat /\ DOMAIN s = 1..Len(s) /\ \A i \in DOMAIN s : s[i] \in A
  OBVIOUS
<1>2. places \in SUBSET Int /\ IsFiniteSet(places)
  <2>1. IsFiniteSet(1..Len(s)) /\ places \in SUBSET (1..Len(s))
    BY <1>1, FS_Interval
  <2> QED
    BY <1>1, <2>1, FS_Subset
<1>3. out = [n \in 1..Cardinality(places) |-> s[nth(n)]]
  BY DEF filter
<1>4. /\ Cardinality(places) \in Nat
      /\ \A i \in places : rank(i) \in 1..Cardinality(places)
      /\ \A i, k \in places : rank(i) = rank(k) => i = k
      /\ \A n \in 1..Cardinality(places) : \E i \in places : rank(i) = n
  <2> HIDE DEF places
  <2> QED
    BY <1>2, Ranks, FS_CardinalityType
<1>5. \A i \in places : i \in DOMAIN s /\ s[i] \in S
  OBVIOUS
<1>6. \A i \in DOMAIN s : s[i] \in S => i \in places
  OBVIOUS
<1> HIDE DEF places, rank, out
<1>7. \A n \in 1..Cardinality(places) : nth(n) \in places /\ rank(nth(n)) = n
  BY <1>4
<1>8. \A i \in places : nth(rank(i)) = i
  BY <1>4, <1>7
<1> HIDE DEF nth
<1>9. out \in Seq(A) /\ DOMAIN out = 1..Cardinality(places) /\ Len(out) = Cardinality(places)
  BY <1>1, <1>3, <1>4, <1>5, <1>7
<1>10. ToSet(out) = ToSet(s) \intersect S
  <2>1. ASSUME NEW x \in ToSet(out)
        PROVE  x \in ToSet(s) \intersect S
    <3>1. PICK n \in 1..Cardinality(places) : x = s[nth(n)]
      BY <1>3, <1>9, <2>1 DEF ToSet
    <3> QED
      BY <1>5, <1>7, <3>1 DEF ToSet
  <2>2. ASSUME NEW x \in ToSet(s) \intersect S
        PROVE  x \in ToSet(out)
    <3>1. PICK i \in DOMAIN s : x = s[i]
      BY <2>2 DEF ToSet
    <3>2. i \in places /\ rank(i) \in 1..Cardinality(places)
      BY <1>4, <1>6, <2>2, <3>1
    <3>3. out[rank(i)] = x
      BY <1>3, <1>8, <3>1, <3>2
    <3> QED
      BY <1>9, <3>2, <3>3 DEF ToSet
  <2> QED
    BY <2>1, <2>2
<1>11. ASSUME IsInjective(s)
       PROVE  IsInjective(out)
  <2> SUFFICES ASSUME NEW m \in 1..Cardinality(places), NEW n \in 1..Cardinality(places), out[m] = out[n]
               PROVE  m = n
    BY <1>9 DEF IsInjective
  <2>1. s[nth(m)] = s[nth(n)] /\ nth(m) \in DOMAIN s /\ nth(n) \in DOMAIN s
    BY <1>3, <1>5, <1>7
  <2>2. nth(m) = nth(n)
    BY <1>11, <2>1 DEF IsInjective
  <2> QED
    BY <1>7, <2>2
<1> QED
  BY <1>9, <1>10, <1>11 DEF out

LEMMA LeastOfTwo ==
  ASSUME NEW a \in Int, NEW b \in Int
  PROVE  Min({a, b}) \in {a, b} /\ Min({a, b}) <= a /\ Min({a, b}) <= b
<1>1. \E x \in {a, b} : \A y \in {a, b} : x <= y
  BY SMT
<1> QED
  BY <1>1 DEF Min

LEMMA LeastOfMany ==
  ASSUME NEW S \in SUBSET Nat, S # {}
  PROVE  Min(S) \in S /\ \A y \in S : Min(S) <= y
<1>1. S \subseteq Nat
  OBVIOUS
<1>2. \E x \in S : \A y \in S : ~(<<y, x>> \in OpToRel(<, Nat))
  BY <1>1, WFMin, NatLessThanWellFounded, Zenon
<1>3. PICK x \in S : \A y \in S : ~(<<y, x>> \in OpToRel(<, Nat))
  BY <1>2
<1>4. ASSUME NEW y \in S
      PROVE  x <= y
  <2>1. ~(y < x)
    BY <1>1, <1>3, Zenon DEF OpToRel
  <2> QED
    BY <1>1, <2>1
<1> QED
  BY <1>4 DEF Min
\* A script has a next step that waits, or it is at its end.
LEMMA NextWaits ==
  ASSUME NEW i \in 1..(Len(Script) + 1)
  PROVE  NextWait(i) \in i..(Len(Script) + 1)
<1>1. Len(Script) \in Nat
  BY BatchAssumption
<1> DEFINE W == {k \in Steps : k >= i /\ Waits(k)} \union {Len(Script) + 1}
<1>2. W \in SUBSET Nat /\ W # {} /\ \A k \in W : k \in i..(Len(Script) + 1)
  BY <1>1 DEF Steps
<1>3. Min(W) \in W
  BY <1>2, LeastOfMany
<1> QED
  BY <1>2, <1>3 DEF NextWait

-----------------------------------------------------------------------------
(* The queue and the slots.                                                *)

\* The first of a queue, and the rest of it.
LEMMA QueueMovesUp ==
  ASSUME NEW q \in Seq(Jobs), IsInjective(q), NEW n \in 0..Len(q)
  PROVE  LET begun == {q[i] : i \in 1..n}
             rest  == SubSeq(q, n + 1, Len(q))
         IN  /\ rest \in Seq(Jobs) /\ IsInjective(rest)
             /\ ToSet(rest) = ToSet(q) \ begun
             /\ begun \subseteq ToSet(q) /\ IsFiniteSet(begun) /\ Cardinality(begun) = n
             /\ n = Len(q) => rest = <<>>
<1> DEFINE begun == {q[i] : i \in 1..n}
           rest  == SubSeq(q, n + 1, Len(q))
<1>1. Len(q) \in Nat /\ DOMAIN q = 1..Len(q) /\ n \in Nat
  OBVIOUS
<1>2. \A i, k \in 1..Len(q) : q[i] = q[k] => i = k
  BY <1>1 DEF IsInjective
<1>3. /\ rest \in Seq(Jobs) /\ Len(rest) = Len(q) - n /\ DOMAIN rest = 1..(Len(q) - n)
      /\ \A i \in 1..(Len(q) - n) : rest[i] = q[n + i]
  <2> DEFINE l == Len(q)
  <2>1. l \in Nat /\ n \in 0..l /\ \A i \in 1..l : q[i] \in Jobs
    BY <1>1
  <2> HIDE DEF l
  <2>2. n + 1 \in Int /\ l \in Int /\ \A i \in (n + 1)..l : q[i] \in Jobs
    BY <2>1
  <2>3. /\ SubSeq(q, n + 1, l) \in Seq(Jobs)
        /\ Len(SubSeq(q, n + 1, l)) = IF n + 1 <= l THEN l - (n + 1) + 1 ELSE 0
        /\ \A i \in 1..(l - (n + 1) + 1) : SubSeq(q, n + 1, l)[i] = q[n + 1 + i - 1]
    BY <2>2, SubSeqProperties
  <2>4. l - (n + 1) + 1 = l - n /\ (~(n + 1 <= l) => l - n = 0)
    BY <2>1
  <2>5. \A i \in 1..(l - n) : n + 1 + i - 1 = n + i
    BY <2>1
  <2>6. /\ SubSeq(q, n + 1, l) \in Seq(Jobs) /\ Len(SubSeq(q, n + 1, l)) = l - n
        /\ \A i \in 1..(l - n) : SubSeq(q, n + 1, l)[i] = q[n + i]
    BY <2>3, <2>4, <2>5
  <2> QED
    BY <2>6 DEF l
<1>4. \A i \in 1..(Len(q) - n) : rest[i] = q[n + i] /\ n + i \in 1..Len(q)
  <2> DEFINE l == Len(q)
  <2> HIDE DEF rest
  <2>1. l \in Nat /\ \A i \in 1..(l - n) : rest[i] = q[n + i]
    BY <1>1, <1>3
  <2> HIDE DEF l
  <2>2. \A i \in 1..(l - n) : n + i \in 1..l
    BY <1>1, <2>1
  <2> QED
    BY <2>1, <2>2 DEF l
<1>5. IsInjective(rest)
  <2> SUFFICES ASSUME NEW i \in 1..(Len(q) - n), NEW k \in 1..(Len(q) - n), rest[i] = rest[k]
               PROVE  i = k
    BY <1>3 DEF IsInjective
  <2>1. n + i = n + k
    BY <1>2, <1>4
  <2> QED
    BY <1>1, <2>1
<1>6. ToSet(rest) = ToSet(q) \ begun
  <2>1. ASSUME NEW x \in ToSet(rest)
        PROVE  x \in ToSet(q) \ begun
    <3>1. PICK i \in 1..(Len(q) - n) : x = rest[i]
      BY <1>3, <2>1 DEF ToSet
    <3>2. x = q[n + i] /\ n + i \in 1..Len(q)
      BY <1>4, <3>1
    <3>3. \A k \in 1..n : q[k] # x
      BY <1>1, <1>2, <3>2
    <3> QED
      BY <1>1, <3>2, <3>3 DEF ToSet
  <2>2. ASSUME NEW x \in ToSet(q) \ begun
        PROVE  x \in ToSet(rest)
    <3>1. PICK i \in 1..Len(q) : x = q[i]
      BY <1>1, <2>2 DEF ToSet
    <3>2. ~(i <= n)
      BY <1>1, <2>2, <3>1
    <3>3. i - n \in 1..(Len(q) - n) /\ rest[i - n] = q[i]
      BY <1>1, <1>4, <3>2
    <3> QED
      BY <1>3, <3>1, <3>3 DEF ToSet
  <2> QED
    BY <2>1, <2>2
<1>7. begun \subseteq ToSet(q)
  BY <1>1 DEF ToSet
<1>8. Cardinality(begun) = n
  <2> DEFINE f == [i \in 1..n |-> q[i]]
  <2>1. f \in Bijection(1..n, begun)
    BY <1>1, <1>2 DEF Bijection, Injection, Surjection, IsInjective
  <2>2. ExistsBijection(1..n, begun)
    BY <2>1 DEF ExistsBijection
  <2> QED
    BY <1>1, <2>2, FS_CountingElements
<1>9. IsFiniteSet(begun)
  BY <1>7, JobsAreTargets, FS_Subset DEF ToSet
<1>10. n = Len(q) => rest = <<>>
  BY <1>3
<1> QED
  BY <1>3, <1>5, <1>6, <1>7, <1>8, <1>9, <1>10

\* How jobs are driven: where they are, and how many of them.
Places == {NotRunning, Opening} \union Steps
Driven ==
  /\ at \in [Jobs -> Places] /\ active \in 0..CONCURRENCY
  /\ active = Cardinality(Running)
  /\ queue \in Seq(Jobs) /\ IsInjective(queue)
  /\ ToSet(queue) = {j \in Jobs : target[j] = "queued"}
  /\ Running = {j \in Jobs : target[j] = "running"}

\* pump(): with the statuses t and the queue q, when those of ended have ended.
LEMMA Pumped ==
  ASSUME Driven, NEW t \in [Jobs -> TargetStates], NEW q \in Seq(Jobs), IsInjective(q),
         ToSet(q) = {j \in Jobs : t[j] = "queued"},
         NEW ended \in SUBSET Running, {j \in Jobs : t[j] = "running"} = Running \ ended,
         \A j \in ended : ~Pending(t, j),
         pump(t, q, ended)
  PROVE  /\ Driven'
         /\ ToSet(queue') \subseteq ToSet(q)
         /\ target' \in [Jobs -> TargetStates]
         /\ \A j \in Jobs : target'[j] = t[j] \/ (t[j] = "queued" /\ target'[j] = "running")
         /\ \A j \in Running' : \/ at'[j] = Opening /\ j \in ToSet(q)
                                \/ at'[j] = at[j] /\ j \in Running \ ended
         /\ \A j \in ended : at'[j] = NotRunning
         /\ queue' # <<>> => active' = CONCURRENCY
<1> DEFINE busy  == active - Cardinality(ended)
           count == Min({Len(q), Free(busy)})
           begun == {q[i] : i \in 1..count}
<1>1. /\ CONCURRENCY \in Nat \ {0} /\ active \in 0..CONCURRENCY /\ Len(q) \in Nat
      /\ NotRunning = -1 /\ Opening = 0
  BY BatchAssumption DEF Driven, NotRunning, Opening
<1>2. IsFiniteSet(Running) /\ Running \subseteq Jobs
  BY JobsAreTargets, FS_Subset DEF Running
<1>3. IsFiniteSet(ended) /\ Cardinality(ended) \in Nat
  BY <1>2, FS_Subset, FS_CardinalityType
<1>4. IsFiniteSet(Running \ ended) /\ Cardinality(Running \ ended) = busy
  <2>1. Running \intersect ended = ended
    OBVIOUS
  <2>2. IsFiniteSet(Running \ ended)
        /\ Cardinality(Running \ ended) = Cardinality(Running) - Cardinality(Running \intersect ended)
    BY <1>2, FS_Difference
  <2> QED
    BY <2>1, <2>2 DEF Driven
<1>5. busy \in 0..CONCURRENCY
  BY <1>1, <1>3, <1>4, FS_CardinalityType
<1>6. Free(busy) \in Nat /\ Free(busy) = CONCURRENCY - busy
  BY <1>1, <1>5 DEF Free
<1>7. /\ count \in 0..Len(q) /\ busy + count \in 0..CONCURRENCY
      /\ count # Len(q) => busy + count = CONCURRENCY
  <2> HIDE DEF busy
  <2>0. Len(q) \in Int /\ Free(busy) \in Int
    BY <1>1, <1>6
  <2>1. count \in {Len(q), Free(busy)} /\ count <= Len(q) /\ count <= Free(busy)
    BY <2>0, LeastOfTwo, Zenon
  <2> HIDE DEF count
  <2> QED
    BY <1>1, <1>5, <1>6, <2>1
<1>8. /\ queue' = SubSeq(q, count + 1, Len(q)) /\ active' = busy + count
      /\ target' = [j \in Jobs |-> IF j \in begun THEN "running" ELSE t[j]]
      /\ at' = [j \in Jobs |-> IF j \in begun THEN Opening
                               ELSE IF j \in ended THEN NotRunning ELSE at[j]]
  BY DEF pump
<1> HIDE DEF busy, count
<1>9. /\ queue' \in Seq(Jobs) /\ IsInjective(queue') /\ ToSet(queue') = ToSet(q) \ begun
      /\ begun \subseteq ToSet(q) /\ IsFiniteSet(begun) /\ Cardinality(begun) = count
      /\ count = Len(q) => queue' = <<>>
  BY <1>7, <1>8, QueueMovesUp
<1> HIDE DEF begun
<1>10. target' \in [Jobs -> TargetStates] /\ at' \in [Jobs -> Places]
  BY <1>8 DEF TargetStates, Driven, Places
<1>11. \A j \in Jobs : target'[j] = t[j] \/ (t[j] = "queued" /\ target'[j] = "running")
  BY <1>8, <1>9
<1>12. begun \intersect ended = {} /\ begun \intersect Running = {} /\ begun \subseteq Jobs
  BY <1>9 DEF Pending
<1>13. Running' = (Running \ ended) \union begun
  <2>1. Running' = {j \in Jobs : at'[j] # NotRunning}
    BY DEF Running
  <2> QED
    BY <1>1, <1>2, <1>8, <1>12, <2>1 DEF Running
<1>14. ToSet(queue') = {j \in Jobs : target'[j] = "queued"}
  BY <1>8, <1>9
<1>15. Running' = {j \in Jobs : target'[j] = "running"}
  BY <1>8, <1>12, <1>13
<1>16. active' = Cardinality(Running')
  <2>1. (Running \ ended) \intersect begun = {}
    BY <1>12
  <2>2. Cardinality((Running \ ended) \union begun) = busy + count - Cardinality({})
    BY <1>4, <1>9, <2>1, FS_Union
  <2> QED
    BY <1>1, <1>5, <1>7, <1>8, <1>13, <2>2, FS_EmptySet
<1>17. active' \in 0..CONCURRENCY /\ (queue' # <<>> => active' = CONCURRENCY)
  BY <1>7, <1>8, <1>9
<1>18. /\ \A j \in Running' : \/ at'[j] = Opening /\ j \in ToSet(q)
                              \/ at'[j] = at[j] /\ j \in Running \ ended
       /\ \A j \in ended : at'[j] = NotRunning
  BY <1>2, <1>8, <1>9, <1>12, <1>13
<1>19. Driven'
  BY <1>9, <1>10, <1>14, <1>15, <1>16, <1>17 DEF Driven
<1> QED
  BY <1>9, <1>10, <1>11, <1>17, <1>18, <1>19

-----------------------------------------------------------------------------
(* What a run came to.                                                     *)

\* IsTrueRecord, run by run: v is what the record says of run r.
Absent(v, t, r) == v = NoRun /\ \A j \in JobsOf(r) : t[j] = "none"
Present(v, t, r) ==
  /\ v.status # "none"
  /\ v.status = "running" <=> \E j \in JobsOf(r) : Pending(t, j)
  /\ v.status = "completed" => \A j \in JobsOf(r) : t[j] = "succeeded"
  /\ v.status = "failed" => \E j \in JobsOf(r) : t[j] = "failed"
  /\ v.status = "cancelled" <=> v.cancelled /\ v.status \notin {"running", "interrupted"}
  /\ \A j \in JobsOf(r) : t[j] # "none" /\ (t[j] = "cancelled" => v.cancelled)

Verdicts == [status : RunStates, cancelled : BOOLEAN]

IsTrue(rs, rc, t) ==
  /\ rs \in Seq(Runs) /\ IsInjective(rs)
  /\ rc \in [Runs -> Verdicts]
  /\ t \in [Jobs -> TargetStates]
  /\ \A r \in Runs \ ToSet(rs) : Absent(rc[r], t, r)
  /\ \A r \in ToSet(rs) : Present(rc[r], t, r)

LEMMA TrueMemory ==
  /\ IsTrueRecord(Snapshot) <=> IsTrue(runs, rec, target)
  /\ IsTrueRecord(Snapshot)' <=> IsTrue(runs', rec', target')
  /\ IsTrueRecord(file) <=> IsTrue(file.runs, file.rec, file.target)
<1> DEFINE s == Snapshot
<1>1. s.runs = runs /\ s.rec = rec /\ s.target = target
  BY DEF Snapshot
<1>2. s'.runs = runs' /\ s'.rec = rec' /\ s'.target = target'
  BY DEF Snapshot
<1> HIDE DEF s
<1>3. IsTrueRecord(s) <=> IsTrue(runs, rec, target)
  BY <1>1 DEF IsTrueRecord, IsTrue, Absent, Present, Verdicts
<1>4. IsTrueRecord(s)' <=> IsTrue(runs', rec', target')
  BY <1>2 DEF IsTrueRecord, IsTrue, Absent, Present, Verdicts
<1>5. IsTrueRecord(file) <=> IsTrue(file.runs, file.rec, file.target)
  BY Zenon DEF IsTrueRecord, IsTrue, Absent, Present, Verdicts
<1> QED
  BY <1>3, <1>4, <1>5 DEF s

\* A run is in the record, or nothing is known of it.
LEMMA WhereRunsAre ==
  ASSUME NEW rs, NEW rc, NEW t, IsTrue(rs, rc, t), NEW r \in Runs
  PROVE  /\ r \in ToSet(rs) <=> rc[r].status # "none"
         /\ r \notin ToSet(rs) => rc[r] = NoRun
         /\ (\E j \in JobsOf(r) : Pending(t, j)) <=> rc[r].status = "running"
<1>1. \A j \in JobsOf(r) : t[j] = "none" => ~Pending(t, j)
  BY DEF Pending
<1>2. NoRun.status = "none"
  BY DEF NoRun
<1> QED
  BY <1>1, <1>2 DEF IsTrue, Absent, Present

\* That a job is started changes nothing in what its run came to.
LEMMA StartingIsNoVerdict ==
  ASSUME NEW r \in Runs, NEW v, NEW t, NEW u,
         \A j \in JobsOf(r) : u[j] = t[j] \/ (t[j] = "queued" /\ u[j] = "running")
  PROVE  /\ Absent(v, t, r) => Absent(v, u, r)
         /\ Present(v, t, r) => Present(v, u, r)
<1>1. \A j \in JobsOf(r) : /\ Pending(u, j) <=> Pending(t, j)
                           /\ ~Pending(t, j) => u[j] = t[j]
                           /\ \A k \in {"succeeded", "failed", "cancelled", "none"} : u[j] = k <=> t[j] = k
  BY DEF Pending
<1> QED
  BY <1>1 DEF Absent, Present

\* finishIfDone() of one run gives a true verdict, and of no other run.
LEMMA Judged ==
  ASSUME NEW r \in Runs, NEW rc \in [Runs -> Verdicts], NEW t \in [Jobs -> TargetStates],
         rc[r].status = "running",
         \A j \in JobsOf(r) : t[j] # "none" /\ (t[j] = "cancelled" => rc[r].cancelled)
  PROVE  LET judged == finishIfDone({r}, t, rc) IN
         /\ judged \in [Runs -> Verdicts]
         /\ \A x \in Runs \ {r} : judged[x] = rc[x]
         /\ judged[r].cancelled = rc[r].cancelled
         /\ Present(judged[r], t, r)
<1> DEFINE judged == finishIfDone({r}, t, rc)
           came == IF rc[r].cancelled THEN "cancelled"
                   ELSE IF \E j \in JobsOf(r) : t[j] = "failed" THEN "failed" ELSE "completed"
<1>1. rc[r] = [status |-> "running", cancelled |-> rc[r].cancelled] /\ rc[r].cancelled \in BOOLEAN
  BY DEF Verdicts
<1>2. judged[r] = IF AllOver(r, t) THEN [rc[r] EXCEPT !.status = came] ELSE rc[r]
  BY DEF finishIfDone
<1>3. \A x \in Runs \ {r} : judged[x] = rc[x]
  BY DEF finishIfDone
<1>4. came \in {"cancelled", "failed", "completed"}
  OBVIOUS
<1>5. judged[r] = [status |-> IF AllOver(r, t) THEN came ELSE "running", cancelled |-> rc[r].cancelled]
  <2> HIDE DEF judged, came
  <2> QED
    BY <1>1, <1>2
<1>6. judged \in [Runs -> Verdicts]
  <2>1. DOMAIN judged = Runs /\ judged = [x \in Runs |-> judged[x]]
    BY DEF finishIfDone
  <2>2. judged[r] \in Verdicts
    <3> HIDE DEF judged, came
    <3> QED
      BY <1>1, <1>4, <1>5 DEF Verdicts, RunStates
  <2>3. \A x \in Runs : judged[x] \in Verdicts
    <3> HIDE DEF judged
    <3> QED
      BY <1>3, <2>2
  <2> HIDE DEF judged
  <2> QED
    BY <2>1, <2>3
<1>7. Present(judged[r], t, r)
  <2>1. CASE AllOver(r, t)
    <3>1. judged[r].status = came /\ judged[r].cancelled = rc[r].cancelled
      <4> HIDE DEF judged, came
      <4> QED
        BY <1>5, <2>1
    <3>2. \A j \in JobsOf(r) : t[j] \in {"succeeded", "failed", "cancelled"}
      BY <2>1, JobsAreTargets DEF AllOver, Pending, TargetStates
    <3> HIDE DEF judged
    <3> QED
      BY <1>1, <2>1, <3>1, <3>2 DEF Present, AllOver
  <2>2. CASE ~AllOver(r, t)
    <3>1. judged[r].status = "running" /\ judged[r].cancelled = rc[r].cancelled
      <4> HIDE DEF judged, came
      <4> QED
        BY <1>5, <2>2
    <3> HIDE DEF judged
    <3> QED
      BY <2>2, <3>1 DEF Present, AllOver
  <2> QED
    BY <2>1, <2>2
<1>8. judged[r].cancelled = rc[r].cancelled
  <2> HIDE DEF judged, came
  <2> QED
    BY <1>5
<1> QED
  BY <1>3, <1>6, <1>7, <1>8

-----------------------------------------------------------------------------
(* What a step of the runner keeps: BatchInv, and that no slot is wasted.   *)

IInv == BatchInv /\ NoSlotIsWasted

LEMMA Parts ==
  /\ BatchInv => /\ Driven /\ IsTrue(runs, rec, target) /\ typed \in [Jobs -> 0..Len(Script)]
                 /\ saveDue \in BOOLEAN /\ mixed \in BOOLEAN /\ IsTrueRecord(file)
                 /\ writing = <<>> \/ (writing = <<writing[1]>> /\ IsTrueRecord(writing[1]))
                 /\ CancelledAreStopped
  /\ /\ Driven' /\ IsTrue(runs', rec', target') /\ typed' \in [Jobs -> 0..Len(Script)]
     /\ saveDue' \in BOOLEAN /\ mixed' \in BOOLEAN /\ IsTrueRecord(file)'
     /\ (writing = <<>> \/ (writing = <<writing[1]>> /\ IsTrueRecord(writing[1])))'
     /\ CancelledAreStopped'
     => BatchInv'
<1>1. BatchInv => /\ Driven /\ IsTrue(runs, rec, target) /\ typed \in [Jobs -> 0..Len(Script)]
                  /\ saveDue \in BOOLEAN /\ mixed \in BOOLEAN /\ IsTrueRecord(file)
                  /\ writing = <<>> \/ (writing = <<writing[1]>> /\ IsTrueRecord(writing[1]))
                  /\ CancelledAreStopped
  BY TrueMemory, Zenon DEF BatchInv, BatchTypeOK, VerdictIsTrue, EveryTargetIsDriven, Driven, Places
<1>2. /\ Driven' /\ IsTrue(runs', rec', target') /\ typed' \in [Jobs -> 0..Len(Script)]
      /\ saveDue' \in BOOLEAN /\ mixed' \in BOOLEAN /\ IsTrueRecord(file)'
      /\ (writing = <<>> \/ (writing = <<writing[1]>> /\ IsTrueRecord(writing[1])))'
      /\ CancelledAreStopped'
      => BatchInv'
  BY TrueMemory, Zenon DEF BatchInv, BatchTypeOK, VerdictIsTrue, EveryTargetIsDriven, Driven, Places
<1> QED
  BY <1>1, <1>2

\* Every step that ends in pump() and save(), whatever it did before.
LEMMA PumpsKeep ==
  ASSUME IInv, NEW t \in [Jobs -> TargetStates], NEW q \in Seq(Jobs), IsInjective(q),
         ToSet(q) = {j \in Jobs : t[j] = "queued"},
         NEW ended \in SUBSET Running, {j \in Jobs : t[j] = "running"} = Running \ ended,
         \A j \in ended : ~Pending(t, j),
         pump(t, q, ended), save,
         IsTrue(runs', rec', t), typed' \in [Jobs -> 0..Len(Script)],
         \A j \in ToSet(q) : ~rec'[j[1]].cancelled /\ typed'[j] = 0,
         \A j \in Running \ ended :
           typed'[j] <= at[j] /\ (rec'[j[1]].cancelled => at[j] = Opening)
  PROVE  /\ IInv'
         /\ \A j \in Jobs : target'[j] = t[j] \/ (t[j] = "queued" /\ target'[j] = "running")
<1>1. /\ Driven /\ saveDue \in BOOLEAN /\ mixed \in BOOLEAN /\ IsTrueRecord(file)
      /\ writing = <<>> \/ (writing = <<writing[1]>> /\ IsTrueRecord(writing[1]))
  BY Parts DEF IInv
<1>2. /\ Driven'
      /\ ToSet(queue') \subseteq ToSet(q)
      /\ target' \in [Jobs -> TargetStates]
      /\ \A j \in Jobs : target'[j] = t[j] \/ (t[j] = "queued" /\ target'[j] = "running")
      /\ \A j \in Running' : \/ at'[j] = Opening /\ j \in ToSet(q)
                             \/ at'[j] = at[j] /\ j \in Running \ ended
      /\ queue' # <<>> => active' = CONCURRENCY
  BY <1>1, Pumped, Zenon
<1>3. saveDue' \in BOOLEAN /\ mixed' = mixed /\ file' = file /\ writing' = writing
  BY BatchAssumption DEF save
<1>4. IsTrue(runs', rec', target')
  <2>1. \A r \in Runs : \A j \in JobsOf(r) :
          target'[j] = t[j] \/ (t[j] = "queued" /\ target'[j] = "running")
    BY <1>2, JobsAreTargets
  <2>2. ToSet(runs') \subseteq Runs
    BY DEF IsTrue, ToSet
  <2>3. \A r \in Runs : /\ Absent(rec'[r], t, r) => Absent(rec'[r], target', r)
                        /\ Present(rec'[r], t, r) => Present(rec'[r], target', r)
    BY <2>1, StartingIsNoVerdict, Zenon
  <2> QED
    BY <1>2, <2>2, <2>3 DEF IsTrue
<1>5. CancelledAreStopped'
  <2>1. \A j \in ToSet(queue') : ~rec'[j[1]].cancelled /\ typed'[j] = 0
    BY <1>2
  <2>2. \A j \in Running' : typed'[j] <= at'[j] /\ (rec'[j[1]].cancelled => at'[j] = Opening)
    <3> TAKE j \in Running'
    <3>1. CASE at'[j] = Opening /\ j \in ToSet(q)
      BY <3>1 DEF Opening
    <3>2. CASE at'[j] = at[j] /\ j \in Running \ ended
      BY <3>2, Zenon
    <3> QED
      BY <1>2, <3>1, <3>2
  <2> QED
    BY <2>1, <2>2, Zenon DEF CancelledAreStopped
<1>6. (writing = <<>> \/ (writing = <<writing[1]>> /\ IsTrueRecord(writing[1])))'
  <2>1. IsTrueRecord(writing[1]) => IsTrueRecord(writing[1])'
    BY <1>3
  <2> QED
    BY <1>1, <1>3, <2>1
<1>7. IsTrueRecord(file)' /\ mixed' \in BOOLEAN
  <2>1. IsTrueRecord(file)'
    BY <1>1, <1>3
  <2> QED
    BY <1>1, <1>3, <2>1
<1>8. BatchInv'
  BY <1>2, <1>3, <1>4, <1>5, <1>6, <1>7, Parts
<1>9. NoSlotIsWasted'
  BY <1>2 DEF NoSlotIsWasted
<1> QED
  BY <1>2, <1>8, <1>9 DEF IInv

\* A job at work is one of a run that goes on.
LEMMA JobsAtWork ==
  ASSUME BatchInv, NEW j \in Jobs, j \in Running \/ j \in ToSet(queue)
  PROVE  /\ j[1] \in Runs /\ j[1] \in ToSet(runs) /\ j \in JobsOf(j[1])
         /\ rec[j[1]].status = "running"
         /\ target[j] = IF j \in Running THEN "running" ELSE "queued"
<1>1. Driven /\ IsTrue(runs, rec, target)
  BY Parts
<1>2. j[1] \in Runs /\ j \in JobsOf(j[1])
  BY JobsAreTargets
<1>3. target[j] = IF j \in Running THEN "running" ELSE "queued"
  BY <1>1 DEF Driven
<1>4. Pending(target, j)
  BY <1>3 DEF Pending
<1>5. rec[j[1]].status = "running"
  BY <1>1, <1>2, <1>4, WhereRunsAre
<1>6. j[1] \in ToSet(runs)
  BY <1>1, <1>2, <1>5, WhereRunsAre
<1> QED
  BY <1>2, <1>3, <1>5, <1>6

\* What a job of a run that goes on can have come to.
LEMMA TargetsOf ==
  ASSUME BatchInv, NEW r \in ToSet(runs)
  PROVE  \A j \in JobsOf(r) : target[j] # "none" /\ (target[j] = "cancelled" => rec[r].cancelled)
<1>1. IsTrue(runs, rec, target)
  BY Parts
<1> QED
  BY <1>1 DEF IsTrue, Present

\* The record after finishIfDone() of one run.
LEMMA JudgedRecord ==
  ASSUME BatchInv, NEW r \in Runs, rec[r].status = "running",
         NEW rc \in [Runs -> Verdicts], \A x \in Runs \ {r} : rc[x] = rec[x],
         rc[r].status = "running",
         NEW t \in [Jobs -> TargetStates], \A j \in Jobs \ JobsOf(r) : t[j] = target[j],
         \A j \in JobsOf(r) : t[j] # "none" /\ (t[j] = "cancelled" => rc[r].cancelled)
  PROVE  LET judged == finishIfDone({r}, t, rc) IN
         /\ IsTrue(runs, judged, t)
         /\ \A x \in Runs \ {r} : judged[x] = rec[x]
         /\ judged[r].cancelled = rc[r].cancelled
<1>1. IsTrue(runs, rec, target)
  BY Parts
<1>2. r \in ToSet(runs) /\ ToSet(runs) \subseteq Runs
  <2>1. r \in ToSet(runs)
    BY <1>1, WhereRunsAre
  <2>2. ToSet(runs) \subseteq Runs
    BY <1>1 DEF IsTrue, ToSet
  <2> QED
    BY <2>1, <2>2
<1> DEFINE judged == finishIfDone({r}, t, rc)
<1>3. /\ judged \in [Runs -> Verdicts]
      /\ \A x \in Runs \ {r} : judged[x] = rc[x]
      /\ judged[r].cancelled = rc[r].cancelled
      /\ Present(judged[r], t, r)
  BY Judged
<1> HIDE DEF judged
<1>4. ASSUME NEW x \in Runs, x # r
      PROVE  /\ Absent(rec[x], target, x) => Absent(judged[x], t, x)
             /\ Present(rec[x], target, x) => Present(judged[x], t, x)
  <2>1. judged[x] = rec[x]
    BY <1>3, <1>4
  <2>2. \A j \in JobsOf(x) : t[j] = target[j]
    BY <1>4, JobsAreTargets
  <2> QED
    BY <2>1, <2>2, StartingIsNoVerdict
<1>5. IsTrue(runs, judged, t)
  BY <1>1, <1>2, <1>3, <1>4 DEF IsTrue
<1> QED
  BY <1>3, <1>5 DEF judged

-----------------------------------------------------------------------------
(* Jobs that run and end.                                                  *)

\* What nobody changes again: what a finished run came to.
Stands(r) == rec'[r] = rec[r] /\ \A j \in JobsOf(r) : target'[j] = target[j]

\* A step that ends in pump() leaves the jobs of a finished run alone, when
\* what it did before does.
LEMMA PumpsLeave ==
  ASSUME BatchInv, NEW t \in [Jobs -> TargetStates], NEW r \in Runs, Finished(r),
         \A j \in JobsOf(r) : t[j] = target[j],
         \A j \in Jobs : target'[j] = t[j] \/ (t[j] = "queued" /\ target'[j] = "running")
  PROVE  \A j \in JobsOf(r) : target'[j] = target[j]
<1>1. IsTrue(runs, rec, target)
  BY Parts
<1>2. \A j \in JobsOf(r) : ~Pending(target, j)
  BY <1>1, WhereRunsAre DEF Finished
<1> QED
  BY <1>2, JobsAreTargets DEF Pending

LEMMA EndsKeep ==
  ASSUME IInv, NEW j \in Running, NEW v \in {"succeeded", "failed", "cancelled"},
         v = "cancelled" => rec[j[1]].cancelled, End(j, v),
         typed' \in [Jobs -> 0..Len(Script)], \A k \in Jobs \ {j} : typed'[k] = typed[k]
  PROVE  /\ IInv'
         /\ \A r \in Runs : rec'[r].cancelled = rec[r].cancelled
         /\ \A r \in Runs : Finished(r) => Stands(r)
<1> DEFINE t == [target EXCEPT ![j] = v]
           r == j[1]
<1>1. /\ BatchInv /\ Driven /\ IsTrue(runs, rec, target) /\ CancelledAreStopped
      /\ target \in [Jobs -> TargetStates] /\ rec \in [Runs -> Verdicts]
  BY Parts DEF IInv, IsTrue
<1>2. j \in Jobs
  BY DEF Running
<1>3. /\ r \in Runs /\ r \in ToSet(runs) /\ j \in JobsOf(r) /\ rec[r].status = "running"
      /\ target[j] = "running"
  BY <1>1, <1>2, JobsAtWork
<1>4. /\ t \in [Jobs -> TargetStates] /\ t[j] = v
      /\ \A k \in Jobs \ {j} : t[k] = target[k]
  BY <1>1, <1>2 DEF TargetStates
<1>5. /\ pump(t, queue, {j}) /\ rec' = finishIfDone({r}, t, rec) /\ save /\ runs' = runs
  BY DEF End
<1> HIDE DEF t
<1>6. \A k \in JobsOf(r) : t[k] # "none" /\ (t[k] = "cancelled" => rec[r].cancelled)
  <2>1. \A k \in JobsOf(r) : target[k] # "none" /\ (target[k] = "cancelled" => rec[r].cancelled)
    BY <1>1, <1>3, TargetsOf
  <2>2. \A k \in JobsOf(r) : k \in Jobs
    BY <1>3, JobsAreTargets
  <2> QED
    BY <1>4, <2>1, <2>2
<1>7. \A k \in Jobs \ JobsOf(r) : t[k] = target[k]
  BY <1>3, <1>4
<1>8. /\ IsTrue(runs, finishIfDone({r}, t, rec), t)
      /\ \A x \in Runs \ {r} : finishIfDone({r}, t, rec)[x] = rec[x]
      /\ finishIfDone({r}, t, rec)[r].cancelled = rec[r].cancelled
  <2> HIDE DEF r
  <2> QED
    BY <1>1, <1>3, <1>4, <1>6, <1>7, JudgedRecord
<1>9. IsTrue(runs', rec', t)
  BY <1>5, <1>8
<1>10. \A x \in Runs : rec'[x].cancelled = rec[x].cancelled
  BY <1>5, <1>8
<1>11. /\ ToSet(queue) = {k \in Jobs : t[k] = "queued"}
       /\ {k \in Jobs : t[k] = "running"} = Running \ {j}
       /\ queue \in Seq(Jobs) /\ IsInjective(queue)
       /\ ToSet(queue) = {k \in Jobs : target[k] = "queued"}
  BY <1>1, <1>2, <1>3, <1>4 DEF Driven
<1>12. ~Pending(t, j)
  BY <1>4 DEF Pending
<1>13. \A k \in ToSet(queue) : ~rec'[k[1]].cancelled /\ typed'[k] = 0
  <2>1. \A k \in ToSet(queue) : k \in Jobs /\ k # j /\ k[1] \in Runs
    BY <1>3, <1>11, JobsAreTargets
  <2> QED
    BY <1>1, <1>10, <2>1 DEF CancelledAreStopped
<1>14. \A k \in Running \ {j} : typed'[k] <= at[k] /\ (rec'[k[1]].cancelled => at[k] = Opening)
  <2>1. \A k \in Running \ {j} : k \in Jobs /\ k # j /\ k[1] \in Runs
    BY JobsAreTargets DEF Running
  <2> QED
    BY <1>1, <1>10, <2>1 DEF CancelledAreStopped
<1>15. IInv' /\ \A k \in Jobs : target'[k] = t[k] \/ (t[k] = "queued" /\ target'[k] = "running")
  <2>1. {j} \in SUBSET Running /\ \A k \in {j} : ~Pending(t, k)
    BY <1>12
  <2> QED
    BY <1>4, <1>5, <1>9, <1>11, <1>13, <1>14, <2>1, PumpsKeep
<1>16. ASSUME NEW x \in Runs, Finished(x)
       PROVE  Stands(x)
  <2>1. x # r
    BY <1>3, <1>16 DEF Finished
  <2>2. \A k \in JobsOf(x) : t[k] = target[k]
    BY <1>3, <1>4, <2>1, JobsAreTargets
  <2>3. \A k \in Jobs : target'[k] = t[k] \/ (t[k] = "queued" /\ target'[k] = "running")
    BY <1>15
  <2>4. \A k \in JobsOf(x) : target'[k] = target[k]
    BY <1>1, <1>4, <1>16, <2>2, <2>3, PumpsLeave
  <2>5. rec'[x] = rec[x]
    BY <1>5, <1>8, <2>1
  <2> QED
    BY <2>4, <2>5 DEF Stands
<1> QED
  BY <1>10, <1>15, <1>16

\* Typing: from step i up to the next wait, no more than the steps there are.
LEMMA TypedOnTheWay ==
  ASSUME NEW i \in 1..(Len(Script) + 1), NEW w \in i..(Len(Script) + 1)
  PROVE  LET n == Cardinality({k \in Steps : i <= k /\ k <= w /\ Types(k)}) IN
         /\ n \in Nat
         /\ w \in Steps => n <= w - i + 1
         /\ w \notin Steps => n <= w - i
<1> DEFINE K == {k \in Steps : i <= k /\ k <= w /\ Types(k)}
           last == IF w \in Steps THEN w ELSE Len(Script)
<1>1. Len(Script) \in Nat /\ Steps = 1..Len(Script)
  BY BatchAssumption DEF Steps
<1>2. last \in Nat /\ (w \notin Steps => w = last + 1) /\ last >= i - 1
  BY <1>1
<1>3. K \subseteq i..last
  BY <1>1
<1> HIDE DEF last, K
<1>4. IsFiniteSet(i..last) /\ Cardinality(i..last) <= last - i + 1
  <2>1. i \in Int /\ last \in Int
    BY <1>1, <1>2
  <2>2. /\ IsFiniteSet(i..last)
        /\ Cardinality(i..last) = IF i > last THEN 0 ELSE last - i + 1
    BY <2>1, FS_Interval
  <2>3. i > last => 0 <= last - i + 1
    BY <1>1, <1>2, <2>1
  <2> QED
    BY <2>1, <2>2, <2>3
<1>5. IsFiniteSet(K) /\ Cardinality(K) \in Nat /\ Cardinality(K) <= Cardinality(i..last)
  BY <1>3, <1>4, FS_Subset, FS_CardinalityType
<1>6. Cardinality(i..last) \in Nat
  BY <1>4, FS_CardinalityType
<1>7. Cardinality(K) <= last - i + 1
  BY <1>1, <1>2, <1>4, <1>5, <1>6
<1>8. w \in Steps => Cardinality(K) <= w - i + 1
  BY <1>7 DEF last
<1>9. w \notin Steps => Cardinality(K) <= w - i
  BY <1>1, <1>2, <1>7
<1> QED
  BY <1>5, <1>8, <1>9 DEF K

\* A script goes on: to its next wait, to its end, or to where it was cancelled.
LEMMA ProceedKeeps ==
  ASSUME IInv, NEW j \in Running, NEW i \in 1..(Len(Script) + 1), i = at[j] + 1, Proceed(j, i)
  PROVE  /\ IInv'
         /\ \A r \in Runs : rec'[r].cancelled = rec[r].cancelled
         /\ \A r \in Runs : Finished(r) => Stands(r)
<1> DEFINE w == NextWait(i)
           n == Cardinality({k \in Steps : i <= k /\ k <= w /\ Types(k)})
<1>1. w \in i..(Len(Script) + 1)
  BY NextWaits
<1>2. typed' = [typed EXCEPT ![j] = @ + n]
  BY DEF Proceed
<1>3. \/ w \notin Steps /\ End(j, "succeeded")
      \/ w \in Steps /\ rec[j[1]].cancelled /\ End(j, "cancelled")
      \/ /\ w \in Steps /\ ~rec[j[1]].cancelled /\ at' = [at EXCEPT ![j] = w]
         /\ UNCHANGED <<runs, rec, target, queue, active, disk>>
  BY DEF Proceed
<1> HIDE DEF w
<1>4. /\ n \in Nat
      /\ w \in Steps => n <= w - i + 1
      /\ w \notin Steps => n <= w - i
  BY <1>1, TypedOnTheWay
<1> HIDE DEF n
<1>5. /\ BatchInv /\ Driven /\ IsTrue(runs, rec, target) /\ CancelledAreStopped
      /\ typed \in [Jobs -> 0..Len(Script)]
      /\ saveDue \in BOOLEAN /\ mixed \in BOOLEAN /\ IsTrueRecord(file)
      /\ writing = <<>> \/ (writing = <<writing[1]>> /\ IsTrueRecord(writing[1]))
  BY Parts DEF IInv
<1>6. j \in Jobs /\ at[j] # NotRunning /\ at \in [Jobs -> Places]
  BY <1>5 DEF Running, Driven
<1>7. Len(Script) \in Nat /\ Steps = 1..Len(Script)
  BY BatchAssumption DEF Steps
<1>8. typed[j] \in Nat /\ typed[j] <= i - 1
  <2>1. typed[j] <= at[j] /\ typed[j] \in 0..Len(Script)
    BY <1>5, <1>6 DEF CancelledAreStopped
  <2>2. at[j] \in Int
    BY <1>6, <1>7 DEF Places, NotRunning, Opening
  <2> QED
    BY <1>7, <2>1, <2>2
<1>9. typed[j] + n \in 0..Len(Script) /\ (w \in Steps => typed[j] + n <= w)
  <2> DEFINE l == Len(Script)
             h == typed[j]
  <2>1. l \in Nat /\ h \in Nat /\ h <= i - 1 /\ i \in 1..(l + 1) /\ w \in i..(l + 1) /\ n \in Nat
    BY <1>1, <1>4, <1>7, <1>8
  <2>2. (w \in 1..l => n <= w - i + 1) /\ (w \notin 1..l => n <= w - i)
    BY <1>4, <1>7
  <2> HIDE DEF l, h
  <2>3. h + n \in 0..l /\ (w \in 1..l => h + n <= w)
    <3>1. CASE w \in 1..l
      BY <2>1, <2>2, <3>1
    <3>2. CASE w \notin 1..l
      <4>1. w = l + 1
        BY <2>1, <3>2
      <4> QED
        BY <2>1, <2>2, <3>2, <4>1
    <3> QED
      BY <3>1, <3>2
  <2> QED
    BY <1>7, <2>3 DEF l, h
<1>10. typed' \in [Jobs -> 0..Len(Script)] /\ typed'[j] = typed[j] + n
       /\ \A k \in Jobs \ {j} : typed'[k] = typed[k]
  BY <1>2, <1>5, <1>6, <1>9
<1>11. CASE w \notin Steps /\ End(j, "succeeded")
  BY <1>10, <1>11, EndsKeep
<1>12. CASE w \in Steps /\ rec[j[1]].cancelled /\ End(j, "cancelled")
  BY <1>10, <1>12, EndsKeep
<1>13. CASE /\ w \in Steps /\ ~rec[j[1]].cancelled /\ at' = [at EXCEPT ![j] = w]
            /\ UNCHANGED <<runs, rec, target, queue, active, disk>>
  <2>1. /\ runs' = runs /\ rec' = rec /\ target' = target /\ queue' = queue /\ active' = active
        /\ saveDue' = saveDue /\ writing' = writing /\ mixed' = mixed /\ file' = file
    BY <1>13 DEF disk
  <2>2. /\ at' \in [Jobs -> Places] /\ at'[j] = w /\ \A k \in Jobs \ {j} : at'[k] = at[k]
        /\ w \in Steps /\ w # NotRunning
    BY <1>6, <1>7, <1>13 DEF Places, NotRunning
  <2>3. Running' = Running
    <3>1. Running' = {k \in Jobs : at'[k] # NotRunning}
      BY DEF Running
    <3>2. \A k \in Jobs : at'[k] # NotRunning <=> at[k] # NotRunning
      BY <1>6, <2>2
    <3> QED
      BY <3>1, <3>2, Zenon DEF Running
  <2>4. Driven'
    BY <1>5, <2>1, <2>2, <2>3 DEF Driven
  <2>5. IsTrue(runs', rec', target')
    BY <1>5, <2>1
  <2>6. \A k \in ToSet(queue') : ~rec'[k[1]].cancelled /\ typed'[k] = 0
    <3>1. ToSet(queue) \subseteq Jobs /\ j \notin ToSet(queue)
      BY <1>5 DEF Driven
    <3> QED
      BY <1>5, <1>10, <2>1, <3>1 DEF CancelledAreStopped
  <2>7. \A k \in Running' : typed'[k] <= at'[k] /\ (rec'[k[1]].cancelled => at'[k] = Opening)
    <3>1. typed'[j] <= at'[j] /\ ~rec'[j[1]].cancelled
      BY <1>9, <1>10, <1>13, <2>1, <2>2
    <3>2. \A k \in Running' : k \in Jobs
      BY <2>3 DEF Running
    <3> QED
      BY <1>5, <1>10, <2>1, <2>2, <2>3, <3>1, <3>2 DEF CancelledAreStopped
  <2>8. CancelledAreStopped'
    BY <2>6, <2>7, Zenon DEF CancelledAreStopped
  <2>9. /\ IsTrueRecord(file)'
        /\ (writing = <<>> \/ (writing = <<writing[1]>> /\ IsTrueRecord(writing[1])))'
    <3>1. IsTrueRecord(writing[1]) => IsTrueRecord(writing[1])'
      BY <2>1
    <3>2. IsTrueRecord(file)'
      BY <1>5, <2>1
    <3> QED
      BY <1>5, <2>1, <3>1, <3>2
  <2>10. BatchInv'
    BY <1>5, <1>10, <2>1, <2>4, <2>5, <2>8, <2>9, Parts
  <2>11. NoSlotIsWasted'
    BY <2>1 DEF IInv, NoSlotIsWasted
  <2> QED
    BY <2>1, <2>10, <2>11 DEF IInv, Stands
<1> QED
  BY <1>3, <1>11, <1>12, <1>13, Zenon

\* The steps of a job.
LEMMA JobsKeep ==
  ASSUME IInv, NEW j \in Jobs,
         \/ PortOpened(j) \/ OpenFailed(j)
         \/ StepDone(j) \/ StepFailed(j) \/ ConnectionClosed(j)
  PROVE  /\ IInv'
         /\ \A r \in Runs : rec'[r].cancelled = rec[r].cancelled
         /\ \A r \in Runs : Finished(r) => Stands(r)
<1>1. Len(Script) \in Nat /\ Steps = 1..Len(Script) /\ NotRunning = -1 /\ Opening = 0
  BY BatchAssumption DEF Steps, NotRunning, Opening
<1>2. j \in Running
  BY <1>1 DEF Running, PortOpened, OpenFailed, StepDone, StepFailed, ConnectionClosed
<1>3. typed \in [Jobs -> 0..Len(Script)]
  BY Parts DEF IInv
<1>4. CASE PortOpened(j)
  <2>1. at[j] + 1 = 1 /\ 1 \in 1..(Len(Script) + 1) /\ Proceed(j, 1)
    BY <1>1, <1>4 DEF PortOpened
  <2> QED
    BY <1>2, <2>1, ProceedKeeps
<1>5. CASE StepDone(j)
  <2>1. at[j] + 1 \in 1..(Len(Script) + 1) /\ Proceed(j, at[j] + 1)
    BY <1>1, <1>5 DEF StepDone
  <2> QED
    BY <1>2, <2>1, ProceedKeeps
<1>6. CASE OpenFailed(j) \/ StepFailed(j)
  <2>1. End(j, "failed") /\ typed' = typed
    BY <1>6 DEF OpenFailed, StepFailed
  <2> QED
    BY <1>2, <1>3, <2>1, EndsKeep
<1>7. CASE ConnectionClosed(j)
  <2>1. PICK v \in {"succeeded", "failed"} : End(j, v) /\ typed' = typed
    BY <1>7 DEF ConnectionClosed
  <2> QED
    BY <1>2, <1>3, <2>1, EndsKeep
<1> QED
  BY <1>4, <1>5, <1>6, <1>7

-----------------------------------------------------------------------------
(* Runs that are started, cancelled and removed.                           *)

\* One sequence after another that it has nothing in common with.
LEMMA Joined ==
  ASSUME NEW A, NEW a \in Seq(A), NEW b \in Seq(A),
         IsInjective(a), IsInjective(b), ToSet(a) \intersect ToSet(b) = {}
  PROVE  /\ a \o b \in Seq(A) /\ IsInjective(a \o b)
         /\ ToSet(a \o b) = ToSet(a) \union ToSet(b)
<1> DEFINE m == Len(a)
           n == Len(b)
           c == a \o b
<1>1. /\ m \in Nat /\ n \in Nat /\ DOMAIN a = 1..m /\ DOMAIN b = 1..n
      /\ c \in Seq(A) /\ DOMAIN c = 1..(m + n)
      /\ \A i \in 1..(m + n) : c[i] = IF i <= m THEN a[i] ELSE b[i - m]
  <2>1. m \in Nat /\ n \in Nat /\ DOMAIN a = 1..m /\ DOMAIN b = 1..n
    OBVIOUS
  <2>2. c \in Seq(A) /\ Len(c) = m + n
    OBVIOUS
  <2>3. DOMAIN c = 1..(m + n)
    BY <2>2
  <2>4. \A i \in 1..(m + n) : c[i] = IF i <= m THEN a[i] ELSE b[i - m]
    BY <2>1
  <2> QED
    BY <2>1, <2>2, <2>3, <2>4
<1> HIDE DEF c, m, n
<1>2. \A i \in 1..m : c[i] = a[i] /\ i \in 1..(m + n)
  BY <1>1
<1>3. \A i \in 1..n : c[m + i] = b[i] /\ m + i \in 1..(m + n)
  <2> TAKE i \in 1..n
  <2>1. m + i \in 1..(m + n) /\ ~(m + i <= m) /\ (m + i) - m = i
    BY <1>1
  <2> QED
    BY <1>1, <2>1
<1>4. \A i \in 1..(m + n) : i \in 1..m \/ (i - m \in 1..n /\ i = m + (i - m))
  BY <1>1
<1>5. ToSet(c) = ToSet(a) \union ToSet(b)
  <2>1. ASSUME NEW x \in ToSet(c)
        PROVE  x \in ToSet(a) \union ToSet(b)
    <3>1. PICK i \in 1..(m + n) : x = c[i]
      BY <1>1, <2>1 DEF ToSet
    <3>2. CASE i \in 1..m
      BY <1>1, <1>2, <3>1, <3>2 DEF ToSet
    <3>3. CASE i - m \in 1..n /\ i = m + (i - m)
      <4>1. x = b[i - m]
        BY <1>3, <3>1, <3>3
      <4> QED
        BY <1>1, <3>3, <4>1 DEF ToSet
    <3> QED
      BY <1>4, <3>2, <3>3
  <2>2. ToSet(a) \subseteq ToSet(c)
    BY <1>1, <1>2 DEF ToSet
  <2>3. ASSUME NEW x \in ToSet(b)
        PROVE  x \in ToSet(c)
    <3>1. PICK i \in 1..n : x = b[i]
      BY <1>1, <2>3 DEF ToSet
    <3>2. x = c[m + i] /\ m + i \in DOMAIN c
      BY <1>1, <1>3, <3>1
    <3> QED
      BY <3>2 DEF ToSet
  <2> QED
    BY <2>1, <2>2, <2>3
<1>6. IsInjective(c)
  <2> SUFFICES ASSUME NEW i \in 1..(m + n), NEW k \in 1..(m + n), c[i] = c[k]
               PROVE  i = k
    BY <1>1 DEF IsInjective
  <2>1. \A x \in 1..m, y \in 1..n : a[x] # b[y]
    BY <1>1 DEF ToSet
  <2>2. \A x, y \in 1..m : a[x] = a[y] => x = y
    BY <1>1 DEF IsInjective
  <2>3. \A x, y \in 1..n : b[x] = b[y] => x = y
    BY <1>1 DEF IsInjective
  <2>4. CASE i \in 1..m /\ k \in 1..m
    BY <1>2, <2>2, <2>4
  <2>5. CASE i \in 1..m /\ k - m \in 1..n /\ k = m + (k - m)
    <3>1. c[i] = a[i] /\ c[k] = b[k - m]
      BY <1>2, <1>3, <2>5
    <3> QED
      BY <2>1, <2>5, <3>1
  <2>6. CASE k \in 1..m /\ i - m \in 1..n /\ i = m + (i - m)
    <3>1. c[k] = a[k] /\ c[i] = b[i - m]
      BY <1>2, <1>3, <2>6
    <3> QED
      BY <2>1, <2>6, <3>1
  <2>7. CASE /\ i - m \in 1..n /\ i = m + (i - m)
             /\ k - m \in 1..n /\ k = m + (k - m)
    <3>1. c[i] = b[i - m] /\ c[k] = b[k - m]
      BY <1>3, <2>7
    <3>2. i - m = k - m
      BY <2>3, <2>7, <3>1
    <3> QED
      BY <2>7, <3>2
  <2> QED
    BY <1>4, <2>4, <2>5, <2>6, <2>7
<1> QED
  BY <1>1, <1>5, <1>6 DEF c

\* What is left when finished runs are forgotten.
LEMMA Forgotten ==
  ASSUME BatchInv, NEW F \in SUBSET Runs, \A x \in F : Finished(x)
  PROVE  LET rc == Without(F, rec, target)[1]
             t  == Without(F, rec, target)[2]
         IN  /\ rc \in [Runs -> Verdicts] /\ t \in [Jobs -> TargetStates]
             /\ \A x \in F : rc[x] = NoRun /\ Absent(rc[x], t, x)
             /\ \A x \in Runs \ F : rc[x] = rec[x] /\ \A j \in JobsOf(x) : t[j] = target[j]
             /\ {j \in Jobs : t[j] = "queued"} = {j \in Jobs : target[j] = "queued"}
             /\ {j \in Jobs : t[j] = "running"} = {j \in Jobs : target[j] = "running"}
<1> DEFINE rc == [x \in Runs |-> IF x \in F THEN NoRun ELSE rec[x]]
           t  == [j \in Jobs |-> IF j[1] \in F THEN "none" ELSE target[j]]
<1>1. Without(F, rec, target)[1] = rc /\ Without(F, rec, target)[2] = t
  BY DEF Without
<1>2. rec \in [Runs -> Verdicts] /\ target \in [Jobs -> TargetStates] /\ IsTrue(runs, rec, target)
  BY Parts DEF IsTrue
<1>3. rc \in [Runs -> Verdicts]
  BY <1>2 DEF NoRun, Verdicts, RunStates
<1>4. t \in [Jobs -> TargetStates]
  BY <1>2 DEF TargetStates
<1>5. \A x \in Runs : \A j \in JobsOf(x) : j \in Jobs /\ j[1] = x
  BY JobsAreTargets
<1>6. \A x \in F : rc[x] = NoRun /\ Absent(rc[x], t, x)
  BY <1>5 DEF Absent
<1>7. \A x \in Runs \ F : rc[x] = rec[x] /\ \A j \in JobsOf(x) : t[j] = target[j]
  BY <1>5
<1>8. \A j \in Jobs : j[1] \in F => ~Pending(target, j)
  <2>1. \A x \in F : \A j \in JobsOf(x) : ~Pending(target, j)
    BY <1>2, WhereRunsAre DEF Finished
  <2> QED
    BY <2>1, JobsAreTargets
<1>9. \A j \in Jobs : /\ t[j] = "queued" <=> target[j] = "queued"
                      /\ t[j] = "running" <=> target[j] = "running"
  BY <1>8 DEF Pending
<1> HIDE DEF rc, t
<1>10. /\ {j \in Jobs : t[j] = "queued"} = {j \in Jobs : target[j] = "queued"}
       /\ {j \in Jobs : t[j] = "running"} = {j \in Jobs : target[j] = "running"}
  BY <1>9
<1> QED
  BY <1>1, <1>3, <1>4, <1>6, <1>7, <1>10

\* Of too many runs, only finished ones go.
LEMMA Trimmed ==
  ASSUME NEW s \in Seq(Runs), IsInjective(s)
  PROVE  /\ Trim(s) \in Seq(Runs) /\ IsInjective(Trim(s))
         /\ ToSet(Trim(s)) \subseteq ToSet(s)
         /\ \A x \in ToSet(s) \ ToSet(Trim(s)) : Finished(x)
<1> DEFINE old  == {i \in DOMAIN s : Finished(s[i])}
           over == {i \in old : Cardinality({k \in old : k >= i}) <= Len(s) - MAX_RUNS}
           gone == {s[i] : i \in over}
<1>1. Trim(s) = filter(s, Runs \ gone)
  BY DEF Trim
<1>2. \A x \in gone : Finished(x)
  OBVIOUS
<1> HIDE DEF gone
<1>3. /\ Trim(s) \in Seq(Runs) /\ ToSet(Trim(s)) = ToSet(s) \intersect (Runs \ gone)
      /\ IsInjective(Trim(s))
  BY <1>1, Filtered
<1>4. ToSet(s) \subseteq Runs
  BY DEF ToSet
<1> QED
  BY <1>2, <1>3, <1>4

LEMMA StartKeeps ==
  ASSUME IInv, NEW r \in Runs, start(r)
  PROVE  /\ IInv'
         /\ \A x \in Runs : rec'[x].cancelled => rec[x].cancelled
         /\ \A x \in Runs : Finished(x) => rec'[x] = NoRun \/ Stands(x)
<1> DEFINE s    == <<r>> \o runs
           kept == Trim(s)
           F    == ToSet(runs) \ ToSet(kept)
           left == Without(F, rec, target)
           t    == [j \in Jobs |-> IF j[1] = r THEN "queued" ELSE left[2][j]]
           new  == [i \in Targets |-> <<r, i>>]
           q    == queue \o new
           rc   == [left[1] EXCEPT ![r] = [status |-> "running", cancelled |-> FALSE]]
<1>1. /\ BatchInv /\ Driven /\ IsTrue(runs, rec, target) /\ CancelledAreStopped
      /\ target \in [Jobs -> TargetStates] /\ rec \in [Runs -> Verdicts]
      /\ runs \in Seq(Runs) /\ IsInjective(runs) /\ ToSet(runs) \subseteq Runs
      /\ typed \in [Jobs -> 0..Len(Script)]
  BY Parts DEF IInv, IsTrue, ToSet
<1>2. /\ rec[r] = NoRun /\ runs' = kept /\ rec' = rc /\ pump(t, q, {})
      /\ typed' = [j \in Jobs |-> IF j[1] = r THEN 0 ELSE typed[j]] /\ save
  BY DEF start
<1>3. r \notin ToSet(runs) /\ ~Finished(r) /\ Absent(rec[r], target, r)
  <2>1. NoRun.status = "none"
    BY DEF NoRun
  <2>2. r \notin ToSet(runs) /\ ~Finished(r)
    BY <1>1, <1>2, <2>1, WhereRunsAre DEF Finished
  <2> QED
    BY <1>1, <2>2 DEF IsTrue
<1>4. /\ s \in Seq(Runs) /\ IsInjective(s) /\ ToSet(s) = {r} \union ToSet(runs)
  <2>1. <<r>> \in Seq(Runs) /\ IsInjective(<<r>>) /\ ToSet(<<r>>) = {r}
    BY DEF IsInjective, ToSet
  <2> DEFINE one == <<r>>
  <2>2. one \in Seq(Runs) /\ IsInjective(one) /\ ToSet(one) = {r} /\ s = one \o runs
    BY <2>1
  <2> HIDE DEF one, s
  <2>3. ToSet(one) \intersect ToSet(runs) = {}
    BY <1>3, <2>2
  <2> QED
    BY <1>1, <2>2, <2>3, Joined
<1> HIDE DEF s
<1>5. /\ kept \in Seq(Runs) /\ IsInjective(kept) /\ ToSet(kept) \subseteq {r} \union ToSet(runs)
      /\ r \in ToSet(kept)
      /\ \A x \in F : Finished(x)
  BY <1>3, <1>4, Trimmed
<1> HIDE DEF kept
<1>6. F \in SUBSET Runs /\ r \notin F /\ F \intersect ToSet(kept) = {}
  BY <1>1, <1>3
<1>7. \A x \in Runs : x \in ToSet(kept) => x = r \/ (x \in ToSet(runs) /\ x \notin F)
  BY <1>5
<1>8. \A x \in Runs : x \notin ToSet(kept) => x # r /\ (x \in F \/ x \notin ToSet(runs))
  BY <1>5
<1> HIDE DEF F
<1>9. /\ left[1] \in [Runs -> Verdicts] /\ left[2] \in [Jobs -> TargetStates]
      /\ \A x \in F : left[1][x] = NoRun /\ Absent(left[1][x], left[2], x)
      /\ \A x \in Runs \ F : left[1][x] = rec[x] /\ \A j \in JobsOf(x) : left[2][j] = target[j]
      /\ {j \in Jobs : left[2][j] = "queued"} = {j \in Jobs : target[j] = "queued"}
      /\ {j \in Jobs : left[2][j] = "running"} = {j \in Jobs : target[j] = "running"}
  BY <1>1, <1>5, <1>6, Forgotten
<1> HIDE DEF left
<1>10. /\ t \in [Jobs -> TargetStates]
       /\ \A j \in JobsOf(r) : t[j] = "queued"
       /\ \A x \in Runs \ {r} : \A j \in JobsOf(x) : t[j] = left[2][j]
  BY <1>9, JobsAreTargets DEF TargetStates
<1>11. /\ rc \in [Runs -> Verdicts]
       /\ rc[r] = [status |-> "running", cancelled |-> FALSE]
       /\ \A x \in Runs \ {r} : rc[x] = left[1][x]
  <2>1. [status |-> "running", cancelled |-> FALSE] \in Verdicts
    BY DEF Verdicts, RunStates
  <2> QED
    BY <1>9, <2>1
<1>12. \A j \in Jobs : t[j] = IF j[1] = r THEN "queued" ELSE left[2][j]
  OBVIOUS
<1> HIDE DEF t, rc
<1>13. \A j \in Jobs : j[1] = r => target[j] = "none" /\ j \notin Running /\ j \notin ToSet(queue)
  BY <1>1, <1>3, JobsAreTargets DEF Absent, Driven
<1>14. IsTrue(kept, rc, t)
  <2>1. ASSUME NEW x \in Runs, x \in ToSet(kept)
        PROVE  Present(rc[x], t, x)
    <3>1. CASE x = r
      <4>1. rc[x].status = "running" /\ ~rc[x].cancelled
        BY <1>11, <3>1
      <4>2. (\E j \in JobsOf(x) : Pending(t, j)) /\ \A j \in JobsOf(x) : t[j] = "queued"
        BY <1>10, <3>1, JobsAreTargets DEF Pending
      <4> QED
        BY <4>1, <4>2 DEF Present
    <3>2. CASE x # r
      <4>1. x \in ToSet(runs) /\ x \notin F
        BY <1>7, <2>1, <3>2
      <4>2. rc[x] = rec[x] /\ \A j \in JobsOf(x) : t[j] = target[j]
        BY <1>9, <1>10, <1>11, <3>2, <4>1
      <4>3. Present(rec[x], target, x)
        BY <1>1, <4>1 DEF IsTrue
      <4> QED
        BY <4>2, <4>3, StartingIsNoVerdict
    <3> QED
      BY <3>1, <3>2
  <2>2. ASSUME NEW x \in Runs, x \notin ToSet(kept)
        PROVE  Absent(rc[x], t, x)
    <3>1. x # r
      BY <1>8, <2>2
    <3>2. Absent(left[1][x], left[2], x)
      <4>1. CASE x \in F
        BY <1>9, <4>1
      <4>2. CASE x \notin F
        <5>1. Absent(rec[x], target, x)
          BY <1>1, <1>8, <2>2, <4>2 DEF IsTrue
        <5> QED
          BY <1>9, <4>2, <5>1, StartingIsNoVerdict
      <4> QED
        BY <4>1, <4>2
    <3> QED
      BY <1>10, <1>11, <3>1, <3>2, StartingIsNoVerdict
  <2>3. ToSet(kept) \subseteq Runs
    BY <1>1, <1>5
  <2> QED
    BY <1>5, <1>10, <1>11, <2>1, <2>2, <2>3 DEF IsTrue
<1>15. q \in Seq(Jobs) /\ IsInjective(q) /\ ToSet(q) = ToSet(queue) \union JobsOf(r)
  <2>1. new \in Seq(Jobs) /\ IsInjective(new) /\ ToSet(new) = JobsOf(r)
    <3>1. TargetCount \in Nat /\ Targets = 1..TargetCount
      BY BatchAssumption DEF Targets
    <3>2. \A i \in Targets : <<r, i>> \in Jobs
      BY DEF Jobs
    <3>3. new \in Seq(Jobs)
      BY <3>1, <3>2
    <3>4. DOMAIN new = Targets /\ \A i \in Targets : new[i] = <<r, i>>
      OBVIOUS
    <3> HIDE DEF new
    <3>5. IsInjective(new)
      BY <3>4 DEF IsInjective
    <3>6. ToSet(new) = JobsOf(r)
      BY <3>4 DEF ToSet, JobsOf
    <3> QED
      BY <3>3, <3>5, <3>6
  <2>2. queue \in Seq(Jobs) /\ IsInjective(queue)
    BY <1>1 DEF Driven
  <2>3. ToSet(queue) \intersect ToSet(new) = {}
    BY <1>13, <2>1, JobsAreTargets
  <2> HIDE DEF new
  <2> QED
    BY <2>1, <2>2, <2>3, Joined
<1> HIDE DEF q
<1>16. ToSet(q) = {j \in Jobs : t[j] = "queued"}
  <2>1. \A j \in Jobs : left[2][j] = "queued" <=> target[j] = "queued"
    BY <1>9
  <2>2. \A j \in Jobs : j \in ToSet(queue) <=> target[j] = "queued"
    BY <1>1 DEF Driven
  <2>3. \A j \in Jobs : j[1] = r <=> j \in JobsOf(r)
    BY JobsAreTargets
  <2>4. ToSet(queue) \subseteq Jobs /\ JobsOf(r) \subseteq Jobs
    BY <1>1, JobsAreTargets DEF Driven
  <2>5. \A j \in Jobs : t[j] = "queued" <=> j \in ToSet(queue) \/ j \in JobsOf(r)
    BY <1>12, <2>1, <2>2, <2>3
  <2> QED
    BY <1>15, <2>4, <2>5
<1>17. {j \in Jobs : t[j] = "running"} = Running \ {}
  <2>1. \A j \in Jobs : left[2][j] = "running" <=> target[j] = "running"
    BY <1>9
  <2>2. \A j \in Jobs : t[j] = "running" <=> target[j] = "running"
    BY <1>12, <1>13, <2>1
  <2> QED
    BY <1>1, <2>2 DEF Driven
<1>18. typed' \in [Jobs -> 0..Len(Script)] /\ \A j \in Jobs : typed'[j] = IF j[1] = r THEN 0 ELSE typed[j]
  BY <1>1, <1>2, BatchAssumption
<1>19. \A x \in Runs : rc[x].cancelled => rec[x].cancelled
  <2>1. NoRun.cancelled = FALSE
    BY DEF NoRun
  <2> QED
    BY <1>9, <1>11, <2>1
<1>20. \A j \in ToSet(q) : ~rec'[j[1]].cancelled /\ typed'[j] = 0
  <2> TAKE j \in ToSet(q)
  <2>1. j \in Jobs /\ j[1] \in Runs
    BY <1>16, JobsAreTargets
  <2>2. CASE j[1] = r
    BY <1>2, <1>11, <1>18, <2>1, <2>2
  <2>3. CASE j[1] # r
    <3>1. j \in ToSet(queue)
      BY <1>15, <2>3, JobsAreTargets
    <3> QED
      BY <1>1, <1>2, <1>18, <1>19, <2>1, <2>3, <3>1 DEF CancelledAreStopped
  <2> QED
    BY <2>2, <2>3
<1>21. \A j \in Running \ {} : typed'[j] <= at[j] /\ (rec'[j[1]].cancelled => at[j] = Opening)
  <2> TAKE j \in Running \ {}
  <2>1. j \in Jobs /\ j[1] \in Runs /\ j[1] # r
    BY <1>13, JobsAreTargets DEF Running
  <2> QED
    BY <1>1, <1>2, <1>18, <1>19, <2>1 DEF CancelledAreStopped
<1> DEFINE ended == {}
<1>22. /\ ended \in SUBSET Running /\ \A j \in ended : ~Pending(t, j)
       /\ {j \in Jobs : t[j] = "running"} = Running \ ended /\ pump(t, q, ended)
       /\ \A j \in Running \ ended :
            typed'[j] <= at[j] /\ (rec'[j[1]].cancelled => at[j] = Opening)
  BY <1>2, <1>17, <1>21
<1> HIDE DEF ended
<1>23. IInv' /\ \A j \in Jobs : target'[j] = t[j] \/ (t[j] = "queued" /\ target'[j] = "running")
  <2>1. IsTrue(runs', rec', t)
    BY <1>2, <1>14
  <2> QED
    BY <1>2, <1>10, <1>15, <1>16, <1>18, <1>20, <1>22, <2>1, PumpsKeep
<1>24. ASSUME NEW x \in Runs, Finished(x)
       PROVE  rec'[x] = NoRun \/ Stands(x)
  <2>1. x # r
    BY <1>3, <1>24
  <2>2. CASE x \in F
    BY <1>2, <1>9, <1>11, <2>1, <2>2
  <2>3. CASE x \notin F
    <3>1. rec'[x] = rec[x] /\ \A j \in JobsOf(x) : t[j] = target[j]
      BY <1>2, <1>9, <1>10, <1>11, <2>1, <2>3
    <3>2. \A j \in JobsOf(x) : target'[j] = target[j]
      BY <1>1, <1>10, <1>23, <1>24, <3>1, PumpsLeave
    <3> QED
      BY <3>1, <3>2 DEF Stands
  <2> QED
    BY <2>2, <2>3
<1> QED
  BY <1>2, <1>19, <1>23, <1>24

LEMMA CancelKeeps ==
  ASSUME IInv, NEW r \in Runs, cancel(r)
  PROVE  /\ IInv'
         /\ \A x \in Runs \ {r} : rec'[x].cancelled = rec[x].cancelled
         /\ \A j \in JobsOf(r) : at[j] \in Steps => at'[j] = NotRunning
         /\ typed' = typed
         /\ \A x \in Runs : Finished(x) => Stands(x)
<1> DEFINE t     == [j \in Jobs |-> IF j \in Dropped(r) \union Stopped(r) THEN "cancelled" ELSE target[j]]
           rc    == [rec EXCEPT ![r].cancelled = TRUE]
           q     == filter(queue, Jobs \ Dropped(r))
           ended == Stopped(r)
<1>1. /\ BatchInv /\ Driven /\ IsTrue(runs, rec, target) /\ CancelledAreStopped
      /\ target \in [Jobs -> TargetStates] /\ rec \in [Runs -> Verdicts]
      /\ typed \in [Jobs -> 0..Len(Script)]
  BY Parts DEF IInv, IsTrue
<1>2. /\ rec[r].status = "running" /\ rec' = finishIfDone({r}, t, rc) /\ pump(t, q, ended)
      /\ save /\ runs' = runs /\ typed' = typed
  BY DEF cancel, Cancellable
<1>3. /\ Dropped(r) = {j \in JobsOf(r) : target[j] = "queued"}
      /\ ended = {j \in JobsOf(r) : at[j] \in Steps}
      /\ ended = Stopped(r)
  BY DEF Dropped, Stopped
<1>4. JobsOf(r) \subseteq Jobs /\ \A j \in Jobs : j[1] = r <=> j \in JobsOf(r)
  BY JobsAreTargets
<1>5. \A i \in Steps : i # NotRunning /\ i # Opening
  BY BatchAssumption DEF Steps, NotRunning, Opening
<1>6. ended \in SUBSET Running /\ \A j \in Running : j \in JobsOf(r) => j \in ended \/ at[j] = Opening
  BY <1>1, <1>3, <1>4, <1>5 DEF Running, Driven, Places
<1>7. r \in ToSet(runs)
  BY <1>1, <1>2, WhereRunsAre
<1>8. /\ t \in [Jobs -> TargetStates]
      /\ \A j \in Jobs : t[j] = IF j \in Dropped(r) \union ended THEN "cancelled" ELSE target[j]
  BY <1>1, <1>3 DEF TargetStates
<1>9. /\ rc \in [Runs -> Verdicts] /\ rc[r].status = "running" /\ rc[r].cancelled = TRUE
      /\ \A x \in Runs \ {r} : rc[x] = rec[x]
  <2>1. rec[r] \in Verdicts
    BY <1>1
  <2>2. [rec[r] EXCEPT !.cancelled = TRUE] = [status |-> "running", cancelled |-> TRUE]
    <3>1. rec[r] = [status |-> "running", cancelled |-> rec[r].cancelled]
      BY <1>2, <2>1 DEF Verdicts
    <3>2. \A c, d \in BOOLEAN :
            [[status |-> "running", cancelled |-> c] EXCEPT !.cancelled = d]
              = [status |-> "running", cancelled |-> d]
      OBVIOUS
    <3>3. rec[r].cancelled \in BOOLEAN
      BY <2>1 DEF Verdicts
    <3> QED
      BY <3>1, <3>2, <3>3, Zenon
  <2>3. [status |-> "running", cancelled |-> TRUE] \in Verdicts
    BY DEF Verdicts, RunStates
  <2>4. rc[r] = [status |-> "running", cancelled |-> TRUE] /\ \A x \in Runs \ {r} : rc[x] = rec[x]
    BY <1>1, <2>2
  <2>5. rc \in [Runs -> Verdicts]
    BY <1>1, <2>2, <2>3
  <2> QED
    BY <2>4, <2>5
<1> HIDE DEF t, rc, ended
<1>10. /\ q \in Seq(Jobs) /\ IsInjective(q) /\ ToSet(q) = ToSet(queue) \intersect (Jobs \ Dropped(r))
  BY <1>1, Filtered DEF Driven
<1> HIDE DEF q
<1>11. ToSet(q) = {j \in Jobs : t[j] = "queued"} /\ \A j \in ToSet(q) : j[1] # r
  <2>1. \A j \in Jobs : j \in ToSet(queue) <=> target[j] = "queued"
    BY <1>1 DEF Driven
  <2>2. \A j \in ended : target[j] = "running"
    BY <1>1, <1>6 DEF Driven
  <2>3. \A j \in Jobs : t[j] = "queued" <=> target[j] = "queued" /\ j \notin Dropped(r)
    BY <1>8, <2>2
  <2>4. \A j \in Jobs : target[j] = "queued" /\ j[1] = r => j \in Dropped(r)
    BY <1>3, <1>4
  <2> QED
    BY <1>10, <2>1, <2>3, <2>4
<1>12. {j \in Jobs : t[j] = "running"} = Running \ ended
  <2>1. \A j \in Jobs : j \in Running <=> target[j] = "running"
    BY <1>1 DEF Driven
  <2>2. \A j \in Dropped(r) : target[j] = "queued"
    BY <1>3
  <2>3. \A j \in Jobs : t[j] = "running" <=> j \in Running /\ j \notin ended
    BY <1>8, <2>1, <2>2
  <2> QED
    BY <2>3 DEF Running
<1>13. \A j \in ended : ~Pending(t, j)
  BY <1>3, <1>4, <1>8 DEF Pending
<1>14. \A j \in Jobs \ JobsOf(r) : t[j] = target[j]
  BY <1>3, <1>8
<1>15. \A j \in JobsOf(r) : t[j] # "none" /\ (t[j] = "cancelled" => rc[r].cancelled)
  BY <1>1, <1>4, <1>7, <1>8, <1>9, TargetsOf
<1>16. /\ IsTrue(runs, rec', t)
       /\ \A x \in Runs \ {r} : rec'[x] = rec[x]
       /\ rec'[r].cancelled = rc[r].cancelled
  <2> DEFINE judged == finishIfDone({r}, t, rc)
  <2>1. /\ IsTrue(runs, judged, t)
        /\ \A x \in Runs \ {r} : judged[x] = rec[x]
        /\ judged[r].cancelled = rc[r].cancelled
    BY <1>1, <1>2, <1>8, <1>9, <1>14, <1>15, JudgedRecord
  <2> HIDE DEF judged
  <2> QED
    BY <1>2, <2>1 DEF judged
<1>17. \A j \in ToSet(q) : ~rec'[j[1]].cancelled /\ typed'[j] = 0
  <2> TAKE j \in ToSet(q)
  <2>1. j \in ToSet(queue) /\ j[1] \in Runs \ {r}
    BY <1>10, <1>11, JobsAreTargets
  <2> QED
    BY <1>1, <1>2, <1>16, <2>1 DEF CancelledAreStopped
<1>18. \A j \in Running \ ended : typed'[j] <= at[j] /\ (rec'[j[1]].cancelled => at[j] = Opening)
  <2> TAKE j \in Running \ ended
  <2>1. j \in Jobs /\ j[1] \in Runs
    BY JobsAreTargets DEF Running
  <2>2. CASE j \in JobsOf(r)
    BY <1>1, <1>2, <1>6, <2>2 DEF CancelledAreStopped
  <2>3. CASE j \notin JobsOf(r)
    <3>1. rec'[j[1]] = rec[j[1]]
      BY <1>4, <1>16, <2>1, <2>3
    <3> QED
      BY <1>1, <1>2, <3>1 DEF CancelledAreStopped
  <2> QED
    BY <2>2, <2>3
<1>19. IInv'
  <2>1. IsTrue(runs', rec', t) /\ typed' \in [Jobs -> 0..Len(Script)]
    BY <1>1, <1>2, <1>16
  <2> QED
    BY <1>2, <1>6, <1>8, <1>10, <1>11, <1>12, <1>13, <1>17, <1>18, <2>1, PumpsKeep
<1>20. /\ \A j \in Jobs : target'[j] = t[j] \/ (t[j] = "queued" /\ target'[j] = "running")
       /\ \A j \in ended : at'[j] = NotRunning
  BY <1>1, <1>2, <1>6, <1>8, <1>10, <1>11, <1>12, <1>13, Pumped
<1>21. \A j \in JobsOf(r) : at[j] \in Steps => at'[j] = NotRunning
  BY <1>3, <1>20
<1>22. ASSUME NEW x \in Runs, Finished(x)
       PROVE  Stands(x)
  <2>1. x # r
    BY <1>2, <1>22 DEF Finished
  <2>2. \A j \in JobsOf(x) : t[j] = target[j]
    BY <1>4, <1>14, <2>1, JobsAreTargets
  <2>3. \A j \in JobsOf(x) : target'[j] = target[j]
    BY <1>1, <1>8, <1>20, <1>22, <2>2, PumpsLeave
  <2> QED
    BY <1>16, <2>1, <2>3 DEF Stands
<1> QED
  BY <1>2, <1>16, <1>19, <1>21, <1>22

\* The file and what is being written, when a step leaves them alone.
LEMMA DiskStays ==
  ASSUME BatchInv, file' = file, writing' = writing
  PROVE  /\ IsTrueRecord(file)'
         /\ (writing = <<>> \/ (writing = <<writing[1]>> /\ IsTrueRecord(writing[1])))'
<1>1. /\ IsTrueRecord(file)
      /\ writing = <<>> \/ (writing = <<writing[1]>> /\ IsTrueRecord(writing[1]))
  BY Parts
<1>2. IsTrueRecord(writing[1]) => IsTrueRecord(writing[1])'
  OBVIOUS
<1>3. IsTrueRecord(file)'
  BY <1>1
<1> QED
  BY <1>1, <1>2, <1>3

LEMMA RemoveKeeps ==
  ASSUME IInv, NEW r \in Runs, remove(r)
  PROVE  /\ IInv'
         /\ \A x \in Runs : rec'[x].cancelled => rec[x].cancelled
         /\ \A x \in Runs : Finished(x) => rec'[x] = NoRun \/ Stands(x)
<1> DEFINE left == Without({r}, rec, target)
<1>1. /\ BatchInv /\ Driven /\ IsTrue(runs, rec, target) /\ CancelledAreStopped
      /\ runs \in Seq(Runs) /\ IsInjective(runs) /\ ToSet(runs) \subseteq Runs
      /\ typed \in [Jobs -> 0..Len(Script)] /\ saveDue \in BOOLEAN /\ mixed \in BOOLEAN
  BY Parts DEF IInv, IsTrue, ToSet
<1>2. /\ Finished(r) /\ runs' = filter(runs, Runs \ {r}) /\ rec' = left[1] /\ target' = left[2]
      /\ save /\ queue' = queue /\ active' = active /\ at' = at /\ typed' = typed
  BY DEF remove
<1>3. /\ left[1] \in [Runs -> Verdicts] /\ left[2] \in [Jobs -> TargetStates]
      /\ \A x \in {r} : left[1][x] = NoRun /\ Absent(left[1][x], left[2], x)
      /\ \A x \in Runs \ {r} : left[1][x] = rec[x] /\ \A j \in JobsOf(x) : left[2][j] = target[j]
      /\ {j \in Jobs : left[2][j] = "queued"} = {j \in Jobs : target[j] = "queued"}
      /\ {j \in Jobs : left[2][j] = "running"} = {j \in Jobs : target[j] = "running"}
  <2> DEFINE F == {r}
  <2>1. F \in SUBSET Runs /\ (\A x \in F : Finished(x)) /\ left = Without(F, rec, target)
    BY <1>2
  <2> HIDE DEF F, left
  <2>2. /\ left[1] \in [Runs -> Verdicts] /\ left[2] \in [Jobs -> TargetStates]
        /\ \A x \in F : left[1][x] = NoRun /\ Absent(left[1][x], left[2], x)
        /\ \A x \in Runs \ F : left[1][x] = rec[x] /\ \A j \in JobsOf(x) : left[2][j] = target[j]
        /\ {j \in Jobs : left[2][j] = "queued"} = {j \in Jobs : target[j] = "queued"}
        /\ {j \in Jobs : left[2][j] = "running"} = {j \in Jobs : target[j] = "running"}
    BY <1>1, <2>1, Forgotten
  <2> QED
    BY <2>2 DEF F
<1> HIDE DEF left
<1>4. runs' \in Seq(Runs) /\ IsInjective(runs') /\ ToSet(runs') = ToSet(runs) \ {r}
  <2>1. /\ runs' \in Seq(Runs) /\ IsInjective(runs')
        /\ ToSet(runs') = ToSet(runs) \intersect (Runs \ {r})
    BY <1>1, <1>2, Filtered
  <2> QED
    BY <1>1, <2>1
<1>5. IsTrue(runs', rec', target')
  <2>1. ASSUME NEW x \in Runs, x # r
        PROVE  /\ Absent(rec[x], target, x) => Absent(rec'[x], target', x)
               /\ Present(rec[x], target, x) => Present(rec'[x], target', x)
    <3>1. rec'[x] = rec[x] /\ \A j \in JobsOf(x) : target'[j] = target[j]
      BY <1>2, <1>3, <2>1
    <3> QED
      BY <3>1, StartingIsNoVerdict
  <2>2. Absent(rec'[r], target', r)
    BY <1>2, <1>3
  <2> QED
    BY <1>1, <1>2, <1>3, <1>4, <2>1, <2>2 DEF IsTrue
<1>6. Running' = Running
  BY <1>2 DEF Running
<1>7. Driven'
  BY <1>1, <1>2, <1>3, <1>6 DEF Driven
<1>8. \A x \in Runs : rec'[x].cancelled => rec[x].cancelled
  <2>1. NoRun.cancelled = FALSE
    BY DEF NoRun
  <2> QED
    BY <1>2, <1>3, <2>1
<1>9. CancelledAreStopped'
  <2>1. \A j \in ToSet(queue') : ~rec'[j[1]].cancelled /\ typed'[j] = 0
    <3>1. \A j \in ToSet(queue) : j[1] \in Runs
      BY <1>1, JobsAreTargets DEF Driven
    <3> QED
      BY <1>1, <1>2, <1>8, <3>1 DEF CancelledAreStopped
  <2>2. \A j \in Running' : typed'[j] <= at'[j] /\ (rec'[j[1]].cancelled => at'[j] = Opening)
    <3>1. \A j \in Running : j[1] \in Runs
      BY JobsAreTargets DEF Running
    <3> QED
      BY <1>1, <1>2, <1>6, <1>8, <3>1 DEF CancelledAreStopped
  <2> QED
    BY <2>1, <2>2, Zenon DEF CancelledAreStopped
<1>10. saveDue' \in BOOLEAN /\ mixed' = mixed /\ file' = file /\ writing' = writing
  BY <1>2, BatchAssumption DEF save
<1>11. IInv'
  <2>1. BatchInv'
    BY <1>1, <1>2, <1>5, <1>7, <1>9, <1>10, DiskStays, Parts
  <2>2. NoSlotIsWasted'
    BY <1>2 DEF IInv, NoSlotIsWasted
  <2> QED
    BY <2>1, <2>2 DEF IInv
<1> QED
  BY <1>2, <1>3, <1>8, <1>11 DEF Stands

-----------------------------------------------------------------------------
(* The file, and the process coming back.                                  *)

LEMMA MemoryStays ==
  ASSUME IInv, UNCHANGED memory, saveDue' \in BOOLEAN, mixed' \in BOOLEAN,
         IsTrueRecord(file)',
         (writing = <<>> \/ (writing = <<writing[1]>> /\ IsTrueRecord(writing[1])))'
  PROVE  IInv'
<1>1. /\ Driven /\ IsTrue(runs, rec, target) /\ CancelledAreStopped
      /\ typed \in [Jobs -> 0..Len(Script)]
  BY Parts DEF IInv
<1>2. /\ runs' = runs /\ rec' = rec /\ target' = target /\ queue' = queue
      /\ active' = active /\ at' = at /\ typed' = typed
  BY DEF memory
<1>3. Running' = Running
  BY <1>2 DEF Running
<1>4. Driven'
  BY <1>1, <1>2, <1>3 DEF Driven
<1>5. CancelledAreStopped'
  BY <1>1, <1>2, <1>3 DEF CancelledAreStopped
<1>6. IsTrue(runs', rec', target') /\ typed' \in [Jobs -> 0..Len(Script)]
  BY <1>1, <1>2
<1>7. BatchInv'
  BY <1>4, <1>5, <1>6, Parts
<1>8. NoSlotIsWasted'
  BY <1>2 DEF IInv, NoSlotIsWasted
<1> QED
  BY <1>7, <1>8 DEF IInv

LEMMA NoFileIsTrue ==
  /\ IsTrueRecord(EmptyFile)
  /\ IsTrue(<<>>, EmptyFile.rec, EmptyFile.target)
<1>1. EmptyFile.runs = <<>> /\ EmptyFile.rec = [r \in Runs |-> NoRun]
      /\ EmptyFile.target = [j \in Jobs |-> "none"]
  BY DEF EmptyFile
<1>2. <<>> \in Seq(Runs) /\ IsInjective(<<>>) /\ ToSet(<<>>) = {}
  BY DEF IsInjective, ToSet
<1>3. NoRun \in [status : RunStates, cancelled : BOOLEAN]
  BY DEF NoRun, RunStates
<1>4. \A r \in Runs : \A j \in JobsOf(r) : j \in Jobs
  BY JobsAreTargets
<1>5. "none" \in TargetStates
  BY DEF TargetStates
<1> DEFINE e == EmptyFile
<1>6. e.runs = <<>> /\ e.rec = [r \in Runs |-> NoRun] /\ e.target = [j \in Jobs |-> "none"]
  BY <1>1
<1> HIDE DEF e
<1>7. IsTrueRecord(e)
  BY <1>2, <1>3, <1>4, <1>5, <1>6 DEF IsTrueRecord
<1>8. IsTrue(<<>>, e.rec, e.target)
  BY <1>2, <1>3, <1>4, <1>5, <1>6 DEF IsTrue, Absent, Verdicts
<1> QED
  BY <1>7, <1>8 DEF e

LEMMA FlushKeeps ==
  ASSUME IInv, Flush
  PROVE  IInv'
<1>1. IsTrueRecord(Snapshot)
  BY Parts, TrueMemory DEF IInv
<1>2. /\ saveDue' = FALSE /\ writing' = <<Snapshot>> /\ mixed' = (writing # <<>>)
      /\ file' = EmptyFile /\ UNCHANGED memory
  BY DEF Flush
<1>3. IsTrueRecord(file)'
  <2>1. IsTrueRecord(EmptyFile)
    BY NoFileIsTrue
  <2> HIDE DEF EmptyFile
  <2> QED
    BY <1>2, <2>1
<1>4. (writing = <<>> \/ (writing = <<writing[1]>> /\ IsTrueRecord(writing[1])))'
  <2> DEFINE s == Snapshot
  <2>1. writing' = <<s>> /\ IsTrueRecord(s)
    BY <1>1, <1>2
  <2> HIDE DEF s
  <2>2. writing'[1] = s /\ writing' = <<writing'[1]>>
    BY <2>1
  <2>3. IsTrueRecord(writing[1])'
    BY <2>1, <2>2
  <2> QED
    BY <2>2, <2>3
<1> QED
  BY <1>2, <1>3, <1>4, MemoryStays

LEMMA WriteDoneKeeps ==
  ASSUME IInv, WriteDone
  PROVE  IInv'
<1>1. /\ writing # <<>> /\ file' \in {writing[1], EmptyFile}
      /\ writing' = <<>> /\ mixed' = FALSE /\ UNCHANGED memory /\ saveDue' = saveDue
  BY DEF WriteDone
<1>2. IsTrueRecord(writing[1]) /\ saveDue \in BOOLEAN
  BY <1>1, Parts DEF IInv
<1>3. IsTrueRecord(file)'
  <2>1. IsTrueRecord(EmptyFile)
    BY NoFileIsTrue
  <2>2. file' = writing[1] => IsTrueRecord(file)'
    BY <1>2
  <2> HIDE DEF EmptyFile
  <2>3. file' = EmptyFile => IsTrueRecord(file)'
    BY <2>1
  <2> QED
    BY <1>1, <2>2, <2>3
<1> QED
  BY <1>1, <1>2, <1>3, MemoryStays

\* What was in flight is interrupted, and so the record is true again.
LEMMA LoadedIsTrue ==
  ASSUME IsTrue(file.runs, file.rec, file.target), load
  PROVE  /\ IsTrue(runs', rec', target')
         /\ \A j \in Jobs : target'[j] \notin {"queued", "running"}
<1> DEFINE rc == file.rec
           t  == file.target
<1>1. /\ runs' = file.runs
      /\ rec' = [r \in Runs |-> IF rc[r].status = "running"
                                THEN [rc[r] EXCEPT !.status = "interrupted"] ELSE rc[r]]
      /\ target' = [j \in Jobs |-> IF rc[j[1]].status = "running" /\ Pending(t, j)
                                   THEN "failed" ELSE t[j]]
  BY DEF load
<1>2. IsTrue(file.runs, rc, t)
  OBVIOUS
<1> HIDE DEF rc, t
<1>3. rc \in [Runs -> Verdicts] /\ t \in [Jobs -> TargetStates] /\ ToSet(file.runs) \subseteq Runs
  BY <1>2 DEF IsTrue, ToSet
<1>4. \A v \in Verdicts : [v EXCEPT !.status = "interrupted"]
                            = [status |-> "interrupted", cancelled |-> v.cancelled]
  BY DEF Verdicts
<1>5. \A v \in Verdicts : [status |-> "interrupted", cancelled |-> v.cancelled] \in Verdicts
  BY DEF Verdicts, RunStates
<1>6. \A r \in Runs : rec'[r] = IF rc[r].status = "running"
                                THEN [status |-> "interrupted", cancelled |-> rc[r].cancelled]
                                ELSE rc[r]
  BY <1>1, <1>3, <1>4
<1>7. rec' \in [Runs -> Verdicts]
  <2>1. \A r \in Runs : rec'[r] \in Verdicts
    BY <1>3, <1>5, <1>6
  <2>2. rec' = [r \in Runs |-> rec'[r]]
    BY <1>1
  <2> QED
    BY <2>1, <2>2
<1>8. target' \in [Jobs -> TargetStates]
  BY <1>1, <1>3 DEF TargetStates
<1>9. \A r \in Runs : (\E j \in JobsOf(r) : Pending(t, j)) <=> rc[r].status = "running"
  BY <1>2, WhereRunsAre
<1>10. \A r \in Runs : \A j \in JobsOf(r) :
         /\ target'[j] = IF Pending(t, j) THEN "failed" ELSE t[j]
         /\ ~Pending(target', j)
  <2> TAKE r \in Runs
  <2> TAKE j \in JobsOf(r)
  <2>1. j \in Jobs /\ j[1] = r
    BY JobsAreTargets
  <2>2. target'[j] = IF Pending(t, j) THEN "failed" ELSE t[j]
    BY <1>1, <1>9, <2>1
  <2> QED
    BY <2>2 DEF Pending
<1>11. ASSUME NEW r \in Runs, Absent(rc[r], t, r)
       PROVE  Absent(rec'[r], target', r)
  <2>1. NoRun.status = "none"
    BY DEF NoRun
  <2>2. rec'[r] = NoRun
    BY <1>6, <1>11, <2>1 DEF Absent
  <2>3. \A j \in JobsOf(r) : target'[j] = "none"
    BY <1>10, <1>11 DEF Absent, Pending
  <2> QED
    BY <2>2, <2>3 DEF Absent
<1>12. ASSUME NEW r \in Runs, Present(rc[r], t, r)
       PROVE  Present(rec'[r], target', r)
  <2>1. CASE rc[r].status = "running"
    <3>1. rec'[r].status = "interrupted" /\ rec'[r].cancelled = rc[r].cancelled
      <4>1. rec'[r] = [status |-> "interrupted", cancelled |-> rc[r].cancelled]
        BY <1>6, <2>1
      <4> QED
        BY <4>1
    <3>2. \A j \in JobsOf(r) : target'[j] # "none" /\ (target'[j] = "cancelled" => rc[r].cancelled)
      BY <1>10, <1>12 DEF Present
    <3> QED
      BY <1>10, <3>1, <3>2 DEF Present
  <2>2. CASE rc[r].status # "running"
    <3>1. rec'[r] = rc[r]
      BY <1>6, <2>2
    <3>2. \A j \in JobsOf(r) : target'[j] = t[j]
      BY <1>9, <1>10, <2>2
    <3>3. Present(rc[r], target', r)
      BY <1>12, <3>2, StartingIsNoVerdict
    <3> QED
      BY <3>1, <3>3
  <2> QED
    BY <2>1, <2>2
<1>13. IsTrue(runs', rec', target')
  BY <1>1, <1>2, <1>3, <1>7, <1>8, <1>11, <1>12 DEF IsTrue
<1>14. \A j \in Jobs : target'[j] \notin {"queued", "running"}
  BY <1>10, JobsAreTargets DEF Pending
<1> QED
  BY <1>13, <1>14

LEMMA RestartKeeps ==
  ASSUME IInv, Restart
  PROVE  IInv'
<1>1. IsTrueRecord(file) /\ IsTrue(file.runs, file.rec, file.target)
  BY Parts, TrueMemory DEF IInv
<1>2. /\ load /\ queue' = <<>> /\ active' = 0
      /\ at' = [j \in Jobs |-> NotRunning] /\ typed' = [j \in Jobs |-> 0]
      /\ saveDue' = FALSE /\ writing' = <<>> /\ mixed' = FALSE /\ file' = file
  BY DEF Restart
<1>3. IsTrue(runs', rec', target') /\ \A j \in Jobs : target'[j] \notin {"queued", "running"}
  BY <1>1, <1>2, LoadedIsTrue
<1>4. Running' = {}
  BY <1>2 DEF Running
<1>5. queue' \in Seq(Jobs) /\ IsInjective(queue') /\ ToSet(queue') = {}
  BY <1>2 DEF IsInjective, ToSet
<1>6. Driven'
  <2>1. at' \in [Jobs -> Places] /\ active' \in 0..CONCURRENCY
    BY <1>2, BatchAssumption DEF Places
  <2>2. active' = Cardinality(Running')
    BY <1>2, <1>4, FS_EmptySet
  <2> QED
    BY <1>3, <1>4, <1>5, <2>1, <2>2 DEF Driven
<1>7. CancelledAreStopped'
  BY <1>4, <1>5 DEF CancelledAreStopped
<1>8. typed' \in [Jobs -> 0..Len(Script)]
  BY <1>2, BatchAssumption
<1>9. IsTrueRecord(file)'
  BY <1>1, <1>2
<1>10. BatchInv'
  BY <1>2, <1>3, <1>6, <1>7, <1>8, <1>9, Parts
<1>11. NoSlotIsWasted'
  BY <1>2 DEF NoSlotIsWasted
<1> QED
  BY <1>10, <1>11 DEF IInv

LEMMA InitInv == BatchInit => IInv
<1> SUFFICES ASSUME BatchInit
             PROVE  IInv
  OBVIOUS
<1>1. /\ runs = <<>> /\ rec = EmptyFile.rec /\ target = EmptyFile.target
      /\ queue = <<>> /\ active = 0
      /\ at = [j \in Jobs |-> NotRunning] /\ typed = [j \in Jobs |-> 0]
      /\ saveDue = FALSE /\ writing = <<>> /\ mixed = FALSE /\ file = EmptyFile
  BY DEF BatchInit
<1>2. IsTrueRecord(file) /\ IsTrueRecord(Snapshot)
  BY <1>1, NoFileIsTrue, TrueMemory
<1>3. \A j \in Jobs : target[j] = "none"
  BY <1>1 DEF EmptyFile
<1>4. Running = {}
  BY <1>1 DEF Running
<1>5. queue \in Seq(Jobs) /\ IsInjective(queue) /\ ToSet(queue) = {}
  BY <1>1 DEF IsInjective, ToSet
<1>6. EveryTargetIsDriven
  BY <1>1, <1>3, <1>4, <1>5, FS_EmptySet DEF EveryTargetIsDriven
<1>7. BatchTypeOK
  <2>1. Len(Script) \in Nat /\ 0 \in 0..CONCURRENCY
    BY BatchAssumption
  <2>2. at \in [Jobs -> {NotRunning, Opening} \union Steps]
    BY <1>1
  <2>3. typed \in [Jobs -> 0..Len(Script)]
    BY <1>1, <2>1
  <2>4. saveDue \in BOOLEAN /\ mixed \in BOOLEAN
    BY <1>1
  <2>5. queue \in Seq(Jobs) /\ active \in 0..CONCURRENCY
    BY <1>1, <1>5, <2>1
  <2> QED
    BY <2>2, <2>3, <2>4, <2>5, Zenon DEF BatchTypeOK
<1>8. VerdictIsTrue /\ CancelledAreStopped /\ NoSlotIsWasted
  <2>1. VerdictIsTrue
    BY <1>1, <1>2 DEF VerdictIsTrue
  <2>2. CancelledAreStopped
    BY <1>4, <1>5 DEF CancelledAreStopped
  <2>3. NoSlotIsWasted
    BY <1>1 DEF NoSlotIsWasted
  <2> QED
    BY <2>1, <2>2, <2>3
<1> QED
  BY <1>6, <1>7, <1>8 DEF IInv, BatchInv

-----------------------------------------------------------------------------
(* The theorems.                                                           *)

\* What the steps of the runs and of the jobs have in common.
LEMMA RunnerStep ==
  ASSUME IInv, BatchNext, ~Flush, ~WriteDone, ~Restart
  PROVE  /\ IInv'
         /\ \A x \in Runs : Finished(x) => rec'[x] = NoRun \/ Stands(x)
         /\ \A j \in Jobs : at[j] \in Steps /\ rec'[j[1]].cancelled
                              => typed'[j] <= typed[j] /\ at'[j] = NotRunning
<1>1. /\ CancelledAreStopped /\ typed \in [Jobs -> 0..Len(Script)]
  BY Parts DEF IInv
<1>2. Len(Script) \in Nat /\ \A i \in Steps : i # NotRunning /\ i # Opening
  BY BatchAssumption DEF Steps, NotRunning, Opening
<1>3. \A j \in Jobs : j[1] \in Runs /\ j \in JobsOf(j[1])
  BY JobsAreTargets
<1>4. \A j \in Jobs : at[j] \in Steps => ~rec[j[1]].cancelled
  BY <1>1, <1>2 DEF CancelledAreStopped, Running
<1>5. ASSUME \A x \in Runs : rec'[x].cancelled => rec[x].cancelled
      PROVE  \A j \in Jobs : at[j] \in Steps /\ rec'[j[1]].cancelled
                               => typed'[j] <= typed[j] /\ at'[j] = NotRunning
  BY <1>3, <1>4, <1>5
<1>6. ASSUME NEW r \in Runs, start(r) \/ remove(r)
      PROVE  /\ IInv'
             /\ \A x \in Runs : rec'[x].cancelled => rec[x].cancelled
             /\ \A x \in Runs : Finished(x) => rec'[x] = NoRun \/ Stands(x)
  BY <1>6, StartKeeps, RemoveKeeps
<1>7. ASSUME NEW r \in Runs, cancel(r)
      PROVE  /\ IInv'
             /\ \A x \in Runs : Finished(x) => Stands(x)
             /\ \A j \in Jobs : at[j] \in Steps /\ rec'[j[1]].cancelled
                                  => typed'[j] <= typed[j] /\ at'[j] = NotRunning
  <2>1. /\ IInv' /\ typed' = typed
        /\ \A x \in Runs \ {r} : rec'[x].cancelled = rec[x].cancelled
        /\ \A j \in JobsOf(r) : at[j] \in Steps => at'[j] = NotRunning
        /\ \A x \in Runs : Finished(x) => Stands(x)
    BY <1>7, CancelKeeps
  <2>2. ASSUME NEW j \in Jobs, at[j] \in Steps, rec'[j[1]].cancelled
        PROVE  typed'[j] <= typed[j] /\ at'[j] = NotRunning
    <3>1. j[1] = r
      BY <1>3, <1>4, <2>1, <2>2
    <3>2. at'[j] = NotRunning
      BY <1>3, <2>1, <2>2, <3>1
    <3>3. typed[j] \in 0..Len(Script)
      BY <1>1
    <3> QED
      BY <1>2, <2>1, <3>2, <3>3
  <2> QED
    BY <2>1, <2>2
<1>8. ASSUME NEW j \in Jobs,
             \/ PortOpened(j) \/ OpenFailed(j)
             \/ StepDone(j) \/ StepFailed(j) \/ ConnectionClosed(j)
      PROVE  /\ IInv'
             /\ \A x \in Runs : rec'[x].cancelled = rec[x].cancelled
             /\ \A x \in Runs : Finished(x) => Stands(x)
  BY <1>8, JobsKeep
<1>9. CASE \E r \in Runs : start(r) \/ remove(r)
  BY <1>5, <1>6, <1>9
<1>10. CASE \E r \in Runs : cancel(r)
  BY <1>7, <1>10
<1>11. CASE \E j \in Jobs : \/ PortOpened(j) \/ OpenFailed(j)
                            \/ StepDone(j) \/ StepFailed(j) \/ ConnectionClosed(j)
  BY <1>5, <1>8, <1>11
<1> QED
  BY <1>9, <1>10, <1>11, Zenon DEF BatchNext

LEMMA StepInv == IInv /\ [BatchNext]_batchVars => IInv'
<1> SUFFICES ASSUME IInv, [BatchNext]_batchVars
             PROVE  IInv'
  OBVIOUS
<1>1. CASE Flush
  BY <1>1, FlushKeeps
<1>2. CASE WriteDone
  BY <1>2, WriteDoneKeeps
<1>3. CASE Restart
  BY <1>3, RestartKeeps
<1>4. CASE BatchNext /\ ~Flush /\ ~WriteDone /\ ~Restart
  BY <1>4, RunnerStep
<1>5. CASE UNCHANGED batchVars
  <2>1. UNCHANGED memory /\ saveDue' = saveDue /\ writing' = writing /\ mixed' = mixed /\ file' = file
    BY <1>5 DEF batchVars, disk
  <2>2. BatchInv /\ saveDue \in BOOLEAN /\ mixed \in BOOLEAN
    BY Parts DEF IInv
  <2> QED
    BY <2>1, <2>2, DiskStays, MemoryStays
<1> QED
  BY <1>1, <1>2, <1>3, <1>4, <1>5

(* The record of runs, in memory, in the file and in what is being written *)
(* to it, says what the targets came to, whatever the order of starts,      *)
(* ends, cancels and restarts; every target that is not over is in the     *)
(* queue or at work; and cancel() leaves nothing of its run behind but     *)
(* ports that are being opened.                                            *)
THEOREM RunsStayInOrder == BatchSpec => []BatchInv
<1>1. IInv => BatchInv
  BY DEF IInv
<1> QED
  BY <1>1, InitInv, StepInv, PTL DEF BatchSpec

(* While jobs wait, every slot of pump() is taken: no way for a job to end *)
(* gives back less than it took.                                           *)
THEOREM SlotsAreUsed == BatchSpec => []NoSlotIsWasted
<1>1. IInv => NoSlotIsWasted
  BY DEF IInv
<1> QED
  BY <1>1, InitInv, StepInv, PTL DEF BatchSpec

(* While the process lives, what a run and its targets came to is not      *)
(* changed by what happens later, to it or to other runs.                  *)
THEOREM WhatCameStands == BatchSpec => VerdictsAreFinal
<1>1. ASSUME IInv, [BatchNext]_batchVars
      PROVE  [~Restart => \A r \in Runs : Finished(r) =>
                \/ rec'[r] = NoRun
                \/ rec'[r] = rec[r] /\ \A j \in JobsOf(r) : target'[j] = target[j]]_batchVars
  <2>1. CASE UNCHANGED memory
    BY <2>1 DEF memory
  <2>2. CASE BatchNext /\ ~Flush /\ ~WriteDone /\ ~Restart
    BY <1>1, <2>2, RunnerStep DEF Stands
  <2>3. Flush \/ WriteDone \/ UNCHANGED batchVars => UNCHANGED memory
    BY DEF Flush, WriteDone, batchVars
  <2> QED
    BY <1>1, <2>1, <2>2, <2>3
<1> QED
  BY <1>1, InitInv, StepInv, PTL DEF BatchSpec, VerdictsAreFinal

(* A device in the middle of its script when its run is cancelled is       *)
(* stopped there, and nothing more is typed into it.                       *)
THEOREM ScriptsStop == BatchSpec => CancelStopsScripts
<1>1. ASSUME IInv, [BatchNext]_batchVars
      PROVE  [\A j \in Jobs : at[j] \in Steps /\ rec'[j[1]].cancelled
                => typed'[j] <= typed[j] /\ at'[j] = NotRunning]_batchVars
  <2>1. CASE UNCHANGED memory
    <3>1. /\ CancelledAreStopped /\ rec' = rec
      BY <1>1, <2>1, Parts DEF IInv, memory
    <3>2. \A i \in Steps : i # NotRunning /\ i # Opening
      BY BatchAssumption DEF Steps, NotRunning, Opening
    <3> QED
      BY <3>1, <3>2 DEF CancelledAreStopped, Running
  <2>2. CASE BatchNext /\ ~Flush /\ ~WriteDone /\ ~Restart
    BY <1>1, <2>2, RunnerStep
  <2>3. CASE Restart
    <3>1. Len(Script) \in Nat /\ typed \in [Jobs -> 0..Len(Script)]
      BY <1>1, BatchAssumption, Parts DEF IInv
    <3>2. at' = [j \in Jobs |-> NotRunning] /\ typed' = [j \in Jobs |-> 0]
      BY <2>3 DEF Restart
    <3> QED
      BY <3>1, <3>2
  <2>4. Flush \/ WriteDone \/ UNCHANGED batchVars => UNCHANGED memory
    BY DEF Flush, WriteDone, batchVars
  <2> QED
    BY <1>1, <2>1, <2>2, <2>3, <2>4
<1> QED
  BY <1>1, InitInv, StepInv, PTL DEF BatchSpec, CancelStopsScripts
=============================================================================
