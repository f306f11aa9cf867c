----------------------------- MODULE LoginThrottle -----------------------------
(***************************************************************************)
(* lib/loginThrottle.js: failed attempts per address and name.  A record   *)
(* keeps how many failures there were, how long ago the last one was, and  *)
(* how long the lockout still lasts; time is counted in ticks.  Operators  *)
(* take the table and return the new one, since several modules call them. *)
(***************************************************************************)
EXTENDS Integers

CONSTANTS MAX_ATTEMPTS, LOCKOUT, WINDOW

ASSUME ThrottleAssumption ==
  MAX_ATTEMPTS \in Nat \ {0} /\ LOCKOUT \in Nat \ {0} /\ WINDOW \in Nat /\ LOCKOUT <= WINDOW

NoRecord == [count |-> 0, age |-> 0, lock |-> 0]

isLocked(attempts, k) == attempts[k].lock > 0

\* A slip: locked after the attempt too many.
recordFailureLate(attempts, k) ==
  LET kept  == IF attempts[k].age > WINDOW THEN 0 ELSE attempts[k].count
      count == IF kept > MAX_ATTEMPTS THEN kept ELSE kept + 1
  IN  [attempts EXCEPT ![k] = [count |-> count, age |-> 0,
                               lock |-> IF count > MAX_ATTEMPTS THEN LOCKOUT ELSE 0]]

\* A failure counts on from the ones before it unless the last is older than the
\* window; the count is not reset by the lockout it raises, so that one more failure
\* after it locks again (the count is capped here, where it no longer matters).
recordFailure(attempts, k) ==
  LET kept  == IF attempts[k].age > WINDOW THEN 0 ELSE attempts[k].count
      count == IF kept > MAX_ATTEMPTS THEN kept ELSE kept + 1
  IN  [attempts EXCEPT ![k] = [count |-> count, age |-> 0,
                               lock |-> IF count >= MAX_ATTEMPTS THEN LOCKOUT ELSE 0]]

recordSuccess(attempts, k) == [attempts EXCEPT ![k] = NoRecord]

\* A record whose last failure is older than the window is as good as none.
Elapsed(attempts) ==
  [k \in DOMAIN attempts |->
     IF attempts[k].count = 0 \/ attempts[k].age = WINDOW + 1 THEN attempts[k]
     ELSE [attempts[k] EXCEPT !.age = @ + 1, !.lock = IF @ = 0 THEN 0 ELSE @ - 1]]
=============================================================================
