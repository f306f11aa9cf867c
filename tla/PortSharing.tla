----------------------------- MODULE PortSharing -----------------------------
(***************************************************************************)
(* What lib/serialManager.js promises its callers, without entries in      *)
(* flight, promises or reference counts: every port has a queue of the     *)
(* sessions attached to it, longest-connected first.  Newcomers go to the  *)
(* back; an exclusive session gets a port only when it has no holder; any  *)
(* set of sessions may leave at any time, and the rest keep their order.   *)
(***************************************************************************)
EXTENDS Naturals, Sequences, SequencesExt

CONSTANTS Ports, Sessions

VARIABLES
  queue,   \* queue[p]: the sessions attached to p, oldest first
  mode     \* mode[s]: the access mode s attached with

vars == <<queue, mode>>

Outside == "not-open"

Init ==
  /\ queue = [p \in Ports |-> <<>>]
  /\ mode  = [s \in Sessions |-> Outside]

Queues     == [Ports -> {q \in Seq(Sessions) : IsInjective(q)}]
Holders(p) == ToSet(queue[p])
Inside     == UNION {Holders(p) : p \in Ports}

\* Several callers may be let in at once, and only the very first holder of a
\* port may be an exclusive one.
Admit(p) ==
  /\ IsStrictPrefix(queue[p], queue'[p])
  /\ \A i \in (Len(queue[p]) + 1)..Len(queue'[p]) :
       LET s == queue'[p][i] IN
       /\ s \notin Inside
       /\ mode'[s] # Outside
       /\ mode'[s] = "exclusive" => i = 1
  /\ \A q \in Ports \ {p} : queue'[q] = queue[q]
  /\ \A s \in Sessions \ (Holders(p)' \ Holders(p)) : mode'[s] = mode[s]

\* r is what remains of the queue q without S.
Remains(r, q, S) ==
  /\ ToSet(r) = ToSet(q) \ S
  /\ \A i, j \in DOMAIN r, k, l \in DOMAIN q : i < j /\ r[i] = q[k] /\ r[j] = q[l] => k < l

Leave(S) ==
  /\ \A p \in Ports : Remains(queue'[p], queue[p], S)
  /\ mode'  = [s \in Sessions |-> IF s \in S THEN Outside ELSE mode[s]]

Next ==
  /\ queue' \in Queues
  /\ \/ \E p \in Ports : Admit(p)
     \/ \E S \in SUBSET Inside : Leave(S)

Spec == Init /\ [][Next]_vars
=============================================================================
