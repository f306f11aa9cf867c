---------------------------- MODULE SelfUpdate_proofs ----------------------------
(***************************************************************************)
(* Proofs about SelfUpdate, for any list of items, any versions and what   *)
(* they ship, and any number of calls, power cuts and disk errors.         *)
(***************************************************************************)
EXTENDS SelfUpdate, TLAPS

N == Len(SWAP_ITEMS)

\* The list is a sequence of items, each of them once.
LEMMA ListOfItems ==
  /\ N \in Nat \ {0} /\ DOMAIN SWAP_ITEMS = 1..N
  /\ \A k \in 1..N : SWAP_ITEMS[k] \in Items
  /\ \A i \in Items : \E k \in 1..N : SWAP_ITEMS[k] = i
  /\ \A j, k \in 1..N : SWAP_ITEMS[j] = SWAP_ITEMS[k] => j = k
<1>1. SWAP_ITEMS \in Seq(Items) /\ SWAP_ITEMS # <<>> /\ IsInjective(SWAP_ITEMS)
  BY UpdateAssumption
<1>2. N \in Nat \ {0} /\ DOMAIN SWAP_ITEMS = 1..N
  BY <1>1 DEF N
<1> QED
  BY <1>1, <1>2 DEF Items, Range, IsInjective

\* The records that calls are among, with what their fields may be.
Phases == {"idle", "fetch", "prune", "copy", "copying", "swap", "rename", "clean", "look",
           "restore", "restoring", "restart"}
Fields == [kind : {"none", "apply", "rollback"}, phase : Phases,
           at : Nat, dir : Nat, target : Versions \union {Missing}]

\* A call that works on files has its place in the list.
LEMMA CallFields ==
  ASSUME UpdateTypeOK
  PROVE  /\ op \in [Ops -> Fields]
         /\ \A o \in Ops :
              /\ op[o].phase \in {"copy", "copying", "swap", "rename", "clean", "restore", "restoring", "restart"}
                   => op[o].at \in 1..N
              /\ op[o].phase \in {"copy", "copying", "swap", "rename", "clean", "fetch", "prune"}
                   => op[o].kind = "apply"
              /\ op[o].phase \in {"restore", "restoring"} => op[o].kind = "rollback"
              /\ op[o].kind = "apply" => op[o].target \in Versions
              /\ op[o].kind = "rollback" => op[o].target = Missing
<1>1. op \in [Ops -> Calls]
  BY DEF UpdateTypeOK
<1>2. ASSUME NEW o \in Ops
      PROVE  /\ op[o] \in Fields
             /\ op[o].phase \in {"copy", "copying", "swap", "rename", "clean", "restore", "restoring", "restart"}
                  => op[o].at \in 1..N
             /\ op[o].phase \in {"copy", "copying", "swap", "rename", "clean", "fetch", "prune"}
                  => op[o].kind = "apply"
             /\ op[o].phase \in {"restore", "restoring"} => op[o].kind = "rollback"
             /\ op[o].kind = "apply" => op[o].target \in Versions
             /\ op[o].kind = "rollback" => op[o].target = Missing
  <2>1. op[o] \in Calls
    BY <1>1
  <2>2. DOMAIN SWAP_ITEMS = 1..N /\ N \in Nat
    BY ListOfItems
  <2>3. op[o] \in Fields
    BY <2>1, <2>2 DEF Calls, Resting, Fields, Phases
  <2> QED
    BY <2>1, <2>2, <2>3 DEF Calls, Resting
<1> QED
  BY <1>1, <1>2

\* While a call works on the files nothing else does, or there has been a lapse.
LEMMA Alone ==
  ASSUME UpdateInv, NEW o \in Ops, Working(o)
  PROVE  script = 0 /\ (lapse \/ \A p \in Ops \ {o} : ~Working(p))
<1>1. op[o] # Resting
  BY DEF Working, Resting
<1> QED
  BY <1>1 DEF UpdateInv, OneWorks, UpdateTypeOK

\* Files do not have to follow a call that does not work on them.
LEMMA IdleFollows ==
  ASSUME NEW o \in Ops, ~Working(o)'
  PROVE  FilesFollow(o)'
BY DEF Working, FilesFollow, In

\* ... or to a step that touches neither that call nor the files.
LEMMA BystanderFollows ==
  ASSUME NEW p \in Ops, op'[p] = op[p], UNCHANGED disk, FilesFollow(p)
  PROVE  FilesFollow(p)'
<1>1. Behind(p)' = Behind(p) /\ Item(p)' = Item(p)
  BY DEF Behind, Item
<1>2. Copied(p)' = Copied(p) /\ Swapped(p)' = Swapped(p)
  BY <1>1 DEF Copied, Swapped, In, disk, Package
<1> QED
  BY <1>2 DEF FilesFollow, In, disk, Whole, Package

\* A call turns to the first of its list of files.
Turned(c, ph, d) == [c EXCEPT !.phase = ph, !.at = 1, !.dir = d]

LEMMA TurnedFields ==
  ASSUME NEW c \in Fields, NEW ph \in Phases, NEW d \in Nat
  PROVE  /\ Turned(c, ph, d) = [kind |-> c.kind, phase |-> ph, at |-> 1, dir |-> d, target |-> c.target]
         /\ Turned(c, ph, d) \in Fields
<1> DEFINE new == Turned(c, ph, d)
<1>1. DOMAIN new = {"kind", "phase", "at", "dir", "target"}
  BY SMT DEF Fields, Turned
<1>2. new.kind = c.kind /\ new.phase = ph /\ new.at = 1 /\ new.dir = d /\ new.target = c.target
  BY SMT DEF Fields, Turned
<1>3. new = [x \in DOMAIN new |-> new[x]]
  BY DEF Turned
<1>4. c.kind \in {"none", "apply", "rollback"} /\ c.target \in Versions \union {Missing}
  BY DEF Fields
<1> HIDE DEF new
<1>5. new = [kind |-> c.kind, phase |-> ph, at |-> 1, dir |-> d, target |-> c.target]
  BY <1>1, <1>2, <1>3
<1>6. new \in Fields
  BY <1>4, <1>5 DEF Fields
<1> QED
  BY <1>5, <1>6 DEF new

\* One call changes, the others stay.
LEMMA OneCall ==
  ASSUME op \in [Ops -> Fields], NEW o \in Ops, NEW c \in Fields, op' = [op EXCEPT ![o] = c]
  PROVE  op' \in [Ops -> Fields] /\ op'[o] = c /\ \A p \in Ops \ {o} : op'[p] = op[p]
OBVIOUS

\* A step of one call, on its own, needs to keep the files where that call wants them.
LEMMA MoveKeeps ==
  ASSUME UpdateInv, NEW o \in Ops,
         op' \in [Ops -> Fields], op'[o] \in Calls, \A p \in Ops \ {o} : op'[p] = op[p],
         script = 0, script' = 0, lapse => lapse',
         lapse' \/ \A p \in Ops \ {o} : ~Working(p),
         lapse' \/ FilesFollow(o)'
  PROVE  /\ op' \in [Ops -> Calls]
         /\ OneWorks'
         /\ lapse' \/ \A p \in Ops : FilesFollow(p)'
<1>1. op \in [Ops -> Calls]
  BY DEF UpdateInv, UpdateTypeOK
<1>2. op' \in [Ops -> Calls]
  BY <1>1
<1>3. \A p \in Ops \ {o} : lapse' \/ ~Working(p)'
  BY DEF Working
<1>4. OneWorks'
  BY <1>3 DEF OneWorks
<1>5. ASSUME ~lapse', NEW p \in Ops PROVE FilesFollow(p)'
  <2>1. CASE p = o
    BY <1>5, <2>1
  <2>2. CASE p # o
    BY <1>3, <1>5, <2>2, IdleFollows
  <2> QED
    BY <2>1, <2>2
<1> QED
  BY <1>2, <1>4, <1>5

\* The next place in the list, or the end of the loop.
LEMMA NextItemIsCall ==
  ASSUME UpdateTypeOK, NEW o \in Ops, NEW ph \in Phases, NEW after \in Phases, NextItem(o, ph, after),
         op[o].at \in 1..N,
         \/ op[o].kind = "apply" /\ ph \in {"copy", "swap"} /\ after \in {"swap", "clean"}
         \/ op[o].kind = "rollback" /\ ph = "restore" /\ after = "restart"
  PROVE  /\ op' \in [Ops -> Fields] /\ op'[o] \in Calls /\ \A p \in Ops \ {o} : op'[p] = op[p]
         /\ op'[o].kind = op[o].kind /\ op'[o].target = op[o].target
         /\ op[o].at = N => op'[o].phase = after /\ op'[o].at = 1
         /\ op[o].at # N => op'[o].phase = ph /\ op'[o].at = op[o].at + 1 /\ op'[o].at \in 1..N
<1> DEFINE ph1 == IF op[o].at = N THEN after ELSE ph
           at1 == IF op[o].at = N THEN 1 ELSE op[o].at + 1
<1>1. op' = [op EXCEPT ![o].phase = ph1, ![o].at = at1]
  BY DEF NextItem, N
<1>2. N \in Nat \ {0} /\ DOMAIN SWAP_ITEMS = 1..N
  BY ListOfItems
<1>3. ph1 \in Phases /\ at1 \in 1..N
  BY <1>2
<1>4. op \in [Ops -> Fields]
  BY CallFields
<1>5. /\ op' \in [Ops -> Fields] /\ \A p \in Ops \ {o} : op'[p] = op[p]
      /\ op'[o] = [kind |-> op[o].kind, phase |-> ph1, at |-> at1, dir |-> op[o].dir, target |-> op[o].target]
  <2> HIDE DEF ph1, at1
  <2>1. at1 \in Nat
    BY <1>2, <1>3
  <2> QED
    BY <1>1, <1>3, <1>4, <2>1 DEF Fields
<1>6. op[o].dir \in Nat
  BY <1>4 DEF Fields
<1>7. op'[o] \in Calls
  <2>1. op[o].kind = "apply" => op[o].target \in Versions
    BY CallFields
  <2>2. op[o].kind = "rollback" => op[o].target = Missing
    BY CallFields
  <2> QED
    BY <1>2, <1>3, <1>5, <1>6, <2>1, <2>2 DEF Calls
<1>8. /\ op[o].at = N => ph1 = after /\ at1 = 1
      /\ op[o].at # N => ph1 = ph /\ at1 = op[o].at + 1 /\ at1 \in 1..N
  BY <1>3
<1> HIDE DEF ph1, at1
<1> QED
  BY <1>5, <1>7, <1>8

\* ... and another phase in the same place.
LEMMA GotoIsCall ==
  ASSUME UpdateTypeOK, NEW o \in Ops, NEW ph \in Phases, Goto(o, ph),
         op[o].at \in 1..N,
         \/ op[o].kind = "apply" /\ ph \in {"copying", "rename", "restart"}
         \/ op[o].kind = "rollback" /\ ph = "restoring"
  PROVE  /\ op' \in [Ops -> Fields] /\ op'[o] \in Calls /\ \A p \in Ops \ {o} : op'[p] = op[p]
         /\ op'[o].kind = op[o].kind /\ op'[o].target = op[o].target
         /\ op'[o].phase = ph /\ op'[o].at = op[o].at
<1>1. op \in [Ops -> Fields]
  BY CallFields
<1>2. /\ op' \in [Ops -> Fields] /\ \A p \in Ops \ {o} : op'[p] = op[p]
      /\ op'[o] = [kind |-> op[o].kind, phase |-> ph, at |-> op[o].at, dir |-> op[o].dir, target |-> op[o].target]
  BY <1>1 DEF Goto, Fields
<1>3. op[o].dir \in Nat
  BY <1>1 DEF Fields
<1>4. op'[o] \in Calls
  <2>1. op[o].kind = "apply" => op[o].target \in Versions
    BY CallFields
  <2>2. op[o].kind = "rollback" => op[o].target = Missing
    BY CallFields
  <2> QED
    BY <1>2, <1>3, <2>1, <2>2, ListOfItems DEF Calls
<1> QED
  BY <1>2, <1>4

\* A package holds the program, and its files are files.
LEMMA PackageIsWhole ==
  ASSUME NEW v \in Versions
  PROVE  /\ Package(v) \in [Items -> Contents] /\ Nothing \in [Items -> Contents]
         /\ \A i \in ScriptItems : Package(v)[i] = v
BY UpdateAssumption DEF Package, Nothing, Contents

LEMMA InitHolds == UpdateInit => UpdateInv
<1> SUFFICES ASSUME UpdateInit PROVE UpdateInv
  OBVIOUS
<1>1. running \in Versions /\ live = Package(running)
  BY DEF UpdateInit
<1>2. /\ live \in [Items -> Contents] /\ Nothing \in [Items -> Contents]
      /\ \A i \in ScriptItems : live[i] = running
  BY <1>1, PackageIsWhole
<1>3. Whole(live)
  BY <1>1, <1>2 DEF Whole
<1>4. UpdateTypeOK
  <2>1. op \in [Ops -> Calls] /\ backup \in [name : Nat, item : [Items -> Contents]]
    BY <1>2 DEF UpdateInit, Calls, NoBackup
  <2>2. script \in 0..(Len(SWAP_ITEMS) + 1) /\ ops \in Nat
    BY ListOfItems DEF UpdateInit, N
  <2>3. staging \in [Items -> Contents]
    BY <1>2 DEF UpdateInit
  <2>4. updating \in BOOLEAN /\ lapse \in BOOLEAN
    BY DEF UpdateInit
  <2> QED
    BY <1>1, <1>2, <2>1, <2>2, <2>3, <2>4 DEF UpdateTypeOK
<1>5. OneWorks
  BY DEF OneWorks, UpdateInit, Working, Resting
<1>6. \A o \in Ops : FilesFollow(o)
  BY DEF UpdateInit, FilesFollow, In, Resting
<1> QED
  BY <1>3, <1>4, <1>5, <1>6 DEF UpdateInv, WayBack

-----------------------------------------------------------------------------
(* applyUpdate().                                                          *)

LEMMA ApplyBeginsKeeps ==
  ASSUME UpdateInv, NEW o \in Ops, ApplyBegins(o)
  PROVE  UpdateInv'
<1>1. PICK v \in Versions : op' = [op EXCEPT ![o] = [Resting EXCEPT !.kind = "apply", !.phase = "fetch", !.target = v]]
  BY DEF ApplyBegins
<1>2. /\ op[o] = Resting /\ script = 0 /\ UNCHANGED <<running, disk, script>>
      /\ updating' = TRUE /\ lapse' = (lapse \/ ~Whole(live) \/ \E p \in Ops : Working(p))
      /\ ops' \in Nat /\ UNCHANGED faults
  <2>1. ops \in Nat
    BY DEF UpdateInv, UpdateTypeOK
  <2> QED
    BY <2>1 DEF ApplyBegins, Call, UpdateInv, OneWorks
<1>3. op'[o] = [kind |-> "apply", phase |-> "fetch", at |-> 0, dir |-> 0, target |-> v]
  BY <1>1 DEF Resting, UpdateInv, UpdateTypeOK
<1>4. op \in [Ops -> Fields]
  BY CallFields DEF UpdateInv
<1>5. op'[o] \in Calls /\ op'[o] \in Fields
  BY <1>3 DEF Calls, Fields, Phases
<1>6. op' \in [Ops -> Fields] /\ \A p \in Ops \ {o} : op'[p] = op[p]
  BY <1>1, <1>4, <1>5
<1>7. lapse' \/ FilesFollow(o)'
  <2>1. lapse' \/ Whole(live')
    BY <1>2 DEF disk
  <2>2. op'[o].phase = "fetch"
    BY <1>3
  <2> QED
    BY <2>1, <2>2 DEF FilesFollow, In
<1>8. OneWorks' /\ op' \in [Ops -> Calls] /\ (lapse' \/ \A p \in Ops : FilesFollow(p)')
  BY <1>2, <1>5, <1>6, <1>7, MoveKeeps
<1>9. UpdateTypeOK'
  BY <1>2, <1>8 DEF UpdateInv, UpdateTypeOK, disk
<1>10. WayBack'
  BY <1>2 DEF UpdateInv, WayBack, disk, Whole
<1> QED
  BY <1>8, <1>9, <1>10 DEF UpdateInv

LEMMA StagedKeeps ==
  ASSUME UpdateInv, NEW o \in Ops, Staged(o)
  PROVE  UpdateInv'
<1>1. op[o].kind = "apply" /\ op[o].phase = "fetch" /\ op[o].target \in Versions /\ Working(o)
  BY CallFields DEF Staged, In, UpdateInv, Working
<1>2. op \in [Ops -> Fields]
  BY CallFields DEF UpdateInv
<1>3. /\ op' \in [Ops -> Fields] /\ \A p \in Ops \ {o} : op'[p] = op[p]
      /\ op'[o] = [kind |-> op[o].kind, phase |-> "prune", at |-> op[o].at, dir |-> op[o].dir, target |-> op[o].target]
  BY <1>2 DEF Staged, Goto, Fields, Phases
<1>4. op[o].at = 0 /\ op[o].dir = 0
  <2>1. op[o] \in Calls
    BY DEF UpdateInv, UpdateTypeOK
  <2> QED
    BY <1>1, <2>1 DEF Calls, Resting
<1>5. op'[o] \in Calls
  BY <1>1, <1>3, <1>4 DEF Calls
<1>6. UNCHANGED <<running, updating, live, backup, script, lapse, bounds>> /\ staging' = Package(op[o].target)
  BY DEF Staged
<1>7. lapse' \/ FilesFollow(o)'
  <2>1. lapse \/ FilesFollow(o)
    BY DEF UpdateInv
  <2>2. op'[o].phase = "prune" /\ op'[o].kind = "apply" /\ op'[o].target = op[o].target
    BY <1>1, <1>3
  <2>3. lapse \/ Whole(live')
    BY <1>1, <1>6, <2>1 DEF FilesFollow
  <2>4. staging' = Package(op'[o].target)
    BY <1>6, <2>2
  <2> QED
    BY <1>6, <2>2, <2>3, <2>4 DEF FilesFollow, In
<1>8. OneWorks' /\ op' \in [Ops -> Calls] /\ (lapse' \/ \A p \in Ops : FilesFollow(p)')
  BY <1>1, <1>3, <1>5, <1>6, <1>7, Alone, MoveKeeps
<1>9. UpdateTypeOK'
  BY <1>1, <1>6, <1>8, PackageIsWhole DEF UpdateInv, UpdateTypeOK, bounds
<1>10. WayBack'
  BY <1>6 DEF UpdateInv, WayBack, Whole
<1> QED
  BY <1>8, <1>9, <1>10 DEF UpdateInv

\* A call that ends leaves the files as they are, to be followed by nobody.
LEMMA FinishKeeps ==
  ASSUME UpdateInv, NEW o \in Ops, Working(o), Finish(o),
         UNCHANGED <<running, disk, script, lapse, ops>>
  PROVE  UpdateInv'
<1>1. op \in [Ops -> Fields]
  BY CallFields DEF UpdateInv
<1>2. Resting \in Calls /\ Resting \in Fields
  BY DEF Calls, Resting, Fields, Phases
<1>3. /\ op' \in [Ops -> Fields] /\ op'[o] = Resting
      /\ \A p \in Ops \ {o} : op'[p] = op[p]
  BY <1>1, <1>2 DEF Finish
<1>4. FilesFollow(o)'
  BY <1>3, IdleFollows DEF Working, Resting
<1>5. OneWorks' /\ op' \in [Ops -> Calls] /\ (lapse' \/ \A p \in Ops : FilesFollow(p)')
  BY <1>2, <1>3, <1>4, Alone, MoveKeeps
<1>6. UpdateTypeOK'
  BY <1>5 DEF UpdateInv, UpdateTypeOK, Finish, disk
<1>7. WayBack'
  BY DEF UpdateInv, WayBack, disk, Whole
<1> QED
  BY <1>5, <1>6, <1>7 DEF UpdateInv

\* Until the backup is complete the live files are whole, and stay so.
LEMMA PruneKeeps ==
  ASSUME UpdateInv, NEW o \in Ops, Prune(o)
  PROVE  UpdateInv'
<1>1. /\ op[o].kind = "apply" /\ op[o].phase = "prune" /\ op[o].target \in Versions /\ Working(o)
      /\ script = 0 /\ (lapse \/ \A p \in Ops \ {o} : ~Working(p))
      /\ UNCHANGED <<running, updating, live, staging, script, lapse, bounds>>
  <2>1. op[o].kind = "apply" /\ op[o].phase = "prune"
    BY DEF Prune, In
  <2>2. Working(o) /\ op[o].target \in Versions
    BY <2>1, CallFields DEF UpdateInv, Working
  <2> QED
    BY <2>1, <2>2, Alone DEF Prune
<1>2. lapse \/ (Whole(live) /\ staging = Package(op[o].target))
  BY <1>1 DEF UpdateInv, FilesFollow
<1>3. WayBack'
  BY <1>1, <1>2 DEF WayBack, Whole
<1>4. ops \in Nat /\ backup \in [name : Nat, item : [Items -> Contents]] /\ op \in [Ops -> Fields]
      /\ op \in [Ops -> Calls]
  BY CallFields DEF UpdateInv, UpdateTypeOK
<1>5. CASE \E i \in Items : backup.item[i] # Missing
  <2> DEFINE j == CHOOSE i \in Items : backup.item[i] # Missing
  <2>1. j \in Items
    BY <1>5
  <2> HIDE DEF j
  <2>2. backup' = [backup EXCEPT !.item[j] = Missing] /\ UNCHANGED op
    BY <1>5 DEF Prune, j
  <2>3. backup' \in [name : Nat, item : [Items -> Contents]]
    BY <1>4, <2>1, <2>2 DEF Contents
  <2>4. UpdateTypeOK'
    BY <1>1, <2>2, <2>3 DEF UpdateInv, UpdateTypeOK, bounds
  <2>5. lapse' \/ FilesFollow(o)'
    BY <1>1, <1>2, <2>2 DEF FilesFollow, In, Whole
  <2>6. OneWorks' /\ (lapse' \/ \A p \in Ops : FilesFollow(p)')
    BY <1>1, <1>4, <2>2, <2>5, MoveKeeps
  <2> QED
    BY <1>3, <2>4, <2>6 DEF UpdateInv
<1>6. CASE ~\E i \in Items : backup.item[i] # Missing
  <2>1. /\ backup' = [name |-> ops, item |-> Nothing]
        /\ op' = [op EXCEPT ![o].phase = "copy", ![o].at = 1, ![o].dir = ops]
    BY <1>6 DEF Prune
  <2>2. backup' \in [name : Nat, item : [Items -> Contents]]
    BY <1>1, <1>4, <2>1, PackageIsWhole
  <2>3. /\ op' \in [Ops -> Fields] /\ \A p \in Ops \ {o} : op'[p] = op[p]
        /\ op'[o] = [kind |-> op[o].kind, phase |-> "copy", at |-> 1, dir |-> ops, target |-> op[o].target]
    <3> DEFINE new == Turned(op[o], "copy", ops)
    <3>1. op[o] \in Fields /\ "copy" \in Phases /\ ops \in Nat
      BY <1>4 DEF Phases
    <3>2. /\ new = [kind |-> op[o].kind, phase |-> "copy", at |-> 1, dir |-> ops, target |-> op[o].target]
          /\ new \in Fields
      BY <3>1, TurnedFields
    <3>3. op' = [op EXCEPT ![o] = new]
      BY <2>1 DEF Turned
    <3> HIDE DEF new
    <3>4. op' \in [Ops -> Fields] /\ op'[o] = new /\ \A p \in Ops \ {o} : op'[p] = op[p]
      BY <1>4, <3>2, <3>3, OneCall
    <3> QED
      BY <3>2, <3>4
  <2>4. op'[o] \in Calls
    BY <1>1, <1>4, <2>3, ListOfItems DEF Calls
  <2>5. Copied(o)'
    <3>1. Behind(o)' = {}
      BY <2>3 DEF Behind
    <3>2. \A i \in Items : backup'.item[i] = Missing
      BY <2>1 DEF Nothing
    <3> QED
      BY <3>1, <3>2 DEF Copied
  <2>6. lapse' \/ FilesFollow(o)'
    <3>1. op'[o].phase = "copy" /\ op'[o].kind = "apply" /\ op'[o].target = op[o].target
      BY <1>1, <2>3
    <3>2. lapse' \/ Whole(live')
      BY <1>1, <1>2
    <3>3. lapse' \/ staging' = Package(op'[o].target)
      BY <1>1, <1>2, <3>1
    <3> QED
      BY <2>5, <3>1, <3>2, <3>3 DEF FilesFollow, In
  <2>7. OneWorks' /\ op' \in [Ops -> Calls] /\ (lapse' \/ \A p \in Ops : FilesFollow(p)')
    BY <1>1, <2>3, <2>4, <2>6, MoveKeeps
  <2>8. UpdateTypeOK'
    BY <1>1, <2>2, <2>7 DEF UpdateInv, UpdateTypeOK, bounds
  <2> QED
    BY <1>3, <2>7, <2>8 DEF UpdateInv
<1> QED
  BY <1>5, <1>6

\* What a copying call knows, and what keeps UpdateInv when it goes on: shared by the two
\* halves of a copy.
LEMMA CopyStarts ==
  ASSUME UpdateInv, NEW o \in Ops, In(o, "apply", "copy") \/ In(o, "apply", "copying")
  PROVE  /\ op[o].kind = "apply" /\ op[o].at \in 1..N /\ op[o].target \in Versions /\ Working(o)
         /\ Item(o) \in Items /\ Item(o) \notin Behind(o)
         /\ script = 0 /\ (lapse \/ \A p \in Ops \ {o} : ~Working(p))
         /\ lapse \/ (Whole(live) /\ staging = Package(op[o].target) /\ Copied(o))
<1>1. op[o].kind = "apply" /\ op[o].phase \in {"copy", "copying"} /\ Working(o)
  BY DEF In, Working
<1>2. op[o].at \in 1..N /\ op[o].target \in Versions
  BY <1>1, CallFields DEF UpdateInv
<1>3. Item(o) \in Items /\ Item(o) \notin Behind(o)
  BY <1>2, ListOfItems DEF Item, Behind
<1>4. lapse \/ (Whole(live) /\ staging = Package(op[o].target) /\ Copied(o))
  BY <1>1 DEF UpdateInv, FilesFollow
<1> QED
  BY <1>1, <1>2, <1>3, <1>4, Alone

\* The items behind the next place.
LEMMA BehindNext ==
  ASSUME UpdateTypeOK, NEW o \in Ops, op[o].at \in 1..N, op'[o].at = op[o].at + 1
  PROVE  Behind(o)' = Behind(o) \union {Item(o)}
<1>1. Item(o) = SWAP_ITEMS[op[o].at]
  BY DEF Item
<1>2. op[o].at \in Nat /\ 1..(op'[o].at - 1) = 1..(op[o].at - 1) \union {op[o].at}
  BY ListOfItems
<1> QED
  BY <1>1, <1>2 DEF Behind

\* ... or behind the last one.
LEMMA BehindLast ==
  ASSUME NEW o \in Ops, op[o].at = N
  PROVE  \A i \in Items : i \in Behind(o) \/ i = Item(o)
BY ListOfItems DEF Behind, Item

\* An item's copy is complete: on to the next one, or to the swap with a whole backup.
LEMMA CopyGoesOn ==
  ASSUME UpdateInv, NEW o \in Ops, In(o, "apply", "copy") \/ In(o, "apply", "copying"),
         NextItem(o, "copy", "swap"),
         UNCHANGED <<running, updating, live, staging, script, lapse, bounds>>,
         backup' \in [name : Nat, item : [Items -> Contents]],
         lapse \/ backup'.item[Item(o)] = live[Item(o)],
         \A i \in Items \ {Item(o)} : backup'.item[i] = backup.item[i]
  PROVE  UpdateInv'
<1>1. /\ op[o].kind = "apply" /\ op[o].at \in 1..N /\ op[o].target \in Versions
      /\ Item(o) \in Items /\ Item(o) \notin Behind(o)
      /\ script = 0 /\ (lapse \/ \A p \in Ops \ {o} : ~Working(p))
      /\ lapse \/ (Whole(live) /\ staging = Package(op[o].target) /\ Copied(o))
  BY CopyStarts
<1>2. UpdateTypeOK
  BY DEF UpdateInv
<1>3. /\ op' \in [Ops -> Fields] /\ op'[o] \in Calls /\ \A p \in Ops \ {o} : op'[p] = op[p]
      /\ op'[o].kind = "apply" /\ op'[o].target = op[o].target
      /\ op[o].at = N => op'[o].phase = "swap" /\ op'[o].at = 1
      /\ op[o].at # N => op'[o].phase = "copy" /\ op'[o].at = op[o].at + 1
  BY <1>1, <1>2, NextItemIsCall DEF Phases
<1>4. WayBack'
  BY <1>1 DEF WayBack, Whole
<1>5. lapse \/ \A i \in Items : i \in Behind(o) \union {Item(o)} => backup'.item[i] = live[i]
  BY <1>1 DEF Copied
<1>6. lapse \/ \A i \in Items : i \notin Behind(o) \union {Item(o)} => backup'.item[i] = Missing
  BY <1>1 DEF Copied
<1>7. lapse' \/ FilesFollow(o)'
  <2>1. CASE op[o].at # N
    <3>1. Behind(o)' = Behind(o) \union {Item(o)}
      BY <1>1, <1>2, <1>3, <2>1, BehindNext
    <3>2. lapse' \/ Copied(o)'
      BY <1>1, <1>5, <1>6, <3>1 DEF Copied
    <3>3. lapse' \/ (Whole(live)' /\ staging' = Package(op'[o].target))
      BY <1>1, <1>3 DEF Whole
    <3> QED
      BY <1>3, <2>1, <3>2, <3>3 DEF FilesFollow, In
  <2>2. CASE op[o].at = N
    <3>1. lapse \/ \A i \in Items : backup'.item[i] = live[i]
      BY <1>5, <2>2, BehindLast
    <3>2. lapse' \/ Whole(backup.item)'
      BY <1>1, <3>1, UpdateAssumption DEF Whole
    <3>3. Behind(o)' = {}
      BY <1>3, <2>2 DEF Behind
    <3>4. lapse' \/ Swapped(o)'
      BY <1>1, <1>3, <3>3 DEF Swapped, Package
    <3> QED
      BY <1>3, <2>2, <3>2, <3>4 DEF FilesFollow, In
  <2> QED
    BY <2>1, <2>2
<1>8. OneWorks' /\ op' \in [Ops -> Calls] /\ (lapse' \/ \A p \in Ops : FilesFollow(p)')
  BY <1>1, <1>3, <1>7, MoveKeeps
<1>9. UpdateTypeOK'
  BY <1>2, <1>8 DEF UpdateTypeOK, bounds
<1> QED
  BY <1>4, <1>8, <1>9 DEF UpdateInv

LEMMA CopyBeginsKeeps ==
  ASSUME UpdateInv, NEW o \in Ops, CopyBegins(o)
  PROVE  UpdateInv'
<1>1. /\ op[o].kind = "apply" /\ op[o].at \in 1..N /\ op[o].target \in Versions
      /\ Item(o) \in Items /\ Item(o) \notin Behind(o)
      /\ script = 0 /\ (lapse \/ \A p \in Ops \ {o} : ~Working(p))
      /\ lapse \/ (Whole(live) /\ staging = Package(op[o].target) /\ Copied(o))
      /\ UNCHANGED <<running, updating, live, staging, script, lapse, bounds>>
      /\ op[o].phase = "copy"
  BY CopyStarts DEF CopyBegins, In
<1>2. UpdateTypeOK /\ backup \in [name : Nat, item : [Items -> Contents]]
  BY DEF UpdateInv, UpdateTypeOK
<1>3. CASE live[Item(o)] = Missing
  <2>1. NextItem(o, "copy", "swap") /\ UNCHANGED backup
    BY <1>3 DEF CopyBegins
  <2>2. lapse \/ backup.item[Item(o)] = Missing
    BY <1>1 DEF Copied, In
  <2> QED
    BY <1>1, <1>2, <1>3, <2>1, <2>2, CopyGoesOn DEF CopyBegins
<1>4. CASE live[Item(o)] # Missing
  <2>1. backup' = [backup EXCEPT !.item[Item(o)] = Torn] /\ Goto(o, "copying")
    BY <1>4 DEF CopyBegins
  <2>2. /\ op' \in [Ops -> Fields] /\ op'[o] \in Calls /\ \A p \in Ops \ {o} : op'[p] = op[p]
        /\ op'[o].kind = "apply" /\ op'[o].target = op[o].target
        /\ op'[o].phase = "copying" /\ op'[o].at = op[o].at
    BY <1>1, <1>2, <2>1, GotoIsCall DEF Phases
  <2>3. /\ backup' \in [name : Nat, item : [Items -> Contents]]
        /\ \A i \in Items \ {Item(o)} : backup'.item[i] = backup.item[i]
    BY <1>1, <1>2, <2>1 DEF Contents
  <2>4. Behind(o)' = Behind(o) /\ Item(o)' = Item(o)
    BY <2>2 DEF Behind, Item
  <2>5. lapse' \/ Copied(o)'
    BY <1>1, <2>2, <2>3, <2>4 DEF Copied, In
  <2>6. lapse' \/ (Whole(live)' /\ staging' = Package(op'[o].target))
    BY <1>1, <2>2 DEF Whole
  <2>7. lapse' \/ FilesFollow(o)'
    BY <2>2, <2>5, <2>6 DEF FilesFollow, In
  <2>8. OneWorks' /\ op' \in [Ops -> Calls] /\ (lapse' \/ \A p \in Ops : FilesFollow(p)')
    BY <1>1, <2>2, <2>7, MoveKeeps
  <2>9. UpdateTypeOK' /\ WayBack'
    BY <1>1, <1>2, <2>3, <2>8 DEF UpdateTypeOK, bounds, WayBack, Whole
  <2> QED
    BY <2>8, <2>9 DEF UpdateInv
<1> QED
  BY <1>3, <1>4

LEMMA CopyEndsKeeps ==
  ASSUME UpdateInv, NEW o \in Ops, CopyEnds(o)
  PROVE  UpdateInv'
<1>1. Item(o) \in Items /\ In(o, "apply", "copying") /\ NextItem(o, "copy", "swap")
      /\ UNCHANGED <<running, updating, live, staging, script, lapse, bounds>>
      /\ backup' = [backup EXCEPT !.item[Item(o)] = live[Item(o)]]
  BY CopyStarts DEF CopyEnds
<1>2. backup \in [name : Nat, item : [Items -> Contents]] /\ live \in [Items -> Contents]
  BY DEF UpdateInv, UpdateTypeOK
<1>3. /\ backup' \in [name : Nat, item : [Items -> Contents]]
      /\ backup'.item[Item(o)] = live[Item(o)]
      /\ \A i \in Items \ {Item(o)} : backup'.item[i] = backup.item[i]
  BY <1>1, <1>2
<1> QED
  BY <1>1, <1>3, CopyGoesOn

\* What a swapping call knows: the backup is whole, and what it has not swapped is staged.
LEMMA SwapStarts ==
  ASSUME UpdateInv, NEW o \in Ops, In(o, "apply", "swap") \/ In(o, "apply", "rename")
  PROVE  /\ op[o].kind = "apply" /\ op[o].at \in 1..N /\ op[o].target \in Versions /\ Working(o)
         /\ Item(o) \in Items /\ Item(o) \notin Behind(o)
         /\ script = 0 /\ (lapse \/ \A p \in Ops \ {o} : ~Working(p))
         /\ lapse \/ (Whole(backup.item) /\ Swapped(o))
<1>1. op[o].kind = "apply" /\ op[o].phase \in {"swap", "rename"} /\ Working(o)
  BY DEF In, Working
<1>2. op[o].at \in 1..N /\ op[o].target \in Versions
  BY <1>1, CallFields DEF UpdateInv
<1>3. Item(o) \in Items /\ Item(o) \notin Behind(o)
  BY <1>2, ListOfItems DEF Item, Behind
<1>4. lapse \/ (Whole(backup.item) /\ Swapped(o))
  BY <1>1 DEF UpdateInv, FilesFollow
<1> QED
  BY <1>1, <1>2, <1>3, <1>4, Alone

LEMMA RemoveLiveKeeps ==
  ASSUME UpdateInv, NEW o \in Ops, RemoveLive(o)
  PROVE  UpdateInv'
<1>1. /\ op[o].kind = "apply" /\ op[o].at \in 1..N /\ op[o].target \in Versions
      /\ Item(o) \in Items /\ Item(o) \notin Behind(o)
      /\ script = 0 /\ (lapse \/ \A p \in Ops \ {o} : ~Working(p))
      /\ lapse \/ (Whole(backup.item) /\ Swapped(o))
      /\ UNCHANGED <<running, updating, staging, backup, script, lapse, bounds>>
      /\ live' = [live EXCEPT ![Item(o)] = Missing] /\ Goto(o, "rename")
  BY SwapStarts DEF RemoveLive
<1>2. UpdateTypeOK /\ live \in [Items -> Contents]
  BY DEF UpdateInv, UpdateTypeOK
<1>3. live' \in [Items -> Contents] /\ \A i \in Items \ {Item(o)} : live'[i] = live[i]
  BY <1>1, <1>2 DEF Contents
<1>4. /\ op' \in [Ops -> Fields] /\ op'[o] \in Calls /\ \A p \in Ops \ {o} : op'[p] = op[p]
      /\ op'[o].kind = "apply" /\ op'[o].target = op[o].target
      /\ op'[o].phase = "rename" /\ op'[o].at = op[o].at
  BY <1>1, <1>2, GotoIsCall DEF Phases
<1>5. Behind(o)' = Behind(o)
  BY <1>4 DEF Behind
<1>6. lapse' \/ Swapped(o)'
  BY <1>1, <1>3, <1>4, <1>5 DEF Swapped, Package
<1>7. lapse' \/ Whole(backup.item)'
  BY <1>1 DEF Whole
<1>8. lapse' \/ FilesFollow(o)'
  BY <1>4, <1>6, <1>7 DEF FilesFollow, In
<1>9. OneWorks' /\ op' \in [Ops -> Calls] /\ (lapse' \/ \A p \in Ops : FilesFollow(p)')
  BY <1>1, <1>4, <1>8, MoveKeeps
<1>10. UpdateTypeOK' /\ WayBack'
  BY <1>1, <1>2, <1>3, <1>7, <1>9 DEF UpdateTypeOK, bounds, WayBack
<1> QED
  BY <1>9, <1>10 DEF UpdateInv

LEMMA RenameKeeps ==
  ASSUME UpdateInv, NEW o \in Ops, Rename(o)
  PROVE  UpdateInv'
<1>1. /\ op[o].kind = "apply" /\ op[o].at \in 1..N /\ op[o].target \in Versions
      /\ Item(o) \in Items /\ Item(o) \notin Behind(o)
      /\ script = 0 /\ (lapse \/ \A p \in Ops \ {o} : ~Working(p))
      /\ lapse \/ (Whole(backup.item) /\ Swapped(o))
      /\ UNCHANGED <<running, updating, backup, script, lapse, bounds>>
      /\ live' = [live EXCEPT ![Item(o)] = staging[Item(o)]]
      /\ staging' = [staging EXCEPT ![Item(o)] = Missing]
      /\ NextItem(o, "swap", "clean")
  BY SwapStarts DEF Rename
<1>2. UpdateTypeOK /\ live \in [Items -> Contents] /\ staging \in [Items -> Contents]
  BY DEF UpdateInv, UpdateTypeOK
<1>3. /\ live' \in [Items -> Contents] /\ staging' \in [Items -> Contents]
      /\ live'[Item(o)] = staging[Item(o)]
      /\ \A i \in Items \ {Item(o)} : live'[i] = live[i] /\ staging'[i] = staging[i]
  BY <1>1, <1>2 DEF Contents
<1>4. /\ op' \in [Ops -> Fields] /\ op'[o] \in Calls /\ \A p \in Ops \ {o} : op'[p] = op[p]
      /\ op'[o].kind = "apply" /\ op'[o].target = op[o].target
      /\ op[o].at = N => op'[o].phase = "clean" /\ op'[o].at = 1
      /\ op[o].at # N => op'[o].phase = "swap" /\ op'[o].at = op[o].at + 1
  BY <1>1, <1>2, NextItemIsCall DEF Phases
<1>5. lapse' \/ Whole(backup.item)'
  BY <1>1 DEF Whole
<1>6. lapse \/ \A i \in Items : (IF i \in Behind(o) \union {Item(o)} THEN live'[i] ELSE staging'[i])
                                = Package(op[o].target)[i]
  BY <1>1, <1>3 DEF Swapped
<1>7. lapse' \/ FilesFollow(o)'
  <2>1. CASE op[o].at # N
    <3>1. Behind(o)' = Behind(o) \union {Item(o)}
      BY <1>1, <1>2, <1>4, <2>1, BehindNext
    <3>2. lapse' \/ Swapped(o)'
      BY <1>1, <1>4, <1>6, <3>1 DEF Swapped, Package
    <3> QED
      BY <1>4, <1>5, <2>1, <3>2 DEF FilesFollow, In
  <2>2. CASE op[o].at = N
    <3>1. lapse \/ \A i \in Items : live'[i] = Package(op[o].target)[i]
      BY <1>6, <2>2, BehindLast
    <3>2. Package(op[o].target) \in [Items -> Contents]
      BY <1>1, PackageIsWhole
    <3>3. lapse \/ live' = Package(op[o].target)
      BY <1>3, <3>1, <3>2
    <3>4. lapse' \/ live' = Package(op'[o].target)
      BY <1>1, <1>4, <3>3
    <3> QED
      BY <1>4, <1>5, <2>2, <3>4 DEF FilesFollow, In
  <2> QED
    BY <2>1, <2>2
<1>8. OneWorks' /\ op' \in [Ops -> Calls] /\ (lapse' \/ \A p \in Ops : FilesFollow(p)')
  BY <1>1, <1>4, <1>7, MoveKeeps
<1>9. UpdateTypeOK' /\ WayBack'
  BY <1>1, <1>2, <1>3, <1>5, <1>8 DEF UpdateTypeOK, bounds, WayBack
<1> QED
  BY <1>8, <1>9 DEF UpdateInv

LEMMA CleanUpKeeps ==
  ASSUME UpdateInv, NEW o \in Ops, CleanUp(o)
  PROVE  UpdateInv'
<1>1. /\ op[o].kind = "apply" /\ op[o].phase = "clean" /\ op[o].at \in 1..N /\ Working(o)
      /\ UNCHANGED <<running, updating, live, backup, script, lapse, bounds>>
      /\ staging' = Nothing /\ Goto(o, "restart")
  BY CallFields DEF CleanUp, In, Working, UpdateInv
<1>2. script = 0 /\ (lapse \/ \A p \in Ops \ {o} : ~Working(p))
  BY <1>1, Alone
<1>3. lapse \/ (Whole(backup.item) /\ live = Package(op[o].target))
  BY <1>1 DEF UpdateInv, FilesFollow
<1>4. UpdateTypeOK
  BY DEF UpdateInv
<1>5. /\ op' \in [Ops -> Fields] /\ op'[o] \in Calls /\ \A p \in Ops \ {o} : op'[p] = op[p]
      /\ op'[o].kind = "apply" /\ op'[o].target = op[o].target
      /\ op'[o].phase = "restart" /\ op'[o].at = op[o].at
  BY <1>1, <1>4, GotoIsCall DEF Phases
<1>6. lapse' \/ (Whole(backup.item)' /\ live' = Package(op'[o].target))
  BY <1>1, <1>3, <1>5 DEF Whole
<1>7. lapse' \/ FilesFollow(o)'
  BY <1>5, <1>6 DEF FilesFollow, In
<1>8. OneWorks' /\ op' \in [Ops -> Calls] /\ (lapse' \/ \A p \in Ops : FilesFollow(p)')
  BY <1>1, <1>2, <1>5, <1>7, MoveKeeps
<1>9. staging' \in [Items -> Contents]
  BY <1>1 DEF Nothing, Contents
<1>10. UpdateTypeOK' /\ WayBack'
  BY <1>1, <1>4, <1>6, <1>8, <1>9 DEF UpdateTypeOK, bounds, WayBack
<1> QED
  BY <1>8, <1>10 DEF UpdateInv

-----------------------------------------------------------------------------
(* rollback().                                                             *)

LEMMA RollbackBeginsKeeps ==
  ASSUME UpdateInv, NEW o \in Ops, RollbackBegins(o)
  PROVE  UpdateInv'
<1>1. /\ op[o] = Resting /\ script = 0 /\ ops' = ops + 1
      /\ op' = [op EXCEPT ![o] = [Resting EXCEPT !.kind = "rollback", !.phase = "look"]]
      /\ UNCHANGED <<running, updating, disk, script, lapse>>
  BY DEF RollbackBegins, Call, UpdateInv, OneWorks
<1>2. op'[o] = [kind |-> "rollback", phase |-> "look", at |-> 0, dir |-> 0, target |-> Missing]
  BY <1>1 DEF Resting, UpdateInv, UpdateTypeOK
<1>3. op'[o] \in Calls /\ op'[o] \in Fields
  BY <1>2 DEF Calls, Fields, Phases
<1>4. op \in [Ops -> Fields] /\ op \in [Ops -> Calls] /\ ops \in Nat
  BY CallFields DEF UpdateInv, UpdateTypeOK
<1>5. op' \in [Ops -> Calls] /\ \A p \in Ops \ {o} : op'[p] = op[p]
  BY <1>1, <1>3, <1>4
<1>6. ~Working(o)' /\ \A p \in Ops \ {o} : Working(p)' <=> Working(p)
  BY <1>2, <1>5 DEF Working
<1>7. OneWorks'
  BY <1>1, <1>6 DEF UpdateInv, OneWorks
<1>8. ASSUME ~lapse', NEW p \in Ops PROVE FilesFollow(p)'
  <2>1. CASE p = o
    BY <1>6, <2>1, IdleFollows
  <2>2. CASE p # o
    BY <1>1, <1>5, <1>8, <2>2, BystanderFollows DEF UpdateInv
  <2> QED
    BY <2>1, <2>2
<1>9. UpdateTypeOK' /\ WayBack'
  BY <1>1, <1>4, <1>5 DEF UpdateInv, UpdateTypeOK, WayBack, disk, Whole
<1> QED
  BY <1>7, <1>8, <1>9 DEF UpdateInv

LEMMA LookEndsKeeps ==
  ASSUME UpdateInv, NEW o \in Ops, LookEnds(o)
  PROVE  UpdateInv'
<1>1. /\ op[o].kind = "rollback" /\ op[o].phase = "look" /\ op[o].target = Missing
      /\ UNCHANGED <<running, disk, script, bounds>>
      /\ lapse' = (lapse \/ (backup.name # 0 /\ \E p \in Ops : Working(p)))
  BY CallFields DEF LookEnds, In, UpdateInv
<1>2. op \in [Ops -> Fields] /\ op \in [Ops -> Calls] /\ backup.name \in Nat
  BY CallFields DEF UpdateInv, UpdateTypeOK
<1>3. script = 0
  BY <1>1 DEF UpdateInv, OneWorks, Resting
<1>4. WayBack'
  BY <1>1 DEF UpdateInv, WayBack, disk, Whole
<1>5. CASE backup.name = 0
  <2>1. op' = [op EXCEPT ![o] = Resting] /\ UNCHANGED updating /\ lapse' = lapse
    BY <1>1, <1>5 DEF LookEnds, UpdateInv, UpdateTypeOK
  <2>2. op' \in [Ops -> Calls] /\ op'[o] = Resting /\ \A p \in Ops \ {o} : op'[p] = op[p]
    BY <1>2, <2>1 DEF Calls
  <2>3. ~Working(o)' /\ \A p \in Ops \ {o} : Working(p)' <=> Working(p)
    BY <2>2 DEF Working, Resting
  <2>4. OneWorks'
    BY <1>1, <1>3, <2>1, <2>3 DEF UpdateInv, OneWorks
  <2>5. ASSUME ~lapse', NEW p \in Ops PROVE FilesFollow(p)'
    <3>1. CASE p = o
      BY <2>3, <3>1, IdleFollows
    <3>2. CASE p # o
      BY <1>1, <2>1, <2>2, <2>5, <3>2, BystanderFollows DEF UpdateInv
    <3> QED
      BY <3>1, <3>2
  <2>6. UpdateTypeOK'
    BY <1>1, <2>1, <2>2 DEF UpdateInv, UpdateTypeOK, disk, bounds
  <2> QED
    BY <1>4, <2>4, <2>5, <2>6 DEF UpdateInv
<1>6. CASE backup.name # 0
  <2>1. /\ updating' = TRUE
        /\ op' = [op EXCEPT ![o].phase = "restore", ![o].at = 1, ![o].dir = backup.name]
    BY <1>6 DEF LookEnds
  <2>2. /\ op' \in [Ops -> Fields] /\ \A p \in Ops \ {o} : op'[p] = op[p]
        /\ op'[o] = [kind |-> op[o].kind, phase |-> "restore", at |-> 1, dir |-> backup.name, target |-> op[o].target]
    <3> DEFINE new == Turned(op[o], "restore", backup.name)
    <3>1. op[o] \in Fields /\ "restore" \in Phases /\ backup.name \in Nat
      BY <1>2 DEF Phases
    <3>2. /\ new = [kind |-> op[o].kind, phase |-> "restore", at |-> 1, dir |-> backup.name, target |-> op[o].target]
          /\ new \in Fields
      BY <3>1, TurnedFields
    <3>3. op' = [op EXCEPT ![o] = new]
      BY <2>1 DEF Turned
    <3> HIDE DEF new
    <3>4. op' \in [Ops -> Fields] /\ op'[o] = new /\ \A p \in Ops \ {o} : op'[p] = op[p]
      BY <1>2, <3>2, <3>3, OneCall
    <3> QED
      BY <3>2, <3>4
  <2>3. op'[o] \in Calls
    BY <1>1, <1>2, <2>2, ListOfItems DEF Calls
  <2>4. FilesFollow(o)'
    BY <2>2 DEF FilesFollow, In
  <2>5. lapse' \/ \A p \in Ops \ {o} : ~Working(p)
    BY <1>1, <1>6
  <2>6. OneWorks' /\ op' \in [Ops -> Calls] /\ (lapse' \/ \A p \in Ops : FilesFollow(p)')
    BY <1>1, <1>3, <2>2, <2>3, <2>4, <2>5, MoveKeeps
  <2>7. UpdateTypeOK'
    BY <1>1, <2>1, <2>6 DEF UpdateInv, UpdateTypeOK, disk, bounds
  <2> QED
    BY <1>4, <2>6, <2>7 DEF UpdateInv
<1> QED
  BY <1>5, <1>6

\* What a rollback finds, it finds among the files there are.
LEMMA BackedIsFile ==
  ASSUME UpdateTypeOK, NEW o \in Ops, op[o].at \in 1..N
  PROVE  Item(o) \in Items /\ Backed(o) \in Contents
BY ListOfItems DEF UpdateTypeOK, Backed, Item, Contents

\* Nothing has to follow a rollback but a whole backup, once it has begun to restore.
LEMMA RestoreFollows ==
  ASSUME NEW o \in Ops, op'[o].kind = "rollback", op'[o].phase \in {"restore", "restoring", "restart"},
         op'[o].phase = "restoring" => Whole(backup.item)'
  PROVE  FilesFollow(o)'
BY DEF FilesFollow, In

LEMMA RestoreBeginsKeeps ==
  ASSUME UpdateInv, NEW o \in Ops, RestoreBegins(o)
  PROVE  UpdateInv'
<1>1. /\ op[o].kind = "rollback" /\ op[o].phase = "restore" /\ op[o].at \in 1..N /\ Working(o)
      /\ UNCHANGED <<running, updating, staging, backup, script, bounds>>
      /\ lapse' = (lapse \/ ~Whole(backup.item))
  BY CallFields DEF RestoreBegins, In, Working, UpdateInv
<1>2. script = 0 /\ (lapse \/ \A p \in Ops \ {o} : ~Working(p))
  BY <1>1, Alone
<1>3. UpdateTypeOK /\ live \in [Items -> Contents]
  BY DEF UpdateInv, UpdateTypeOK
<1>4. lapse' \/ Whole(backup.item)'
  BY <1>1 DEF Whole
<1>5. /\ op' \in [Ops -> Fields] /\ op'[o] \in Calls /\ \A p \in Ops \ {o} : op'[p] = op[p]
      /\ op'[o].kind = "rollback" /\ op'[o].phase \in {"restore", "restoring", "restart"}
      /\ live' \in [Items -> Contents]
  <2>1. CASE Backed(o) = Missing
    <3>1. NextItem(o, "restore", "restart") /\ UNCHANGED live
      BY <2>1 DEF RestoreBegins
    <3> QED
      BY <1>1, <1>3, <3>1, NextItemIsCall DEF Phases
  <2>2. CASE Backed(o) # Missing
    <3>1. Goto(o, "restoring") /\ live' = [live EXCEPT ![Item(o)] = Torn]
      BY <2>2 DEF RestoreBegins
    <3>2. live' \in [Items -> Contents]
      BY <1>1, <1>3, <3>1, BackedIsFile DEF Contents
    <3> QED
      BY <1>1, <1>3, <3>1, <3>2, GotoIsCall DEF Phases
  <2> QED
    BY <2>1, <2>2
<1>6. lapse' \/ FilesFollow(o)'
  BY <1>4, <1>5, RestoreFollows
<1>7. OneWorks' /\ op' \in [Ops -> Calls] /\ (lapse' \/ \A p \in Ops : FilesFollow(p)')
  BY <1>1, <1>2, <1>5, <1>6, MoveKeeps
<1>8. UpdateTypeOK' /\ WayBack'
  BY <1>1, <1>3, <1>4, <1>5, <1>7 DEF UpdateTypeOK, bounds, WayBack
<1> QED
  BY <1>7, <1>8 DEF UpdateInv

LEMMA RestoreEndsKeeps ==
  ASSUME UpdateInv, NEW o \in Ops, RestoreEnds(o)
  PROVE  UpdateInv'
<1>1. /\ op[o].kind = "rollback" /\ op[o].phase = "restoring" /\ op[o].at \in 1..N /\ Working(o)
      /\ UNCHANGED <<running, staging, backup, script, lapse, bounds>>
  BY CallFields DEF RestoreEnds, In, Working, UpdateInv
<1>2. script = 0 /\ (lapse \/ \A p \in Ops \ {o} : ~Working(p))
  BY <1>1, Alone
<1>3. UpdateTypeOK /\ live \in [Items -> Contents]
  BY DEF UpdateInv, UpdateTypeOK
<1>4. lapse' \/ Whole(backup.item)'
  BY <1>1 DEF UpdateInv, FilesFollow, Whole
<1>5. CASE Backed(o) = Missing
  BY <1>1, <1>5, FinishKeeps DEF RestoreEnds, disk, bounds
<1>6. CASE Backed(o) # Missing
  <2>1. /\ live' = [live EXCEPT ![Item(o)] = Backed(o)]
        /\ NextItem(o, "restore", "restart") /\ UNCHANGED updating
    BY <1>6 DEF RestoreEnds
  <2>2. live' \in [Items -> Contents]
    BY <1>1, <1>3, <2>1, BackedIsFile
  <2>3. /\ op' \in [Ops -> Fields] /\ op'[o] \in Calls /\ \A p \in Ops \ {o} : op'[p] = op[p]
        /\ op'[o].kind = "rollback" /\ op'[o].phase \in {"restore", "restart"}
    BY <1>1, <1>3, <2>1, NextItemIsCall DEF Phases
  <2>4. FilesFollow(o)'
    BY <2>3, RestoreFollows
  <2>5. OneWorks' /\ op' \in [Ops -> Calls] /\ (lapse' \/ \A p \in Ops : FilesFollow(p)')
    BY <1>1, <1>2, <2>3, <2>4, MoveKeeps
  <2>6. UpdateTypeOK' /\ WayBack'
    BY <1>1, <1>3, <1>4, <2>1, <2>2, <2>5 DEF UpdateTypeOK, bounds, WayBack
  <2> QED
    BY <2>5, <2>6 DEF UpdateInv
<1> QED
  BY <1>5, <1>6

-----------------------------------------------------------------------------
(* What both end in, what cuts them short, and the script.                 *)

LEMMA StartsIsVersion ==
  ASSUME UpdateTypeOK
  PROVE  Starts \in Versions \union {Missing}
BY ListOfItems, UpdateAssumption DEF UpdateTypeOK, Starts, Contents, N

\* Nobody is at work on the files.
LEMMA AllRest ==
  ASSUME UpdateInv, op' = [p \in Ops |-> Resting], UNCHANGED <<disk, lapse>>,
         running' \in Versions \union {Missing}, updating' = FALSE, ops' \in Nat,
         script' = 0 \/ (script' = 1 /\ running' = Missing)
  PROVE  UpdateInv'
<1>1. op' \in [Ops -> Calls] /\ \A p \in Ops : op'[p] = Resting
  BY DEF Calls
<1>2. OneWorks'
  BY <1>1 DEF OneWorks, Working, Resting
<1>3. \A p \in Ops : FilesFollow(p)'
  BY <1>1, IdleFollows DEF Working, Resting
<1>4. UpdateTypeOK'
  <2>1. script' \in 0..(Len(SWAP_ITEMS) + 1)
    BY ListOfItems DEF N
  <2>2. updating' \in BOOLEAN
    OBVIOUS
  <2> QED
    BY <1>1, <2>1, <2>2 DEF UpdateInv, UpdateTypeOK, disk
<1>5. WayBack'
  BY DEF UpdateInv, WayBack, disk, Whole
<1> QED
  BY <1>2, <1>3, <1>4, <1>5 DEF UpdateInv

LEMMA RestartKeeps ==
  ASSUME UpdateInv, Restarted, script' = 0, UNCHANGED <<disk, lapse, ops>>
  PROVE  UpdateInv'
<1>1. ops \in Nat /\ Starts \in Versions \union {Missing}
  BY StartsIsVersion DEF UpdateInv, UpdateTypeOK
<1> QED
  BY <1>1, AllRest DEF Restarted

\* While the script runs no call does; it restores from a backup that is whole, or lapses.
LEMMA ScriptKeeps ==
  ASSUME UpdateInv, ScriptBegins \/ ScriptRestores \/ ScriptEnds
  PROVE  UpdateInv'
<1>1. UpdateTypeOK /\ ops \in Nat /\ N \in Nat \ {0}
  BY ListOfItems DEF UpdateInv, UpdateTypeOK
<1>2. CASE ScriptBegins
  <2>1. ops' \in Nat
    BY <1>1, <1>2 DEF ScriptBegins
  <2> QED
    BY <1>2, <2>1, AllRest DEF ScriptBegins
<1>3. CASE ScriptRestores
  <2>1. /\ script \in 1..N /\ script # 0 /\ UNCHANGED <<process, staging, backup, bounds>>
    BY <1>1, <1>3 DEF ScriptRestores, N
  <2>2. running = Missing /\ \A o \in Ops : op[o] = Resting
    BY <2>1 DEF UpdateInv, OneWorks
  <2>3. OneWorks' /\ \A o \in Ops : FilesFollow(o)'
    <3>1. \A o \in Ops : op'[o] = Resting /\ ~Working(o)'
      BY <2>1, <2>2 DEF process, Working, Resting
    <3> QED
      BY <2>1, <2>2, <3>1, IdleFollows DEF OneWorks, process
  <2>4. SWAP_ITEMS[script] \in Items
    BY <2>1, ListOfItems
  <2>5. /\ live' \in [Items -> Contents] /\ script' \in 0..(N + 1) /\ lapse' \in BOOLEAN
        /\ lapse' \/ Whole(backup.item)' \/ (live' = live /\ lapse' = lapse)
    <3> DEFINE i == SWAP_ITEMS[script]
    <3>1. CASE i \notin ScriptItems \/ backup.item[i] = Missing
      BY <1>1, <1>3, <2>1, <3>1 DEF ScriptRestores, UpdateTypeOK
    <3>2. CASE ~(i \notin ScriptItems \/ backup.item[i] = Missing)
      <4>1. lapse' = (lapse \/ ~Whole(backup.item)) /\ backup' = backup
        BY <1>3, <2>1, <3>2 DEF ScriptRestores
      <4>2. live' \in {[live EXCEPT ![i] = Torn], [live EXCEPT ![i] = backup.item[i]]}
            /\ script' \in {script, script + 1}
        BY <1>3, <3>2 DEF ScriptRestores
      <4>3. live' \in [Items -> Contents]
        BY <1>1, <2>4, <4>2 DEF UpdateTypeOK, Contents
      <4>4. lapse' \in BOOLEAN /\ (lapse' \/ Whole(backup.item)')
        BY <1>1, <4>1 DEF UpdateTypeOK, Whole
      <4>5. script' \in 0..(N + 1)
        BY <1>1, <2>1, <4>2
      <4> QED
        BY <4>3, <4>4, <4>5
    <3> QED
      BY <3>1, <3>2
  <2>6. UpdateTypeOK'
    BY <1>1, <2>1, <2>5 DEF UpdateTypeOK, process, bounds, N
  <2>7. WayBack'
    BY <2>1, <2>5 DEF UpdateInv, WayBack, Whole
  <2> QED
    BY <2>3, <2>6, <2>7 DEF UpdateInv
<1>4. CASE ScriptEnds
  <2>1. script # 0 /\ script' = 0 /\ running' = Starts /\ UNCHANGED <<updating, op, disk, lapse, bounds>>
    BY <1>1, <1>4 DEF ScriptEnds, N
  <2>2. \A o \in Ops : op[o] = Resting
    BY <2>1 DEF UpdateInv, OneWorks
  <2>3. OneWorks' /\ \A o \in Ops : FilesFollow(o)'
    <3>1. \A o \in Ops : op'[o] = Resting /\ ~Working(o)'
      BY <2>1, <2>2 DEF Working, Resting
    <3> QED
      BY <2>1, <3>1, IdleFollows DEF OneWorks
  <2>4. UpdateTypeOK' /\ WayBack'
    BY <1>1, <2>1, StartsIsVersion DEF UpdateInv, UpdateTypeOK, WayBack, disk, bounds, Whole, N
  <2> QED
    BY <2>3, <2>4 DEF UpdateInv
<1> QED
  BY <1>2, <1>3, <1>4

-----------------------------------------------------------------------------
(* The theorems.                                                           *)

LEMMA UpdateKeeps == UpdateInv /\ [UpdateNext]_updateVars => UpdateInv'
<1> SUFFICES ASSUME UpdateInv, [UpdateNext]_updateVars PROVE UpdateInv'
  OBVIOUS
<1>1. ASSUME NEW o \in Ops, ApplyBegins(o) \/ RollbackBegins(o) PROVE UpdateInv'
  BY <1>1, ApplyBeginsKeeps, RollbackBeginsKeeps
<1>2. ASSUME NEW o \in Ops, ApplyNext(o) PROVE UpdateInv'
  <2>1. CASE FetchFails(o)
    <3>1. Working(o)
      BY <2>1 DEF FetchFails, In, Working
    <3> QED
      BY <2>1, <3>1, FinishKeeps DEF FetchFails, bounds
  <2> QED
    BY <1>2, <2>1, StagedKeeps, PruneKeeps, CopyBeginsKeeps, CopyEndsKeeps, RemoveLiveKeeps, RenameKeeps,
       CleanUpKeeps DEF ApplyNext
<1>3. ASSUME NEW o \in Ops, LookEnds(o) \/ RestoreBegins(o) \/ RestoreEnds(o) PROVE UpdateInv'
  BY <1>3, LookEndsKeeps, RestoreBeginsKeeps, RestoreEndsKeeps
<1>4. ASSUME NEW o \in Ops, ServiceRestart(o) PROVE UpdateInv'
  <2>1. Working(o)
    BY <1>4 DEF ServiceRestart, Working
  <2>2. script = 0
    BY <2>1, Alone
  <2> QED
    BY <1>4, <2>2, RestartKeeps DEF ServiceRestart, bounds
<1>5. ASSUME NEW o \in Ops, StepFails(o) PROVE UpdateInv'
  <2>1. Working(o)
    BY <1>5 DEF StepFails, Working
  <2> QED
    BY <1>5, <2>1, FinishKeeps DEF StepFails
<1>6. CASE PowerFails
  BY <1>6, RestartKeeps DEF PowerFails
<1>7. CASE ScriptBegins \/ ScriptRestores \/ ScriptEnds
  BY <1>7, ScriptKeeps
<1>8. CASE UNCHANGED updateVars
  <2>1. UpdateTypeOK' /\ WayBack' /\ OneWorks'
    BY <1>8
    DEF UpdateInv, UpdateTypeOK, WayBack, OneWorks, updateVars, process, disk, bounds, Whole, Working
  <2>2. ASSUME ~lapse', NEW p \in Ops PROVE FilesFollow(p)'
    BY <1>8, <2>2, BystanderFollows DEF UpdateInv, updateVars, process
  <2> QED
    BY <2>1, <2>2 DEF UpdateInv
<1> QED
  BY <1>1, <1>2, <1>3, <1>4, <1>5, <1>6, <1>7, <1>8 DEF UpdateNext, OpNext

(* Between the live files and the backup there is a whole version at every moment,    *)
(* wherever a step fails, the power does, or the two scripts are started, for any list *)
(* of items: the files are where every call under way left them.                      *)
THEOREM ThereIsAWayBack == UpdateSpec => []UpdateInv
<1>1. UpdateInit => UpdateInv
  BY InitHolds
<1>2. UpdateInv /\ [UpdateNext]_updateVars => UpdateInv'
  BY UpdateKeeps
<1> QED
  BY <1>1, <1>2, PTL DEF UpdateSpec

\* A call that ends its update finds the files of its version, and the process starts.
LEMMA RestartTakesEffect ==
  ASSUME UpdateInv, NEW o \in Ops, In(o, "apply", "restart"), ServiceRestart(o), ~lapse
  PROVE  running' = op[o].target /\ \A i \in Ships[running'] : live[i] = running'
<1>1. op[o].target \in Versions
  BY CallFields DEF In, UpdateInv
<1>2. live = Package(op[o].target)
  BY DEF UpdateInv, FilesFollow
<1>3. \A i \in Items : live[i] = IF i \in Ships[op[o].target] THEN op[o].target ELSE Missing
  BY <1>2 DEF Package
<1>4. ScriptItems \subseteq Ships[op[o].target] /\ Ships[op[o].target] \subseteq Items
  BY <1>1, UpdateAssumption
<1>5. \A i \in ScriptItems : live[i] = op[o].target
  BY <1>3, <1>4
<1>6. op[o].target \notin {Missing, Torn}
  BY <1>1, UpdateAssumption
<1>7. Starts = op[o].target
  BY <1>5, <1>6, UpdateAssumption DEF Starts
<1>8. running' = op[o].target
  BY <1>7 DEF ServiceRestart, Restarted
<1> QED
  BY <1>3, <1>4, <1>8

(* The process that an update starts has the version it staged, on whole files. *)
THEOREM AnUpdateArrives == UpdateSpec => UpdateTakesEffect
<1>1. UpdateInv /\ [UpdateNext]_updateVars
        => [\A o \in Ops : In(o, "apply", "restart") /\ ServiceRestart(o) /\ ~lapse
              => running' = op[o].target /\ \A i \in Ships[running'] : live[i] = running']_updateVars
  BY RestartTakesEffect
<1> QED
  BY <1>1, ThereIsAWayBack, PTL DEF UpdateSpec, UpdateTakesEffect
=============================================================================
