---------------------------- MODULE StacksProofs ----------------------------
(***************************************************************************)
(* The lock of a stack and its history of versions, for any requests,      *)
(* contents, bounds and scenarios.                                         *)
(***************************************************************************)
EXTENDS Stacks, FiniteSetTheorems, TLAPS

(* Whoever is at a command or looks at the lock holds it, and it is held   *)
(* by nobody else.                                                         *)
LockInv ==
  /\ pc \in [Requests -> Steps]
  /\ \A r \in Requests : pc[r] \in Holding => lock = r
  /\ lock # None => lock \in Requests /\ pc[lock] \in Holding

(* A request that moves from a place outside Holding to another one, the   *)
(* lock being left alone, disturbs nothing.                                *)
LEMMA Bystander ==
  ASSUME LockInv, NEW r \in Requests, NEW step \in Steps \ Holding,
         pc[r] \notin Holding, Goto(r, step), UNCHANGED lock
  PROVE  LockInv'
<1>1. pc' \in [Requests -> Steps] /\ pc'[r] = step
      /\ \A s \in Requests \ {r} : pc'[s] = pc[s]
  BY DEF LockInv, Goto
<1>2. QED BY <1>1 DEF LockInv

(* A request that lets the lock go.                                        *)
LEMMA Leaving ==
  ASSUME LockInv, NEW r \in Requests, NEW step \in Steps \ Holding,
         pc[r] \in Holding, Goto(r, step), lock' = None
  PROVE  LockInv'
<1>1. pc' \in [Requests -> Steps] /\ pc'[r] = step
      /\ \A s \in Requests \ {r} : pc'[s] = pc[s]
  BY DEF LockInv, Goto
<1>2. \A s \in Requests \ {r} : pc[s] \notin Holding
  BY DEF LockInv
<1>3. QED BY <1>1, <1>2 DEF LockInv

(* A request that takes the lock.                                          *)
LEMMA Entering ==
  ASSUME LockInv, NEW r \in Requests, NEW step \in Holding,
         lock = None, Goto(r, step), lock' = r
  PROVE  LockInv'
<1>1. pc' \in [Requests -> Steps] /\ pc'[r] = step
      /\ \A s \in Requests \ {r} : pc'[s] = pc[s]
  BY DEF LockInv, Goto, Steps
<1>2. \A s \in Requests : pc[s] \notin Holding
  BY NoneAssumption DEF LockInv
<1>3. QED BY <1>1, <1>2 DEF LockInv

LEMMA LockStep == ASSUME LockInv, [Next]_vars PROVE LockInv'
<1>1. CASE UNCHANGED vars BY <1>1 DEF LockInv, vars
<1>2. ASSUME NEW r \in Requests,
             \/ Arrive(r) \/ ReadOld(r) \/ Probe(r) \/ Probed(r) \/ Save(r)
             \/ Target(r) \/ Current(r) \/ Write(r) \/ Record(r)
             \/ Try(r) \/ Fails(r) \/ FileRefused(r) \/ PullEnds(r) \/ UpEnds(r) \/ ActEnds(r)
      PROVE  LockInv'
  <2> USE DEF Steps, Holding, Commands
  <2>1. CASE Arrive(r)
    <3>1. PICK q \in Asked : Goto(r, CASE q.kind = "deploy" -> "old" [] q.kind = "act" -> "act"
                                       [] OTHER -> "probe")
      BY <2>1 DEF Arrive
    <3>2. \E step \in {"old", "act", "probe"} : Goto(r, step) BY <3>1
    <3>3. pc[r] \notin Holding /\ UNCHANGED lock BY <2>1 DEF Arrive
    <3>4. QED BY <3>2, <3>3, Bystander
  <2>2. CASE ReadOld(r)
    <3>1. \E step \in {"write", "record"} : Goto(r, step) BY <2>2 DEF ReadOld
    <3>2. QED BY <2>2, <3>1, Bystander DEF ReadOld
  <2>3. CASE Probe(r)
    <3>1. CASE lock = None BY <2>3, <3>1, Entering DEF Probe
    <3>2. CASE lock # None BY <2>3, <3>2, Bystander DEF Probe
    <3>3. QED BY <3>1, <3>2
  <2>4. CASE Probed(r)
    <3>1. \E step \in {"save", "pull", "target"} : Goto(r, step) BY <2>4 DEF Probed
    <3>2. QED BY <2>4, <3>1, Leaving DEF Probed
  <2>5. CASE Save(r) BY <2>5, Bystander DEF Save
  <2>6. CASE Target(r)
    <3>1. \E step \in {"current", "done"} : Goto(r, step) BY <2>6 DEF Target
    <3>2. QED BY <2>6, <3>1, Bystander DEF Target
  <2>7. CASE Current(r)
    <3>1. Unrecorded(r) \in {"write", "done"} BY DEF Recorded, Unrecorded
    <3>2. \E step \in {"record", "write", "done"} : Goto(r, step) BY <2>7, <3>1 DEF Current
    <3>3. QED BY <2>7, <3>2, Bystander DEF Current
  <2>8. CASE Write(r)
    <3>1. \E step \in {"pull", "up", "done"} : Goto(r, step) BY <2>8 DEF Write
    <3>2. QED BY <2>8, <3>1, Bystander DEF Write
  <2>9. CASE Record(r)
    <3>1. Recorded(r) \in {"write", "done"} /\ Unrecorded(r) \in {"write", "done"}
      BY DEF Recorded, Unrecorded
    <3>2. \E step \in {"write", "done", "insert", "trim", "prune"} : Goto(r, step)
      BY <2>9, <3>1 DEF Record, RecordRead, RecordInsert, TrimRead, Prune
    <3>3. pc[r] \notin Holding /\ UNCHANGED lock
      BY <2>9 DEF Record, RecordRead, RecordInsert, TrimRead, Prune
    <3>4. QED BY <3>2, <3>3, Bystander
  <2>10. CASE Try(r)
    <3>1. CASE TryLock(r) /\ lock = None
      <4>1. Goto(r, CASE pc[r] = "pull" -> "pulling" [] pc[r] = "up" -> "upping"
                      [] pc[r] = "act" -> "acting")
        BY <2>10, <3>1 DEF Try
      <4>2. \E step \in Commands : Goto(r, step) BY <2>10, <4>1 DEF Try
      <4>3. QED BY <3>1, <4>2, Entering DEF TryLock
    <3>2. CASE lock # None
      <4>1. pc[r] \notin Holding /\ Goto(r, "done") /\ UNCHANGED lock
        BY <2>10, <3>2 DEF Try, TryLock
      <4>2. QED BY <4>1, Bystander
    <3>3. QED BY <2>10, <3>1, <3>2 DEF Try, TryLock
  <2>11. CASE Fails(r) BY <2>11, Leaving DEF Fails
  <2>11a. CASE FileRefused(r) BY <2>11a, Leaving DEF FileRefused
  <2>12. CASE PullEnds(r) BY <2>12, Leaving DEF PullEnds
  <2>13. CASE UpEnds(r)
    <3>1. \E step \in {"record", "current"} : Goto(r, step) BY <2>13 DEF UpEnds
    <3>2. QED BY <2>13, <3>1, Leaving DEF UpEnds
  <2>14. CASE ActEnds(r) BY <2>14, Leaving DEF ActEnds
  <2>15. QED BY <1>2, <2>1, <2>2, <2>3, <2>4, <2>5, <2>6, <2>7, <2>8, <2>9, <2>10, <2>11, <2>11a, <2>12,
                <2>13, <2>14
<1>3. QED BY <1>1, <1>2 DEF Next

(* Whatever requests come, in whatever order and with whatever failures,   *)
(* one docker command at a time runs on a stack, and the lock is never     *)
(* left behind (tryStackLock and the deferred releases).                   *)
THEOREM CommandsAreSerial == Spec => []OneCommand
<1>1. Init => LockInv BY DEF Init, LockInv, Holding, Commands, Steps
<1>2. LockInv /\ [Next]_vars => LockInv' BY LockStep
<1>3. LockInv => OneCommand BY DEF LockInv, OneCommand, Holding
<1>4. QED BY <1>1, <1>2, <1>3, PTL DEF Spec

(***************************************************************************)
(* The history of versions.                                                *)
(***************************************************************************)
(* Contents: what is written, recorded or loaded is one.                   *)
TextInv ==
  /\ \A r \in Requests : req[r].kind \in {"edit", "rollback"} => req[r].text \in Texts
  /\ \A r \in Requests : pc[r] = "save" => req[r].kind = "edit"
  /\ \A r \in Requests : pc[r] \in {"probe", "probed"} => req[r].kind = "edit" \/ copy # None
  /\ \A r \in Requests : pc[r] \in {"target", "current", "pull", "pulling", "up", "upping"} => copy # None
  /\ \A r \in Requests : pc[r] \in {"record", "insert"} => rec[r].text # None

Flawless == faults = mix.faults

(* Rows that can be put in order: every id is one row's.                   *)
Rows(rows) ==
  /\ IsFiniteSet(rows)
  /\ \A v \in rows : v.id \in Nat /\ v.num \in Nat
  /\ \A u, v \in rows : u.id = v.id => u = v

(* What a recorder keeps is not too much, and while nothing has failed     *)
(* more rows than that are there only until it is done.                    *)
BoundInv ==
  /\ mix.faults \in Nat /\ faults <= mix.faults
  /\ Rows(versions)
  /\ \A r \in Requests :
       pc[r] = "prune" => IsFiniteSet(rec[r].keep) /\ Cardinality(rec[r].keep) <= KeepN
  /\ Flawless /\ (\A r \in Requests : pc[r] \notin {"trim", "prune"}) => Cardinality(versions) <= KeepN

(* The newest row has this content.                                        *)
IsNewest(v, rows) == v \in rows /\ \A u \in rows \ {v} : Newer(v, u)
Tells(text) == \E v \in versions : IsNewest(v, versions) /\ v.text = text

Truthful == running # None => Tells(running)

(* What a request that is alone knows where it is: before its command it   *)
(* carries the content that it is about to overwrite to the history, after *)
(* it the one that runs.                                                   *)
Carried(r) == IF stage[r] = "before" THEN copy ELSE running
Knows(r) ==
  /\ pc[r] \in {"idle", "old", "probe", "probed", "save", "target", "write", "pull", "pulling", "up", "upping",
                "act", "acting"} => stage[r] = "before"
  /\ pc[r] \in {"old", "probe", "probed", "save", "target", "act", "acting"} /\ Flawless => Truthful
  /\ pc[r] = "current" /\ stage[r] = "after" => copy = running
  /\ pc[r] \in {"record", "insert"} => rec[r].text = Carried(r)
  /\ pc[r] \in {"trim", "prune"} => Tells(Carried(r))
  /\ pc[r] = "insert" /\ versions = {} => rec[r].base = 0
  /\ pc[r] = "insert" /\ versions # {} => \E v \in versions : IsNewest(v, versions) /\ rec[r].base = v.num
  /\ pc[r] = "prune" => rec[r].keep = {v.id : v \in Top(versions)}
  /\ pc[r] = "write" /\ (req[r].kind = "rollback" \/ Flawless) /\ copy # None => copy \in {v.text : v \in versions}
  /\ pc[r] \in {"pull", "pulling", "up", "upping"} /\ req[r].kind = "deploy" => copy = Template
  /\ pc[r] = "upping" => loaded[r] = copy

(* Without a failure no file has been cut short.                           *)
Sound(text) == text # Torn
TornInv == Flawless =>
  /\ Sound(copy) /\ \A v \in versions : Sound(v.text)
  /\ \A r \in Requests : Sound(req[r].text) /\ Sound(rec[r].text) /\ Sound(loaded[r])

(* Requests that come one by one.                                          *)
SoloInv == ~mix.overlap =>
  /\ \A r, s \in Requests : pc[r] \notin {"idle", "done"} /\ pc[s] \notin {"idle", "done"} => r = s
  /\ Settled /\ Flawless => Truthful
  /\ \A r \in Requests : Knows(r)

(***************************************************************************)
(* Rows in order.                                                          *)
(***************************************************************************)
Newers(v, rows) == {u \in rows : Newer(u, v)}

LEMMA InOrder ==
  ASSUME NEW rows, Rows(rows), NEW u \in rows, NEW v \in rows, NEW w \in rows
  PROVE  /\ ~Newer(u, u)
         /\ u # v => Newer(u, v) \/ Newer(v, u)
         /\ ~(Newer(u, v) /\ Newer(v, u))
         /\ Newer(u, v) /\ Newer(v, w) => Newer(u, w)
<1>1. /\ u.id \in Nat /\ u.num \in Nat /\ v.id \in Nat /\ v.num \in Nat /\ w.id \in Nat /\ w.num \in Nat
      /\ u # v => u.id # v.id
  BY DEF Rows
<1>2. QED BY <1>1 DEF Newer

(* A row has fewer newer ones than each row that it is newer than.         *)
LEMMA FewerNewers ==
  ASSUME NEW rows, Rows(rows), NEW u \in rows, NEW v \in rows, Newer(u, v)
  PROVE  /\ Cardinality(Newers(u, rows)) \in Nat /\ Cardinality(Newers(v, rows)) \in Nat
         /\ Cardinality(Newers(u, rows)) < Cardinality(Newers(v, rows))
<1>1. IsFiniteSet(Newers(v, rows)) /\ IsFiniteSet(Newers(u, rows))
  BY FS_Subset DEF Rows, Newers
<1>2. Newers(u, rows) \subseteq Newers(v, rows) BY InOrder DEF Newers
<1>3. u \in Newers(v, rows) /\ u \notin Newers(u, rows) BY InOrder DEF Newers
<1>4. /\ Cardinality(Newers(u, rows)) <= Cardinality(Newers(v, rows))
      /\ Cardinality(Newers(u, rows)) # Cardinality(Newers(v, rows))
  BY <1>1, <1>2, <1>3, FS_Subset
<1>5. Cardinality(Newers(u, rows)) \in Nat /\ Cardinality(Newers(v, rows)) \in Nat
  BY <1>1, FS_CardinalityType
<1>6. QED BY <1>4, <1>5

(* Rows with fewer than n newer ones are n at most, and if they are as     *)
(* many as that one of them has none.                                      *)
LEMMA Ranked ==
  ASSUME NEW rows, Rows(rows), NEW n \in Nat, NEW some \in SUBSET rows,
         \A v \in some : Cardinality(Newers(v, rows)) < n
  PROVE  /\ IsFiniteSet(some) /\ Cardinality(some) <= n
         /\ Cardinality(some) = n /\ n > 0 => \E v \in some : Cardinality(Newers(v, rows)) = 0
<1> DEFINE rank == [v \in some |-> Cardinality(Newers(v, rows))]
<1>1. ASSUME NEW v \in some PROVE rank[v] \in 0 .. n - 1
  <2>1. IsFiniteSet(Newers(v, rows)) BY FS_Subset DEF Rows, Newers
  <2>2. Cardinality(Newers(v, rows)) \in Nat BY <2>1, FS_CardinalityType
  <2>3. QED BY <2>2
<1>2. ASSUME NEW u \in some, NEW v \in some, rank[u] = rank[v] PROVE u = v
  <2>1. CASE Newer(u, v) BY <1>2, <2>1, FewerNewers
  <2>2. CASE Newer(v, u) BY <1>2, <2>2, FewerNewers
  <2>3. QED BY <2>1, <2>2, InOrder
<1>3. rank \in Injection(some, 0 .. n - 1) BY <1>1, <1>2 DEF Injection, IsInjective
<1>4. IsFiniteSet(0 .. n - 1) /\ Cardinality(0 .. n - 1) = n BY FS_Interval
<1>5. /\ IsFiniteSet(some) /\ Cardinality(some) <= n
      /\ Cardinality(some) = n <=> rank \in Surjection(some, 0 .. n - 1)
  BY <1>3, <1>4, FS_Injection
<1>6. ASSUME Cardinality(some) = n, n > 0 PROVE \E v \in some : rank[v] = 0
  <2>1. rank \in Surjection(some, 0 .. n - 1) BY <1>5, <1>6
  <2>2. 0 \in 0 .. n - 1 BY <1>6
  <2> HIDE DEF rank
  <2>3. QED BY <2>1, <2>2 DEF Surjection
<1>7. QED BY <1>5, <1>6

(* There is a newest row.                                                  *)
LEMMA SomeNewest ==
  ASSUME NEW rows, Rows(rows), rows # {} PROVE \E v \in rows : IsNewest(v, rows)
<1>1. PICK n : n = Cardinality(rows) OBVIOUS
<1>2. n \in Nat /\ n > 0 BY <1>1, FS_CardinalityType, FS_EmptySet DEF Rows
<1>3. ASSUME NEW v \in rows PROVE Cardinality(Newers(v, rows)) < n
  <2>1. v \notin Newers(v, rows) /\ Newers(v, rows) \in SUBSET rows BY InOrder DEF Newers
  <2>2. /\ Cardinality(Newers(v, rows)) <= n /\ Cardinality(Newers(v, rows)) # n
        /\ IsFiniteSet(Newers(v, rows))
    BY <1>1, <2>1, FS_Subset DEF Rows
  <2>3. Cardinality(Newers(v, rows)) \in Nat BY <2>2, FS_CardinalityType
  <2>4. QED BY <1>2, <2>2, <2>3
<1>4. PICK v \in rows : Cardinality(Newers(v, rows)) = 0 BY <1>1, <1>2, <1>3, Ranked
<1>5. IsFiniteSet(Newers(v, rows)) BY FS_Subset DEF Rows, Newers
<1>6. Newers(v, rows) = {} BY <1>4, <1>5, FS_EmptySet
<1>7. QED BY <1>6, InOrder DEF Newers, IsNewest

LEMMA OneNewest ==
  ASSUME NEW rows, Rows(rows), NEW v, IsNewest(v, rows) PROVE Newest(rows) = v
<1>1. \A u \in rows : IsNewest(u, rows) => u = v
  BY InOrder DEF IsNewest
<1>2. QED BY <1>1 DEF Newest, IsNewest

(* The rows that stackVersionKeepN leaves: not more than it says, and the  *)
(* newest stays the newest.                                                *)
LEMMA TopKeeps ==
  ASSUME NEW rows, Rows(rows)
  PROVE  /\ IsFiniteSet(Top(rows)) /\ Cardinality(Top(rows)) <= KeepN
         /\ \A v : IsNewest(v, rows) => IsNewest(v, Top(rows))
<1>1. /\ Top(rows) \in SUBSET rows
      /\ \A v \in rows : v \in Top(rows) <=> Cardinality(Newers(v, rows)) < KeepN
  BY DEF Top, Newers
<1>2. IsFiniteSet(Top(rows)) /\ Cardinality(Top(rows)) <= KeepN BY <1>1, Ranked, KeepAssumption
<1>3. ASSUME NEW v, IsNewest(v, rows) PROVE IsNewest(v, Top(rows))
  <2>1. Newers(v, rows) = {} BY <1>3, InOrder DEF IsNewest, Newers
  <2>2. Cardinality(Newers(v, rows)) < KeepN BY <2>1, FS_EmptySet, KeepAssumption
  <2>3. v \in Top(rows) BY <1>1, <1>3, <2>2 DEF IsNewest
  <2>4. QED BY <1>1, <1>3, <2>3 DEF IsNewest
<1>4. QED BY <1>2, <1>3

LEMMA FewerRows == ASSUME NEW rows, Rows(rows), NEW some \in SUBSET rows PROVE Rows(some)
BY FS_Subset DEF Rows

(* Rows with the ids of a few are as few.                                  *)
LEMMA AsFewIds ==
  ASSUME NEW rows, Rows(rows), NEW some \in SUBSET rows
  PROVE  LET ids == {v.id : v \in some} IN IsFiniteSet(ids) /\ Cardinality(ids) <= Cardinality(some)
<1> DEFINE ids == {v.id : v \in some}
           name == [v \in some |-> v.id]
<1>1. IsFiniteSet(some) BY FS_Subset DEF Rows
<1>2. name \in Surjection(some, ids) BY DEF Surjection
<1>3. QED BY <1>1, <1>2, FS_Surjection

LEMMA AsFewRows ==
  ASSUME NEW rows, Rows(rows), NEW ids, IsFiniteSet(ids)
  PROVE  Cardinality({v \in rows : v.id \in ids}) <= Cardinality(ids)
<1> DEFINE some == {v \in rows : v.id \in ids}
           name == [v \in some |-> v.id]
<1>1. name \in Injection(some, ids) BY DEF Injection, IsInjective, Rows
<1>2. QED BY <1>1, FS_Injection

(***************************************************************************)
(* Types.                                                                  *)
(***************************************************************************)
Notes == [text : Texts \cup {None}, base : Nat, keep : SUBSET (1 .. nextId - 1)]

LEMMA NotesStay ==
  ASSUME TypeOK, NEW r \in Requests
  PROVE  /\ \A text \in Texts \cup {None} : [rec EXCEPT ![r].text = text] \in [Requests -> Notes]
         /\ \A base \in Nat : [rec EXCEPT ![r].base = base] \in [Requests -> Notes]
         /\ \A keep \in SUBSET (1 .. nextId - 1) : [rec EXCEPT ![r].keep = keep] \in [Requests -> Notes]
         /\ [rec EXCEPT ![r] = NoRecord] \in [Requests -> Notes]
<1>1. rec \in [Requests -> Notes] BY DEF TypeOK, Notes
<1>2. rec[r] \in Notes BY <1>1
<1>3. ASSUME NEW text \in Texts \cup {None} PROVE [rec EXCEPT ![r].text = text] \in [Requests -> Notes]
  <2>1. [rec[r] EXCEPT !.text = text] \in Notes BY <1>2 DEF Notes
  <2>2. QED BY <1>1, <2>1
<1>4. ASSUME NEW base \in Nat PROVE [rec EXCEPT ![r].base = base] \in [Requests -> Notes]
  <2>1. [rec[r] EXCEPT !.base = base] \in Notes BY <1>2 DEF Notes
  <2>2. QED BY <1>1, <2>1
<1>5. ASSUME NEW keep \in SUBSET (1 .. nextId - 1)
      PROVE  [rec EXCEPT ![r].keep = keep] \in [Requests -> Notes]
  <2>1. [rec[r] EXCEPT !.keep = keep] \in Notes BY <1>2 DEF Notes
  <2>2. QED BY <1>1, <2>1
<1>6. NoRecord \in Notes BY DEF Notes, NoRecord
<1>7. QED BY <1>1, <1>3, <1>4, <1>5, <1>6

(* Every step keeps the types.                                             *)
LEMMA TypeStep == ASSUME TypeOK, TextInv, Rows(versions), LockInv, [Next]_vars PROVE TypeOK'
<1>1. CASE UNCHANGED vars BY <1>1 DEF TypeOK, vars, store, local
<1>2. ASSUME NEW r \in Requests,
             \/ Arrive(r) \/ ReadOld(r) \/ Probe(r) \/ Probed(r) \/ Save(r)
             \/ Target(r) \/ Current(r) \/ Write(r) \/ Record(r)
             \/ Try(r) \/ Fails(r) \/ FileRefused(r) \/ PullEnds(r) \/ UpEnds(r) \/ ActEnds(r)
      PROVE  TypeOK'
  <2>0. pc' \in [Requests -> Steps] BY LockStep, <1>2 DEF LockInv, Next
  <2>a. ASSUME faults' = faults \/ Fault PROVE faults' \in Nat BY <2>a DEF TypeOK, Fault
  <2>b. ASSUME rec' \in [Requests -> Notes], UNCHANGED <<mix, versions, nextId, req>>,
               copy' \in Texts \cup {None}, running' \in Texts \cup {None},
               stage' \in [Requests -> {"before", "after"}], loaded' \in [Requests -> Texts \cup {None}],
               lock' \in Requests \cup {None}, faults' = faults \/ Fault
        PROVE  TypeOK'
    BY <2>0, <2>a, <2>b DEF TypeOK, Notes
  <2>c. rec \in [Requests -> Notes] BY DEF TypeOK, Notes
  <2>1. CASE Arrive(r)
    <3>1. PICK q \in Asked : req' = [req EXCEPT ![r] = q] BY <2>1 DEF Arrive
    <3>2. q \in [kind : Kinds \cup {None}, text : Texts \cup {None}, row : 0 .. nextId - 1]
      BY <3>1 DEF Asked, Kinds, TypeOK, Texts
    <3>3. req' \in [Requests -> [kind : Kinds \cup {None}, text : Texts \cup {None}, row : 0 .. nextId - 1]]
      BY <3>1, <3>2 DEF TypeOK
    <3>4. UNCHANGED <<mix, copy, versions, nextId, running, lock, rec, stage, loaded, faults>>
      BY <2>1 DEF Arrive, store
    <3>5. QED BY <2>0, <3>3, <3>4 DEF TypeOK
  <2>2. CASE ReadOld(r)
    <3>1. rec' \in [Requests -> Notes] BY <2>2, <2>c, NotesStay DEF ReadOld, TypeOK
    <3>2. QED BY <2>2, <2>b, <3>1 DEF ReadOld, TypeOK, store
  <2>3. CASE Probe(r) BY <2>3, <2>b, <2>c DEF Probe, TypeOK, store, local
  <2>4. CASE Probed(r) BY <2>4, <2>b, <2>c DEF Probed, TypeOK, store, local
  <2>5. CASE Save(r)
    <3>1. copy' \in Texts \cup {None} BY <2>5 DEF Save, TypeOK, Texts
    <3>2. QED BY <2>5, <2>b, <2>c, <3>1 DEF Save, TypeOK, local
  <2>6. CASE Target(r) BY <2>6, <2>b, <2>c DEF Target, TypeOK, store, local
  <2>7. CASE Current(r)
    <3>0. PICK text \in Texts \cup {None} : text = copy BY DEF TypeOK
    <3>a. rec' = rec \/ rec' = [rec EXCEPT ![r].text = text] BY <2>7, <3>0 DEF Current
    <3>1. rec' \in [Requests -> Notes] BY <2>c, <3>a, NotesStay
    <3>2. QED BY <2>7, <2>b, <3>1 DEF Current, TypeOK, store
  <2>8. CASE Write(r)
    <3>1. copy' \in Texts \cup {None} BY <2>8 DEF Write, TypeOK, Texts
    <3>2. QED BY <2>8, <2>b, <2>c, <3>1 DEF Write, TypeOK, local
  <2>9. CASE RecordRead(r)
    <3>1. PICK base : base = IF versions = {} THEN 0 ELSE Newest(versions).num OBVIOUS
    <3>2. base \in Nat
      <4>1. CASE versions # {}
        <5>1. PICK v \in versions : IsNewest(v, versions) BY <4>1, SomeNewest
        <5>2. QED BY <3>1, <4>1, <5>1, OneNewest DEF Rows
      <4>2. QED BY <3>1, <4>1
    <3>3. rec' = [rec EXCEPT ![r] = NoRecord] \/ rec' = [rec EXCEPT ![r].base = base]
      BY <2>9, <3>1 DEF RecordRead
    <3>4. rec' \in [Requests -> Notes] BY <3>2, <3>3, NotesStay
    <3>5. QED BY <2>9, <2>b, <3>4 DEF RecordRead, TypeOK, store
  <2>10. CASE RecordInsert(r)
    <3>1. rec' \in [Requests -> Notes] BY <2>10, NotesStay DEF RecordInsert
    <3>2. faults' \in Nat BY <2>10, <2>a DEF RecordInsert
    <3>3. UNCHANGED <<mix, copy, running, lock, req, stage, loaded>> BY <2>10 DEF RecordInsert
    <3>4. CASE UNCHANGED <<versions, nextId>> BY <2>0, <3>1, <3>2, <3>3, <3>4 DEF TypeOK, Notes
    <3>5. CASE nextId' = nextId + 1
      <4>1. PICK v : v = [id |-> nextId, num |-> rec[r].base + 1, text |-> rec[r].text] OBVIOUS
      <4>2. versions' = versions \cup {v} BY <2>10, <3>5, <4>1 DEF RecordInsert, TypeOK
      <4>3. rec[r].text \in Texts /\ rec[r].base \in Nat BY <2>10 DEF RecordInsert, TextInv, TypeOK
      <4>4. nextId' \in Nat \ {0} /\ 1 .. nextId - 1 \subseteq 1 .. nextId' - 1 /\ nextId \in 1 .. nextId' - 1
        BY <3>5 DEF TypeOK
      <4>5. v \in [id : 1 .. nextId' - 1, num : Nat, text : Texts] BY <4>1, <4>3, <4>4
      <4>6. versions' \subseteq [id : 1 .. nextId' - 1, num : Nat, text : Texts]
        <5>1. ASSUME NEW u \in versions PROVE u \in [id : 1 .. nextId' - 1, num : Nat, text : Texts]
          <6>1. u \in [id : 1 .. nextId - 1, num : Nat, text : Texts] BY DEF TypeOK
          <6>2. QED BY <4>4, <6>1
        <5>2. QED BY <4>2, <4>5, <5>1
      <4>7. rec' \in [Requests -> [text : Texts \cup {None}, base : Nat, keep : SUBSET (1 .. nextId' - 1)]]
        <5>1. \A n \in Notes : n \in [text : Texts \cup {None}, base : Nat, keep : SUBSET (1 .. nextId' - 1)]
          BY <4>4 DEF Notes
        <5>2. QED BY <3>1, <5>1
      <4>8. req' \in [Requests -> [kind : Kinds \cup {None}, text : Texts \cup {None}, row : 0 .. nextId' - 1]]
        <5>1. 0 .. nextId - 1 \subseteq 0 .. nextId' - 1 BY <3>5 DEF TypeOK
        <5>2. \A q \in [kind : Kinds \cup {None}, text : Texts \cup {None}, row : 0 .. nextId - 1] :
                q \in [kind : Kinds \cup {None}, text : Texts \cup {None}, row : 0 .. nextId' - 1]
          BY <5>1
        <5>3. req' = req BY <3>3
        <5>4. QED BY <5>2, <5>3 DEF TypeOK
      <4>9. QED BY <2>0, <3>2, <3>3, <4>4, <4>6, <4>7, <4>8 DEF TypeOK
    <3>6. QED BY <2>10, <3>4, <3>5 DEF RecordInsert
  <2>11. CASE TrimRead(r)
    <3>1. PICK keep : keep = {v.id : v \in Top(versions)} OBVIOUS
    <3>2. keep \in SUBSET (1 .. nextId - 1)
      <4>1. \A v \in versions : v.id \in 1 .. nextId - 1 BY DEF TypeOK
      <4>2. Top(versions) \subseteq versions BY DEF Top
      <4>3. QED BY <3>1, <4>1, <4>2
    <3>3. rec' = rec \/ rec' = [rec EXCEPT ![r].keep = keep] BY <2>11, <3>1 DEF TrimRead
    <3>4. rec' \in [Requests -> Notes] BY <2>c, <3>2, <3>3, NotesStay
    <3>5. QED BY <2>11, <2>b, <3>4 DEF TrimRead, TypeOK, store
  <2>12. CASE Prune(r)
    <3>1. rec' \in [Requests -> Notes] BY <2>12, NotesStay DEF Prune
    <3>2. versions' \subseteq versions /\ nextId' = nextId BY <2>12 DEF Prune
    <3>3. QED BY <2>0, <2>12, <2>a, <3>1, <3>2 DEF Prune, TypeOK, Notes
  <2>13. CASE Try(r) BY <2>13, <2>b, <2>c DEF Try, TryLock, TypeOK, store
  <2>14. CASE Fails(r)
    <3>1. running' \in Texts \cup {None} BY <2>14 DEF Fails, TypeOK
    <3>2. loaded' \in [Requests -> Texts \cup {None}] BY <2>14 DEF Fails, TypeOK
    <3>3. QED BY <2>14, <2>b, <2>c, <3>1, <3>2 DEF Fails, TypeOK, store
  <2>14a. CASE FileRefused(r)
    <3>1. loaded' \in [Requests -> Texts \cup {None}] BY <2>14a DEF FileRefused, TypeOK
    <3>2. QED BY <2>14a, <2>b, <2>c, <3>1 DEF FileRefused, TypeOK, store
  <2>15. CASE PullEnds(r)
    <3>1. loaded' \in [Requests -> Texts \cup {None}] BY <2>15 DEF PullEnds, TypeOK
    <3>2. QED BY <2>15, <2>b, <2>c, <3>1 DEF PullEnds, TypeOK, store
  <2>16. CASE UpEnds(r)
    <3>1. rec' \in [Requests -> Notes]
      <4>1. Template \in Texts \cup {None} BY DEF Texts
      <4>2. QED BY <2>16, <2>c, <4>1, NotesStay DEF UpEnds
    <3>2. /\ running' \in Texts \cup {None} /\ loaded' \in [Requests -> Texts \cup {None}]
          /\ stage' \in [Requests -> {"before", "after"}]
      BY <2>16 DEF UpEnds, TypeOK
    <3>3. QED BY <2>16, <2>b, <3>1, <3>2 DEF UpEnds, TypeOK, store
  <2>17. CASE ActEnds(r) BY <2>17, <2>b, <2>c DEF ActEnds, TypeOK, store, local
  <2>18. QED BY <1>2, <2>1, <2>2, <2>3, <2>4, <2>5, <2>6, <2>7, <2>8, <2>9, <2>10, <2>11, <2>12,
                <2>13, <2>14, <2>14a, <2>15, <2>16, <2>17 DEF Record
<1>3. QED BY <1>1, <1>2 DEF Next

(***************************************************************************)
(* Contents and bounds.                                                    *)
(***************************************************************************)
(* A request moves and the others stay where they are.                     *)
LEMMA Moves ==
  ASSUME TypeOK, NEW r \in Requests, NEW step, Goto(r, step)
  PROVE  pc'[r] = step /\ \A s \in Requests \ {r} : pc'[s] = pc[s]
BY DEF TypeOK, Goto

(* Every step keeps contents what they are.                                *)
LEMMA TextStep == ASSUME TypeOK, TextInv, [Next]_vars PROVE TextInv'
<1>1. CASE UNCHANGED vars BY <1>1 DEF TextInv, vars, store, local
<1>2. ASSUME NEW r \in Requests,
             \/ Arrive(r) \/ ReadOld(r) \/ Probe(r) \/ Probed(r) \/ Save(r)
             \/ Target(r) \/ Current(r) \/ Write(r) \/ Record(r)
             \/ Try(r) \/ Fails(r) \/ FileRefused(r) \/ PullEnds(r) \/ UpEnds(r) \/ ActEnds(r)
      PROVE  TextInv'
  <2>0. /\ DOMAIN req = Requests /\ DOMAIN rec = Requests /\ DOMAIN pc = Requests
        /\ None \notin Texts /\ Template \in Texts /\ Torn \in Texts
    BY NoneAssumption DEF TypeOK, Texts
  <2>1. CASE Arrive(r)
    <3>1. PICK q \in Asked :
            /\ req' = [req EXCEPT ![r] = q]
            /\ Goto(r, CASE q.kind = "deploy" -> "old" [] q.kind = "act" -> "act" [] OTHER -> "probe")
      BY <2>1 DEF Arrive
    <3>2. /\ q.kind \in {"edit", "rollback"} => q.text \in Texts
          /\ q.kind \in {"deploy", "act", "edit"} \/ copy # None
      BY <3>1 DEF Asked, TypeOK, Texts
    <3>3. UNCHANGED <<copy, rec>> BY <2>1 DEF Arrive, store
    <3>4. PICK step : step = CASE q.kind = "deploy" -> "old" [] q.kind = "act" -> "act" [] OTHER -> "probe"
      OBVIOUS
    <3>5. /\ step \in {"old", "act", "probe"}
          /\ step = "probe" => q.kind = "edit" \/ copy # None
      BY <3>2, <3>4
    <3>6. pc'[r] = step /\ \A s \in Requests \ {r} : pc'[s] = pc[s] BY <3>1, <3>4, Moves
    <3>7. req'[r] = q /\ \A s \in Requests \ {r} : req'[s] = req[s] BY <2>0, <3>1
    <3>8. QED BY <3>2, <3>3, <3>5, <3>6, <3>7 DEF TextInv
  <2>2. CASE ReadOld(r)
    <3>1. UNCHANGED <<copy, req>> BY <2>2 DEF ReadOld, store
    <3>2. \/ pc'[r] = "write" /\ rec' = rec
          \/ pc'[r] = "record" /\ rec'[r].text # None /\ \A s \in Requests \ {r} : rec'[s] = rec[s]
      BY <2>0, <2>2, Moves DEF ReadOld, TypeOK
    <3>3. \A s \in Requests \ {r} : pc'[s] = pc[s] BY <2>2, Moves DEF ReadOld
    <3>4. QED BY <3>1, <3>2, <3>3 DEF TextInv
  <2>3. CASE Probe(r)
    <3>1. pc'[r] \in {"probed", "done"} /\ \A s \in Requests \ {r} : pc'[s] = pc[s] BY <2>3, Moves DEF Probe
    <3>2. QED BY <2>3, <3>1 DEF Probe, store, local, TextInv
  <2>4. CASE Probed(r)
    <3>1. \/ pc'[r] = "save" /\ req[r].kind = "edit"
          \/ pc'[r] \in {"pull", "target"} /\ req[r].kind # "edit"
      BY <2>4, Moves DEF Probed
    <3>2. \A s \in Requests \ {r} : pc'[s] = pc[s] BY <2>4, Moves DEF Probed
    <3>3. UNCHANGED <<copy, req, rec>> BY <2>4 DEF Probed, store, local
    <3>4. pc[r] = "probed" BY <2>4 DEF Probed
    <3>5. QED BY <3>1, <3>2, <3>3, <3>4 DEF TextInv
  <2>5. CASE Save(r)
    <3>1. pc'[r] = "done" /\ \A s \in Requests \ {r} : pc'[s] = pc[s] BY <2>5, Moves DEF Save
    <3>2. copy' = copy \/ copy' # None BY <2>0, <2>5 DEF Save, TextInv
    <3>3. QED BY <2>5, <3>1, <3>2 DEF Save, local, TextInv
  <2>6. CASE Target(r)
    <3>1. pc'[r] \in {"current", "done"} /\ pc[r] = "target" /\ \A s \in Requests \ {r} : pc'[s] = pc[s]
      BY <2>6, Moves DEF Target
    <3>2. QED BY <2>6, <3>1 DEF Target, store, local, TextInv
  <2>7. CASE Current(r)
    <3>1. copy # None BY <2>7 DEF Current, TextInv
    <3>2. \/ pc'[r] = "record" /\ rec'[r].text # None /\ \A s \in Requests \ {r} : rec'[s] = rec[s]
          \/ pc'[r] \in {"write", "done"} /\ rec' = rec
      BY <2>0, <2>7, <3>1, Moves DEF Current, Unrecorded, Recorded, TypeOK
    <3>3. \A s \in Requests \ {r} : pc'[s] = pc[s] BY <2>7, Moves DEF Current
    <3>4. UNCHANGED <<copy, req>> BY <2>7 DEF Current, store
    <3>5. QED BY <3>2, <3>3, <3>4 DEF TextInv
  <2>8. CASE Write(r)
    <3>1. pc'[r] \in {"pull", "up", "done"} /\ \A s \in Requests \ {r} : pc'[s] = pc[s]
      BY <2>8, Moves DEF Write
    <3>2. copy' # None \/ (pc'[r] = "done" /\ copy' = copy) BY <2>0, <2>8, Moves DEF Write, TextInv
    <3>3. QED BY <2>8, <3>1, <3>2 DEF Write, local, TextInv
  <2>9. CASE RecordRead(r)
    <3>1. \/ pc'[r] \in {"write", "done"}
          \/ pc'[r] = "insert" /\ rec'[r].text = rec[r].text
      BY <2>0, <2>9, Moves DEF RecordRead, Recorded, Unrecorded, TypeOK
    <3>2. /\ pc[r] = "record" /\ \A s \in Requests \ {r} : pc'[s] = pc[s] /\ rec'[s] = rec[s]
          /\ UNCHANGED <<copy, req>>
      BY <2>0, <2>9, Moves DEF RecordRead, store
    <3>3. QED BY <3>1, <3>2 DEF TextInv
  <2>10. CASE RecordInsert(r)
    <3>1. pc'[r] \in {"write", "done", "trim"} BY <2>10, Moves DEF RecordInsert, Recorded, Unrecorded
    <3>2. /\ \A s \in Requests \ {r} : pc'[s] = pc[s] /\ rec'[s] = rec[s]
          /\ UNCHANGED <<copy, req>>
      BY <2>0, <2>10, Moves DEF RecordInsert
    <3>3. QED BY <3>1, <3>2 DEF TextInv
  <2>11. CASE TrimRead(r)
    <3>1. pc'[r] \in {"write", "done", "prune"} BY <2>11, Moves DEF TrimRead, Recorded
    <3>2. /\ \A s \in Requests \ {r} : pc'[s] = pc[s] /\ rec'[s] = rec[s]
          /\ UNCHANGED <<copy, req>>
      BY <2>0, <2>11, Moves DEF TrimRead, store
    <3>3. QED BY <3>1, <3>2 DEF TextInv
  <2>12. CASE Prune(r)
    <3>1. pc'[r] \in {"write", "done"} BY <2>12, Moves DEF Prune, Recorded
    <3>2. /\ \A s \in Requests \ {r} : pc'[s] = pc[s] /\ rec'[s] = rec[s]
          /\ UNCHANGED <<copy, req>>
      BY <2>0, <2>12, Moves DEF Prune
    <3>3. QED BY <3>1, <3>2 DEF TextInv
  <2>13. CASE Try(r)
    <3>1. PICK step :
            /\ Goto(r, step)
            /\ \/ step \in {"acting", "done"}
               \/ step = "pulling" /\ pc[r] = "pull"
               \/ step = "upping" /\ pc[r] = "up"
      BY <2>13 DEF Try
    <3>2. pc'[r] = step /\ \A s \in Requests \ {r} : pc'[s] = pc[s] BY <3>1, Moves
    <3>3. UNCHANGED <<copy, req, rec>> BY <2>13 DEF Try, store
    <3>4. QED BY <3>1, <3>2, <3>3 DEF TextInv
  <2>14. CASE Fails(r)
    <3>1. pc'[r] = "done" /\ \A s \in Requests \ {r} : pc'[s] = pc[s] BY <2>14, Moves DEF Fails
    <3>2. QED BY <2>14, <3>1 DEF Fails, store, TextInv
  <2>14a. CASE FileRefused(r)
    <3>1. pc'[r] = "done" /\ \A s \in Requests \ {r} : pc'[s] = pc[s] BY <2>14a, Moves DEF FileRefused
    <3>2. QED BY <2>14a, <3>1 DEF FileRefused, store, TextInv
  <2>15. CASE PullEnds(r)
    <3>1. pc[r] = "pulling" /\ pc'[r] = "up" /\ \A s \in Requests \ {r} : pc'[s] = pc[s]
      BY <2>15, Moves DEF PullEnds
    <3>2. QED BY <2>15, <3>1 DEF PullEnds, store, local, TextInv
  <2>16. CASE UpEnds(r)
    <3>1. \/ pc'[r] = "record" /\ rec'[r].text = Template
          \/ pc'[r] = "current" /\ rec' = rec
      BY <2>0, <2>16, Moves DEF UpEnds, TypeOK
    <3>2. /\ pc[r] = "upping" /\ \A s \in Requests \ {r} : pc'[s] = pc[s] /\ rec'[s] = rec[s]
          /\ UNCHANGED <<copy, req>>
      BY <2>0, <2>16, Moves DEF UpEnds, store
    <3>3. QED BY <2>0, <3>1, <3>2 DEF TextInv
  <2>17. CASE ActEnds(r)
    <3>1. pc'[r] = "done" /\ \A s \in Requests \ {r} : pc'[s] = pc[s] BY <2>17, Moves DEF ActEnds
    <3>2. QED BY <2>17, <3>1 DEF ActEnds, store, local, TextInv
  <2>18. QED BY <1>2, <2>1, <2>2, <2>3, <2>4, <2>5, <2>6, <2>7, <2>8, <2>9, <2>10, <2>11, <2>12,
                <2>13, <2>14, <2>14a, <2>15, <2>16, <2>17 DEF Record
<1>3. QED BY <1>1, <1>2 DEF Next

(* Steps that neither write rows nor are those of a recorder.              *)
Recording == {"record", "insert", "trim", "prune"}

LEMMA BoundStill ==
  ASSUME TypeOK, BoundInv, NEW r \in Requests, UNCHANGED <<mix, versions>>,
         faults' = faults \/ Fault,
         \A s \in Requests : pc'[s] = pc[s] \/ {pc[s], pc'[s]} \cap {"trim", "prune"} = {},
         \A s \in Requests : pc[s] = "prune" => rec'[s].keep = rec[s].keep
  PROVE  BoundInv'
<1>1. faults' <= faults /\ faults \in Nat /\ faults' \in Nat BY DEF Fault, TypeOK
<1>2. mix'.faults = mix.faults /\ Rows(versions)' BY DEF BoundInv
<1>3. faults' <= mix'.faults
  <2>1. PICK n \in Nat : n = mix.faults BY DEF BoundInv
  <2>2. faults <= n BY <2>1 DEF BoundInv
  <2>3. QED BY <1>1, <1>2, <2>1, <2>2
<1>4. ASSUME NEW s \in Requests, pc'[s] = "prune"
      PROVE  IsFiniteSet(rec'[s].keep) /\ Cardinality(rec'[s].keep) <= KeepN
  <2>1. pc[s] = "prune" BY <1>4
  <2>2. rec'[s].keep = rec[s].keep BY <2>1
  <2>3. QED BY <2>1, <2>2 DEF BoundInv
<1>5. ASSUME Flawless', \A s \in Requests : pc'[s] \notin {"trim", "prune"}
      PROVE  Cardinality(versions') <= KeepN
  <2>1. Flawless BY <1>1, <1>5 DEF Flawless, BoundInv
  <2>2. \A s \in Requests : pc[s] \notin {"trim", "prune"} BY <1>5
  <2>3. QED BY <2>1, <2>2 DEF BoundInv
<1>6. mix'.faults \in Nat BY <1>2 DEF BoundInv
<1>7. QED BY <1>2, <1>3, <1>4, <1>5, <1>6 DEF BoundInv

(* Steps outside the history.                                              *)
LEMMA Elsewhere ==
  ASSUME TypeOK, NEW r \in Requests,
         \/ Arrive(r) \/ ReadOld(r) \/ Probe(r) \/ Probed(r) \/ Save(r)
         \/ Target(r) \/ Current(r) \/ Write(r)
         \/ Try(r) \/ Fails(r) \/ FileRefused(r) \/ PullEnds(r) \/ UpEnds(r) \/ ActEnds(r)
  PROVE  /\ UNCHANGED <<mix, versions, nextId>> /\ (faults' = faults \/ Fault)
         /\ pc[r] \notin Recording
         /\ \E step : Goto(r, step) /\ step \notin {"insert", "trim", "prune"}
         /\ \A s \in Requests \ {r} : rec'[s] = rec[s]
<1> USE DEF store, local, Recording
<1>0. rec = [s \in Requests |-> rec[s]] BY DEF TypeOK
<1>1. CASE Arrive(r)
  <2>1. PICK q \in Asked :
          Goto(r, CASE q.kind = "deploy" -> "old" [] q.kind = "act" -> "act" [] OTHER -> "probe")
    BY <1>1 DEF Arrive
  <2>2. PICK step : step = CASE q.kind = "deploy" -> "old" [] q.kind = "act" -> "act" [] OTHER -> "probe"
    OBVIOUS
  <2>3. step \in {"old", "act", "probe"} /\ Goto(r, step) BY <2>1, <2>2
  <2>4. QED BY <1>1, <2>3 DEF Arrive
<1>2. CASE ReadOld(r) BY <1>0, <1>2 DEF ReadOld
<1>3. CASE Probe(r) BY <1>3 DEF Probe
<1>4. CASE Probed(r)
  <2>1. PICK step : step = CASE req[r].kind = "edit" -> "save" [] req[r].kind = "upgrade" -> "pull" [] OTHER -> "target"
    OBVIOUS
  <2>2. step \in {"save", "pull", "target"} /\ Goto(r, step) BY <1>4, <2>1 DEF Probed
  <2>3. QED BY <1>4, <2>2 DEF Probed
<1>5. CASE Save(r) BY <1>5 DEF Save
<1>6. CASE Target(r)
  <2>1. PICK step : step \in {"current", "done"} /\ Goto(r, step) BY <1>6 DEF Target
  <2>2. QED BY <1>6, <2>1 DEF Target
<1>7. CASE Current(r)
  <2>1. PICK step : step \in {"record", "write", "done"} /\ Goto(r, step)
    BY <1>7 DEF Current, Unrecorded, Recorded
  <2>2. QED BY <1>0, <1>7, <2>1 DEF Current
<1>8. CASE Write(r)
  <2>1. PICK step : step \in {"pull", "up", "done"} /\ Goto(r, step) BY <1>8 DEF Write
  <2>2. QED BY <1>8, <2>1 DEF Write
<1>9. CASE Try(r)
  <2>1. PICK step : step \in {"pulling", "upping", "acting", "done"} /\ Goto(r, step) BY <1>9 DEF Try
  <2>2. QED BY <1>9, <2>1 DEF Try
<1>10. CASE Fails(r) BY <1>10 DEF Fails, Commands
<1>10a. CASE FileRefused(r) BY <1>10a DEF FileRefused
<1>11. CASE PullEnds(r) BY <1>11 DEF PullEnds
<1>12. CASE UpEnds(r)
  <2>1. PICK step : step \in {"record", "current"} /\ Goto(r, step) BY <1>12 DEF UpEnds
  <2>2. QED BY <1>0, <1>12, <2>1 DEF UpEnds
<1>13. CASE ActEnds(r) BY <1>13 DEF ActEnds
<1>14. QED BY <1>1, <1>2, <1>3, <1>4, <1>5, <1>6, <1>7, <1>8, <1>9, <1>10, <1>10a, <1>11, <1>12, <1>13

(* Every step keeps the history in its bounds.                             *)
LEMMA BoundStep == ASSUME TypeOK, TextInv, BoundInv, [Next]_vars PROVE BoundInv'
<1>1. CASE UNCHANGED vars
  <2>1. UNCHANGED <<mix, versions, faults, pc, rec>> BY <1>1 DEF vars, store, local
  <2>2. QED BY <2>1 DEF BoundInv, Flawless, Rows
<1>2. ASSUME NEW r \in Requests,
             \/ Arrive(r) \/ ReadOld(r) \/ Probe(r) \/ Probed(r) \/ Save(r)
             \/ Target(r) \/ Current(r) \/ Write(r)
             \/ Try(r) \/ Fails(r) \/ FileRefused(r) \/ PullEnds(r) \/ UpEnds(r) \/ ActEnds(r)
      PROVE  BoundInv'
  <2>1. PICK step : Goto(r, step) /\ step \notin {"insert", "trim", "prune"} BY <1>2, Elsewhere
  <2>2. pc'[r] = step /\ \A s \in Requests \ {r} : pc'[s] = pc[s] BY <2>1, Moves
  <2>3. pc[r] \notin {"trim", "prune"} /\ pc'[r] \notin {"trim", "prune"}
    BY <1>2, <2>1, <2>2, Elsewhere DEF Recording
  <2>4. UNCHANGED <<mix, versions>> /\ (faults' = faults \/ Fault) /\ \A s \in Requests \ {r} : rec'[s] = rec[s]
    BY <1>2, Elsewhere
  <2>5. \A s \in Requests : pc'[s] = pc[s] \/ {pc[s], pc'[s]} \cap {"trim", "prune"} = {} BY <2>2, <2>3
  <2>6. \A s \in Requests : pc[s] = "prune" => rec'[s].keep = rec[s].keep BY <2>3, <2>4
  <2>7. QED BY <2>4, <2>5, <2>6, BoundStill
<1>3. ASSUME NEW r \in Requests, RecordRead(r) PROVE BoundInv'
  <2>1. PICK step : Goto(r, step) /\ step \in {"write", "done", "insert"}
    BY <1>3 DEF RecordRead, Recorded, Unrecorded
  <2>2. pc[r] = "record" /\ pc'[r] = step /\ \A s \in Requests \ {r} : pc'[s] = pc[s] BY <1>3, <2>1, Moves DEF RecordRead
  <2>3. UNCHANGED <<mix, versions>> /\ (faults' = faults \/ Fault) BY <1>3 DEF RecordRead, store
  <2>4. \A s \in Requests \ {r} : rec'[s] = rec[s] BY <1>3 DEF RecordRead, TypeOK
  <2>5. \A s \in Requests : pc'[s] = pc[s] \/ {pc[s], pc'[s]} \cap {"trim", "prune"} = {} BY <2>1, <2>2
  <2>6. \A s \in Requests : pc[s] = "prune" => rec'[s].keep = rec[s].keep BY <2>2, <2>4
  <2>7. QED BY <2>3, <2>5, <2>6, BoundStill
<1>4. ASSUME NEW r \in Requests, RecordInsert(r) PROVE BoundInv'
  <2>1. pc[r] = "insert" /\ UNCHANGED mix /\ \A s \in Requests \ {r} : rec'[s] = rec[s]
    BY <1>4 DEF RecordInsert, TypeOK
  <2>2. CASE UNCHANGED versions /\ Fault
    <3>1. PICK step : Goto(r, step) /\ step \in {"write", "done", "trim"}
      BY <1>4 DEF RecordInsert, Recorded, Unrecorded
    <3>2. pc'[r] = step /\ \A s \in Requests \ {r} : pc'[s] = pc[s] BY <3>1, Moves
    <3>3. faults' <= mix.faults /\ faults' # mix'.faults BY <2>1, <2>2 DEF BoundInv, Fault, TypeOK
    <3>4. \A s \in Requests : pc'[s] = "prune" => pc[s] = "prune" /\ rec'[s].keep = rec[s].keep
      BY <2>1, <3>1, <3>2
    <3>5. QED BY <2>1, <2>2, <3>3, <3>4 DEF BoundInv, Flawless, Rows
  <2>3. CASE Goto(r, "trim") /\ faults' = faults /\ nextId' = nextId + 1
    <3>1. pc'[r] = "trim" /\ \A s \in Requests \ {r} : pc'[s] = pc[s] BY <2>3, Moves
    <3>2. PICK v : v = [id |-> nextId, num |-> rec[r].base + 1, text |-> rec[r].text] OBVIOUS
    <3>3. versions' = versions \cup {v} BY <1>4, <2>3, <3>2 DEF RecordInsert, TypeOK
    <3>4. v.id = nextId /\ v.id \in Nat /\ v.num \in Nat
      <4>1. rec[r].base \in Nat /\ nextId \in Nat BY DEF TypeOK
      <4>2. QED BY <3>2, <4>1
    <3>5. \A u \in versions : u.id # nextId BY DEF TypeOK
    <3>6. Rows(versions)'
      <4>1. IsFiniteSet(versions') BY <3>3, FS_AddElement DEF BoundInv, Rows
      <4>2. QED BY <3>3, <3>4, <3>5, <4>1 DEF BoundInv, Rows
    <3>7. \A s \in Requests : pc'[s] = "prune" => pc[s] = "prune" /\ rec'[s].keep = rec[s].keep
      BY <2>1, <3>1
    <3>8. QED BY <2>1, <2>3, <3>1, <3>6, <3>7 DEF BoundInv
  <2>4. QED BY <1>4, <2>2, <2>3 DEF RecordInsert
<1>5. ASSUME NEW r \in Requests, TrimRead(r) PROVE BoundInv'
  <2>1. UNCHANGED <<mix, versions>> /\ \A s \in Requests \ {r} : rec'[s] = rec[s]
    BY <1>5 DEF TrimRead, TypeOK, store
  <2>2. Rows(versions)' BY <2>1 DEF BoundInv
  <2>3. CASE Fault /\ Goto(r, Recorded(r))
    <3>1. pc'[r] # "prune" /\ \A s \in Requests \ {r} : pc'[s] = pc[s] BY <2>3, Moves DEF Recorded
    <3>2. faults' <= mix.faults /\ faults' # mix'.faults BY <2>1, <2>3 DEF BoundInv, Fault, TypeOK
    <3>3. \A s \in Requests : pc'[s] = "prune" => pc[s] = "prune" /\ rec'[s].keep = rec[s].keep
      BY <2>1, <3>1
    <3>4. QED BY <2>1, <2>2, <3>2, <3>3 DEF BoundInv, Flawless
  <2>4. CASE /\ Goto(r, IF versions = {} THEN Recorded(r) ELSE "prune") /\ faults' = faults
             /\ rec' = [rec EXCEPT ![r].keep = {v.id : v \in Top(versions)}]
    <3>1. PICK keep : keep = {v.id : v \in Top(versions)} OBVIOUS
    <3>2. IsFiniteSet(keep) /\ Cardinality(keep) <= KeepN
      <4>1. IsFiniteSet(Top(versions)) /\ Cardinality(Top(versions)) <= KeepN /\ Top(versions) \in SUBSET versions
        BY TopKeeps DEF BoundInv, Top
      <4>2. IsFiniteSet(keep) /\ Cardinality(keep) <= Cardinality(Top(versions))
        BY <3>1, <4>1, AsFewIds DEF BoundInv
      <4>3. Cardinality(keep) \in Nat /\ Cardinality(Top(versions)) \in Nat BY <4>1, <4>2, FS_CardinalityType
      <4>4. QED BY <4>1, <4>2, <4>3, KeepAssumption
    <3>3. rec' = [rec EXCEPT ![r].keep = keep] BY <2>4, <3>1
    <3>4. rec'[r].keep = keep BY <3>3 DEF TypeOK
    <3>5. \A s \in Requests \ {r} : pc'[s] = pc[s] BY <2>4, Moves
    <3>6. \A s \in Requests : pc'[s] = "prune" => IsFiniteSet(rec'[s].keep) /\ Cardinality(rec'[s].keep) <= KeepN
      BY <2>1, <3>2, <3>4, <3>5 DEF BoundInv
    <3>7. versions = {} \/ pc'[r] = "prune" BY <2>4, Moves
    <3>8. Cardinality({}) <= KeepN BY FS_EmptySet, KeepAssumption
    <3>9. QED BY <2>1, <2>2, <2>4, <3>6, <3>7, <3>8 DEF BoundInv
  <2>5. QED BY <1>5, <2>3, <2>4 DEF TrimRead
<1>6. ASSUME NEW r \in Requests, Prune(r) PROVE BoundInv'
  <2>1. pc[r] = "prune" /\ UNCHANGED mix /\ \A s \in Requests \ {r} : rec'[s] = rec[s]
    BY <1>6 DEF Prune, TypeOK
  <2>2. pc'[r] # "prune" /\ \A s \in Requests \ {r} : pc'[s] = pc[s] BY <1>6, Moves DEF Prune, Recorded
  <2>3. \A s \in Requests : pc'[s] = "prune" => pc[s] = "prune" /\ rec'[s].keep = rec[s].keep
    BY <2>1, <2>2
  <2>4. CASE UNCHANGED versions /\ Fault
    <3>1. faults' <= mix.faults /\ faults' # mix'.faults BY <2>1, <2>4 DEF BoundInv, Fault, TypeOK
    <3>2. QED BY <2>1, <2>3, <2>4, <3>1 DEF BoundInv, Flawless, Rows
  <2>5. CASE versions' = {v \in versions : v.id \in rec[r].keep} /\ faults' = faults
    <3>1. PICK keep : keep = rec[r].keep OBVIOUS
    <3>2. IsFiniteSet(keep) /\ Cardinality(keep) <= KeepN BY <2>1, <3>1 DEF BoundInv
    <3>3. versions' = {v \in versions : v.id \in keep} BY <2>5, <3>1
    <3>4. Rows(versions)' BY <3>3, FewerRows DEF BoundInv
    <3>5. Cardinality(versions') <= KeepN
      <4>1. Cardinality(versions') <= Cardinality(keep) BY <3>2, <3>3, AsFewRows DEF BoundInv
      <4>2. Cardinality(versions') \in Nat /\ Cardinality(keep) \in Nat BY <3>2, <3>4, FS_CardinalityType DEF Rows
      <4>3. QED BY <3>2, <4>1, <4>2, KeepAssumption
    <3>6. QED BY <2>1, <2>3, <2>5, <3>4, <3>5 DEF BoundInv
  <2>6. QED BY <1>6, <2>4, <2>5 DEF Prune
<1>7. QED BY <1>1, <1>2, <1>3, <1>4, <1>5, <1>6 DEF Next, Record

(***************************************************************************)
(* Requests that come one by one.                                          *)
(***************************************************************************)
LEMMA FaultSpoils == ASSUME TypeOK, BoundInv, UNCHANGED mix, Fault PROVE ~Flawless'
BY DEF TypeOK, BoundInv, Fault, Flawless

LEMMA FlawlessBefore ==
  ASSUME TypeOK, BoundInv, UNCHANGED mix, faults' = faults \/ Fault, Flawless' PROVE Flawless
BY FaultSpoils DEF Flawless

(* Nobody holds the lock that a request which is alone tries.              *)
LEMMA LockIsFree ==
  ASSUME LockInv, SoloInv, ~mix.overlap, NEW r \in Requests, pc[r] \in {"probe", "pull", "up", "act"}
  PROVE  lock = None
<1>1. lock # None => lock \in Requests /\ pc[lock] \in Holding BY DEF LockInv
<1>2. lock # None => lock = r BY <1>1 DEF SoloInv, Holding, Commands
<1>3. QED BY <1>1, <1>2 DEF Holding, Commands

(* What a text that the newest row has is good for.                        *)
LEMMA TellsKnown ==
  ASSUME Rows(versions), NEW text
  PROVE  /\ Known(text) <=> Tells(text)
         /\ Tells(text) => text \in {v.text : v \in versions} /\ versions # {}
<1>1. ASSUME versions # {} PROVE Known(text) <=> Tells(text)
  <2>1. PICK v \in versions : IsNewest(v, versions) BY <1>1, SomeNewest
  <2>2. \A u : IsNewest(u, versions) => u = v BY <2>1, OneNewest
  <2>3. Newest(versions) = v BY <2>1, OneNewest
  <2>4. QED BY <1>1, <2>1, <2>2, <2>3 DEF Known, Tells
<1>2. Tells(text) => text \in {v.text : v \in versions} /\ versions # {} BY DEF Tells
<1>3. QED BY <1>1, <1>2 DEF Known

(* The step of the one request that is at work, or that comes.             *)
LEMMA OneByOne ==
  ASSUME TypeOK, SoloInv, ~mix.overlap, UNCHANGED mix, NEW r \in Requests, NEW step, Goto(r, step),
         pc[r] \notin {"idle", "done"} \/ Settled,
         \A s \in Requests \ {r} : stage'[s] = stage[s],
         Knows(r)', step = "done" /\ Flawless' => Truthful', step # "idle"
  PROVE  SoloInv'
<1>1. pc'[r] = step /\ \A s \in Requests \ {r} : pc'[s] = pc[s] BY Moves
<1>2. \A s \in Requests \ {r} : pc[s] \in {"idle", "done"} BY DEF SoloInv, Settled
<1>3. \A s, t \in Requests : pc'[s] \notin {"idle", "done"} /\ pc'[t] \notin {"idle", "done"} => s = t
  BY <1>1, <1>2
<1>4. ASSUME NEW s \in Requests \ {r} PROVE Knows(s)'
  <2>1. Knows(s) BY DEF SoloInv
  <2>2. pc'[s] \in {"idle", "done"} /\ pc'[s] = pc[s] /\ stage'[s] = stage[s] BY <1>1, <1>2
  <2>3. pc'[s] = "idle" => stage'[s] = "before" BY <2>1, <2>2 DEF Knows
  <2>4. QED BY <2>2, <2>3 DEF Knows
<1>5. Settled' /\ Flawless' => Truthful' BY <1>1 DEF Settled
<1>6. QED BY <1>3, <1>4, <1>5 DEF SoloInv

(* RecordStackVersion, when no other request is at work.                   *)
LEMMA RecordSolo ==
  ASSUME TypeOK, TextInv, BoundInv, SoloInv, ~mix.overlap, NEW r \in Requests, Record(r)
  PROVE  SoloInv'
<1> USE DEF store
<1>0. /\ DOMAIN rec = Requests /\ stage[r] \in {"before", "after"} /\ Knows(r) /\ Rows(versions)
      /\ rec[r] \in [text : Texts \cup {None}, base : Nat, keep : SUBSET (1 .. nextId - 1)]
  BY DEF TypeOK, SoloInv, BoundInv
<1>1. UNCHANGED <<mix, copy, running, req, stage, loaded>> /\ pc[r] \in Recording
  BY DEF Record, RecordRead, RecordInsert, TrimRead, Prune, Recording
<1>2. Carried(r)' = Carried(r) BY <1>1 DEF Carried
(* Where a record leads that was successful, or had to be given up.        *)
<1>3. ASSUME Goto(r, Recorded(r)), Tells(Carried(r))' PROVE SoloInv'
  <2>1. PICK step : Goto(r, step) /\ step = Recorded(r) BY <1>3
  <2>2. pc'[r] = step BY <2>1, Moves
  <2>4. CASE stage[r] = "before"
    <3>1. step = "write" /\ Carried(r)' = copy BY <1>2, <2>1, <2>4 DEF Recorded, Carried
    <3>2. Tells(copy)' BY <1>1, <1>3, <3>1 DEF Carried, Tells
    <3>3. copy' \in {v.text : v \in versions'} BY <3>2 DEF Tells
    <3>4. Knows(r)' BY <1>1, <2>2, <2>4, <3>1, <3>3 DEF Knows
    <3>5. QED BY <1>1, <2>1, <3>1, <3>4, OneByOne DEF Recording
  <2>5. CASE stage[r] = "after"
    <3>1. step = "done" BY <2>1, <2>5 DEF Recorded
    <3>2. Truthful' BY <1>1, <1>3, <2>5 DEF Truthful, Carried
    <3>3. Knows(r)' BY <2>2, <3>1 DEF Knows
    <3>4. QED BY <1>1, <2>1, <3>1, <3>2, <3>3, OneByOne DEF Recording
  <2>6. QED BY <1>0, <2>4, <2>5
<1>4. ASSUME Goto(r, Unrecorded(r)), Fault PROVE SoloInv'
  <2>1. ~Flawless' BY <1>1, <1>4, FaultSpoils
  <2>2. PICK step : Goto(r, step) /\ step = Unrecorded(r) BY <1>4
  <2>3. \/ step = "done"
        \/ step = "write" /\ stage[r] = "before" /\ req[r].kind # "rollback"
    BY <2>2 DEF Unrecorded, Recorded
  <2>4. pc'[r] = step BY <2>2, Moves
  <2>5. Knows(r)' BY <1>1, <2>1, <2>3, <2>4 DEF Knows
  <2>6. QED BY <1>1, <2>1, <2>2, <2>3, <2>5, OneByOne DEF Recording
<1>5. CASE RecordRead(r)
  <2>1. pc[r] = "record" /\ UNCHANGED versions BY <1>5 DEF RecordRead
  <2>2. rec[r].text = Carried(r) BY <1>0, <2>1 DEF Knows
  <2>3. CASE Known(rec[r].text) /\ Goto(r, Recorded(r))
    <3>1. Tells(Carried(r)) BY <1>0, <2>2, <2>3, TellsKnown
    <3>2. Tells(Carried(r))' BY <1>2, <2>1, <3>1 DEF Tells
    <3>3. QED BY <1>3, <2>3, <3>2
  <2>4. CASE Goto(r, "insert") /\ rec' = [rec EXCEPT ![r].base = IF versions = {} THEN 0 ELSE Newest(versions).num]
    <3>1. PICK base : base = IF versions = {} THEN 0 ELSE Newest(versions).num OBVIOUS
    <3>2. rec' = [rec EXCEPT ![r].base = base] BY <2>4, <3>1
    <3>3. rec'[r].base = base /\ rec'[r].text = rec[r].text BY <1>0, <3>2
    <3>4. versions # {} => \E v \in versions : IsNewest(v, versions) /\ base = v.num
      <4>1. ASSUME versions # {} PROVE \E v \in versions : IsNewest(v, versions) /\ base = v.num
        <5>1. PICK v \in versions : IsNewest(v, versions) BY <1>0, <4>1, SomeNewest
        <5>2. Newest(versions) = v BY <1>0, <5>1, OneNewest
        <5>3. QED BY <3>1, <4>1, <5>1, <5>2
      <4>2. QED BY <4>1
    <3>5. pc'[r] = "insert" BY <2>4, Moves
    <3>6. Knows(r)' BY <1>2, <2>1, <2>2, <3>1, <3>3, <3>4, <3>5 DEF Knows
    <3>7. QED BY <1>1, <2>4, <3>6, OneByOne DEF Recording
  <2>5. QED BY <1>4, <1>5, <2>3, <2>4 DEF RecordRead
<1>6. CASE RecordInsert(r)
  <2>1. pc[r] = "insert" BY <1>6 DEF RecordInsert
  <2>2. rec[r].text = Carried(r) BY <1>0, <2>1 DEF Knows
  <2>3. CASE Goto(r, "trim") /\ nextId' = nextId + 1
    <3>1. PICK v : v = [id |-> nextId, num |-> rec[r].base + 1, text |-> rec[r].text] OBVIOUS
    <3>2. versions' = versions \cup {v} BY <1>6, <2>3, <3>1 DEF RecordInsert, TypeOK
    <3>3. v.text = Carried(r) /\ v.num = rec[r].base + 1 /\ rec[r].base \in Nat BY <1>0, <2>2, <3>1
    <3>4. ASSUME NEW u \in versions PROVE Newer(v, u)
      <4>1. PICK w \in versions : IsNewest(w, versions) /\ rec[r].base = w.num BY <1>0, <2>1, <3>4 DEF Knows
      <4>2. u.num \in Nat /\ w.num \in Nat BY <1>0 DEF Rows
      <4>3. u.num <= w.num BY <4>1, <4>2 DEF IsNewest, Newer
      <4>4. QED BY <3>3, <4>1, <4>2, <4>3 DEF Newer
    <3>5. IsNewest(v, versions') BY <3>2, <3>4 DEF IsNewest
    <3>6. Tells(Carried(r))' BY <1>2, <3>2, <3>3, <3>5 DEF Tells
    <3>7. pc'[r] = "trim" BY <2>3, Moves
    <3>8. Knows(r)' BY <3>6, <3>7 DEF Knows
    <3>9. QED BY <1>1, <2>3, <3>8, OneByOne DEF Recording
  <2>4. QED BY <1>4, <1>6, <2>3 DEF RecordInsert
<1>7. CASE TrimRead(r)
  <2>1. pc[r] = "trim" /\ UNCHANGED versions BY <1>7 DEF TrimRead
  <2>2. Tells(Carried(r)) BY <1>0, <2>1 DEF Knows
  <2>3. Tells(Carried(r))' BY <1>2, <2>1, <2>2 DEF Tells
  <2>4. CASE Goto(r, Recorded(r)) BY <1>3, <2>3, <2>4
  <2>5. CASE Goto(r, "prune") /\ rec' = [rec EXCEPT ![r].keep = {v.id : v \in Top(versions)}]
    <3>1. PICK keep : keep = {v.id : v \in Top(versions)} OBVIOUS
    <3>2. rec' = [rec EXCEPT ![r].keep = keep] BY <2>5, <3>1
    <3>3. rec'[r].keep = keep BY <1>0, <3>2
    <3>4. pc'[r] = "prune" BY <2>5, Moves
    <3>5. Knows(r)' BY <2>1, <2>3, <3>1, <3>3, <3>4 DEF Knows
    <3>6. QED BY <1>1, <2>5, <3>5, OneByOne DEF Recording
  <2>6. versions # {} BY <2>2 DEF Tells
  <2>7. QED BY <1>7, <2>4, <2>5, <2>6 DEF TrimRead
<1>8. CASE Prune(r)
  <2>1. pc[r] = "prune" /\ Goto(r, Recorded(r)) BY <1>8 DEF Prune
  <2>2. Tells(Carried(r)) /\ rec[r].keep = {v.id : v \in Top(versions)} BY <1>0, <2>1 DEF Knows
  <2>3. CASE UNCHANGED versions
    <3>1. Tells(Carried(r))' BY <1>2, <2>2, <2>3 DEF Tells
    <3>2. QED BY <1>3, <2>1, <3>1
  <2>4. CASE versions' = {v \in versions : v.id \in rec[r].keep}
    <3>1. versions' = Top(versions)
      <4>1. Top(versions) \subseteq versions BY DEF Top
      <4>2. \A v \in versions : v.id \in rec[r].keep <=> v \in Top(versions) BY <1>0, <2>2, <4>1 DEF Rows
      <4>3. QED BY <2>4, <4>1, <4>2
    <3>2. PICK v \in versions : IsNewest(v, versions) /\ v.text = Carried(r) BY <2>2 DEF Tells
    <3>3. IsNewest(v, versions') BY <1>0, <3>1, <3>2, TopKeeps
    <3>4. Tells(Carried(r))' BY <1>2, <3>2, <3>3 DEF Tells, IsNewest
    <3>5. QED BY <1>3, <2>1, <3>4
  <2>5. QED BY <1>8, <2>3, <2>4 DEF Prune
<1>9. QED BY <1>5, <1>6, <1>7, <1>8 DEF Record

(* Files are cut short by failures only.                                   *)
LEMMA TornStep == ASSUME TypeOK, TextInv, BoundInv, TornInv, [Next]_vars PROVE TornInv'
<1>1. CASE UNCHANGED vars
  <2>1. UNCHANGED <<mix, copy, versions, req, rec, loaded, faults>> BY <1>1 DEF vars, store, local
  <2>2. QED BY <2>1 DEF TornInv, Flawless
<1>2. ASSUME NEW r \in Requests,
             \/ Arrive(r) \/ ReadOld(r) \/ Probe(r) \/ Probed(r) \/ Save(r)
             \/ Target(r) \/ Current(r) \/ Write(r) \/ Record(r)
             \/ Try(r) \/ Fails(r) \/ FileRefused(r) \/ PullEnds(r) \/ UpEnds(r) \/ ActEnds(r)
      PROVE  TornInv'
  <2> SUFFICES ASSUME Flawless'
               PROVE  /\ Sound(copy') /\ \A v \in versions' : Sound(v.text)
                      /\ \A s \in Requests : Sound(req'[s].text) /\ Sound(rec'[s].text) /\ Sound(loaded'[s])
    BY DEF TornInv
  <2> USE DEF store, local
  <2>1. UNCHANGED mix /\ (faults' = faults \/ Fault)
    BY <1>2 DEF Arrive, ReadOld, Probe, Probed, Save, Target, Current, Write, Record, RecordRead, RecordInsert,
                TrimRead, Prune, Try, Fails, FileRefused, PullEnds, UpEnds, ActEnds
  <2>2. Flawless /\ ~Fault BY <2>1, FlawlessBefore, FaultSpoils
  <2>3. /\ Sound(copy) /\ \A v \in versions : Sound(v.text)
        /\ \A s \in Requests : Sound(req[s].text) /\ Sound(rec[s].text) /\ Sound(loaded[s])
    BY <2>2 DEF TornInv
  <2>4. Sound(None) /\ Sound(Template) /\ \A t \in Edits : Sound(t)
    BY NoneAssumption, TornAssumption DEF Sound, Texts
  <2>5. /\ DOMAIN req = Requests /\ DOMAIN rec = Requests /\ DOMAIN loaded = Requests
        /\ \A s \in Requests : DOMAIN rec[s] = {"text", "base", "keep"}
    BY DEF TypeOK
  <2>6. Sound(copy')
    <3>1. copy' = copy \/ copy' = Template \/ copy' = req[r].text \/ Fault
      BY <1>2 DEF Arrive, ReadOld, Probe, Probed, Save, Target, Current, Write, Record, RecordRead, RecordInsert,
                  TrimRead, Prune, Try, Fails, FileRefused, PullEnds, UpEnds, ActEnds
    <3>2. QED BY <2>2, <2>3, <2>4, <3>1
  <2>7. \A v \in versions' : Sound(v.text)
    <3>1. versions' \subseteq versions \cup {[id |-> nextId, num |-> rec[r].base + 1, text |-> rec[r].text]}
      BY <1>2 DEF Arrive, ReadOld, Probe, Probed, Save, Target, Current, Write, Record, RecordRead, RecordInsert,
                  TrimRead, Prune, Try, Fails, FileRefused, PullEnds, UpEnds, ActEnds
    <3>2. QED BY <2>3, <3>1
  <2>8. \A s \in Requests : Sound(req'[s].text)
    <3>1. CASE Arrive(r)
      <4>1. PICK q \in Asked : req' = [req EXCEPT ![r] = q] BY <3>1 DEF Arrive
      <4>2. Sound(q.text) BY <2>3, <2>4 DEF Asked
      <4>3. QED BY <2>3, <2>5, <4>1, <4>2
    <3>2. CASE req' = req BY <2>3, <3>2
    <3>3. QED BY <1>2, <3>1, <3>2
            DEF ReadOld, Probe, Probed, Save, Target, Current, Write, Record, RecordRead, RecordInsert,
                TrimRead, Prune, Try, Fails, FileRefused, PullEnds, UpEnds, ActEnds
  <2>9. \A s \in Requests : Sound(rec'[s].text)
    <3>1. \/ rec' = rec
          \/ rec' = [rec EXCEPT ![r].text = copy] \/ rec' = [rec EXCEPT ![r].text = Template]
          \/ \E base : rec' = [rec EXCEPT ![r].base = base]
          \/ \E keep : rec' = [rec EXCEPT ![r].keep = keep]
          \/ rec' = [rec EXCEPT ![r] = NoRecord]
      BY <1>2 DEF Arrive, ReadOld, Probe, Probed, Save, Target, Current, Write, Record, RecordRead, RecordInsert,
                  TrimRead, Prune, Try, Fails, FileRefused, PullEnds, UpEnds, ActEnds
    <3>2. \A s \in Requests \ {r} : rec'[s] = rec[s] BY <2>5, <3>1
    <3>3. rec'[r].text \in {rec[r].text, copy, Template, None} BY <2>5, <3>1 DEF NoRecord
    <3>4. QED BY <2>3, <2>4, <3>2, <3>3
  <2>10. \A s \in Requests : Sound(loaded'[s])
    <3>1. loaded' = loaded \/ \E t \in {loaded[r], copy, None} : loaded' = [loaded EXCEPT ![r] = t]
      BY <1>2 DEF Arrive, ReadOld, Probe, Probed, Save, Target, Current, Write, Record, RecordRead, RecordInsert,
                  TrimRead, Prune, Try, Fails, FileRefused, PullEnds, UpEnds, ActEnds
    <3>2. QED BY <2>3, <2>4, <2>5, <3>1
  <2>11. QED BY <2>6, <2>7, <2>8, <2>9, <2>10
<1>3. QED BY <1>1, <1>2 DEF Next

(* Every step of a request that is alone keeps what is known of it.        *)
LEMMA SoloStep ==
  ASSUME TypeOK, TextInv, LockInv, BoundInv, TornInv, SoloInv, ~mix.overlap, [Next]_vars
  PROVE  SoloInv'
<1>1. CASE UNCHANGED vars
  <2>1. UNCHANGED <<mix, copy, versions, running, pc, req, rec, stage, loaded, faults>>
    BY <1>1 DEF vars, store, local
  <2>2. QED BY <2>1 DEF SoloInv, Knows, Settled, Flawless, Truthful, Tells, Carried
<1>2. ASSUME NEW r \in Requests,
             \/ Arrive(r) \/ ReadOld(r) \/ Probe(r) \/ Probed(r) \/ Save(r)
             \/ Target(r) \/ Current(r) \/ Write(r) \/ Record(r)
             \/ Try(r) \/ Fails(r) \/ FileRefused(r) \/ PullEnds(r) \/ UpEnds(r) \/ ActEnds(r)
      PROVE  SoloInv'
  <2> USE DEF store, local
  <2>0. /\ DOMAIN rec = Requests /\ DOMAIN req = Requests /\ DOMAIN stage = Requests /\ DOMAIN loaded = Requests
        /\ stage[r] \in {"before", "after"} /\ Knows(r) /\ Rows(versions)
    BY DEF TypeOK, SoloInv, BoundInv
  <2>a. ASSUME UNCHANGED <<versions, running>> PROVE Truthful' <=> Truthful
    BY <2>a DEF Truthful, Tells
  <2>b. ASSUME UNCHANGED <<mix, faults>> \/ (UNCHANGED mix /\ Fault), Flawless' PROVE Flawless
    BY <2>b, FlawlessBefore
  <2>1. CASE Arrive(r)
    <3>1. PICK q \in Asked :
            Goto(r, CASE q.kind = "deploy" -> "old" [] q.kind = "act" -> "act" [] OTHER -> "probe")
      BY <2>1 DEF Arrive
    <3>2. PICK step : step = CASE q.kind = "deploy" -> "old" [] q.kind = "act" -> "act" [] OTHER -> "probe"
      OBVIOUS
    <3>3. step \in {"old", "act", "probe"} /\ Goto(r, step) BY <3>1, <3>2
    <3>4. /\ pc[r] = "idle" /\ Settled
          /\ UNCHANGED <<mix, copy, versions, running, rec, stage, loaded, faults>>
      BY <2>1 DEF Arrive
    <3>5. stage[r] = "before" /\ (Flawless => Truthful) BY <2>0, <3>4 DEF Knows, SoloInv
    <3>6. pc'[r] = step BY <3>3, Moves
    <3>7. Knows(r)'
      <4>1. Flawless' => Truthful' BY <2>a, <3>4, <3>5 DEF Flawless
      <4>2. QED BY <3>3, <3>4, <3>5, <3>6, <4>1 DEF Knows
    <3>8. QED BY <3>3, <3>4, <3>7, OneByOne
  <2>2. CASE ReadOld(r)
    <3>1. /\ pc[r] = "old" /\ UNCHANGED <<mix, copy, versions, running, req, stage, loaded, faults>>
      BY <2>2 DEF ReadOld
    <3>2. stage[r] = "before" BY <2>0, <3>1 DEF Knows
    <3>3. CASE copy = None
      <4>1. Goto(r, "write") BY <2>2, <3>3 DEF ReadOld
      <4>2. pc'[r] = "write" BY <4>1, Moves
      <4>3. Knows(r)' BY <3>1, <3>2, <3>3, <4>2 DEF Knows
      <4>4. QED BY <3>1, <4>1, <4>3, OneByOne
    <3>4. CASE copy # None
      <4>1. Goto(r, "record") /\ rec' = [rec EXCEPT ![r].text = copy] BY <2>2, <3>4 DEF ReadOld
      <4>2. pc'[r] = "record" /\ rec'[r].text = copy
        <5>1. rec[r] \in [text : Texts \cup {None}, base : Nat, keep : SUBSET (1 .. nextId - 1)] BY DEF TypeOK
        <5>2. QED BY <2>0, <4>1, <5>1, Moves
      <4>3. Knows(r)' BY <3>1, <3>2, <4>2 DEF Knows, Carried
      <4>4. QED BY <3>1, <4>1, <4>3, OneByOne
    <3>5. QED BY <3>3, <3>4
  <2>3. CASE Probe(r)
    <3>1. PICK step \in {"probed", "done"} : Goto(r, step) BY <2>3 DEF Probe
    <3>2. pc[r] = "probe" /\ pc'[r] = step /\ UNCHANGED <<mix, copy, versions, running, req, rec, stage, loaded, faults>>
      BY <2>3, <3>1, Moves DEF Probe
    <3>3. stage[r] = "before" /\ (Flawless => Truthful) BY <2>0, <3>2 DEF Knows
    <3>4. Flawless' => Truthful' BY <2>a, <3>2, <3>3 DEF Flawless
    <3>5. Knows(r)' BY <3>1, <3>2, <3>3, <3>4 DEF Knows
    <3>6. QED BY <3>1, <3>2, <3>4, <3>5, OneByOne
  <2>4. CASE Probed(r)
    <3>1. PICK step : step = CASE req[r].kind = "edit" -> "save" [] req[r].kind = "upgrade" -> "pull"
                               [] OTHER -> "target"
      OBVIOUS
    <3>2. /\ step \in {"save", "target"} \/ (step = "pull" /\ req[r].kind = "upgrade")
          /\ Goto(r, step)
      BY <2>4, <3>1 DEF Probed
    <3>3. pc[r] = "probed" /\ pc'[r] = step /\ UNCHANGED <<mix, copy, versions, running, req, rec, stage, loaded, faults>>
      BY <2>4, <3>2, Moves DEF Probed
    <3>4. stage[r] = "before" /\ (Flawless => Truthful) BY <2>0, <3>3 DEF Knows
    <3>5. Flawless' => Truthful' BY <2>a, <3>3, <3>4 DEF Flawless
    <3>6. Knows(r)' BY <3>2, <3>3, <3>4, <3>5 DEF Knows
    <3>7. QED BY <3>2, <3>3, <3>5, <3>6, OneByOne
  <2>5. CASE Save(r)
    <3>1. /\ Goto(r, "done") /\ pc[r] = "save" /\ UNCHANGED <<mix, versions, running, req, rec, stage, loaded>>
          /\ faults' = faults \/ Fault
      BY <2>5 DEF Save
    <3>2. pc'[r] = "done" BY <3>1, Moves
    <3>3. Flawless => Truthful BY <2>0, <3>1 DEF Knows
    <3>4. Flawless' => Truthful' BY <2>a, <2>b, <3>1, <3>3
    <3>5. Knows(r)' BY <3>2 DEF Knows
    <3>6. QED BY <3>1, <3>4, <3>5, OneByOne
  <2>6. CASE Target(r)
    <3>1. PICK step \in {"current", "done"} : Goto(r, step) BY <2>6 DEF Target
    <3>2. /\ pc[r] = "target" /\ pc'[r] = step /\ UNCHANGED <<mix, copy, versions, running, req, rec, stage, loaded>>
          /\ faults' = faults \/ Fault
      BY <2>6, <3>1, Moves DEF Target
    <3>3. stage[r] = "before" /\ (Flawless => Truthful) BY <2>0, <3>2 DEF Knows
    <3>4. Flawless' => Truthful' BY <2>a, <2>b, <3>2, <3>3
    <3>5. Knows(r)' BY <3>1, <3>2, <3>3 DEF Knows
    <3>6. QED BY <3>1, <3>2, <3>4, <3>5, OneByOne
  <2>7. CASE Current(r)
    <3>1. pc[r] = "current" /\ UNCHANGED <<mix, copy, versions, running, req, stage, loaded>> BY <2>7 DEF Current
    <3>2. Carried(r) = copy BY <2>0, <3>1 DEF Knows, Carried
    <3>3. CASE Goto(r, "record") /\ rec' = [rec EXCEPT ![r].text = copy]
      <4>1. pc'[r] = "record" /\ rec'[r].text = copy
        <5>1. rec[r] \in [text : Texts \cup {None}, base : Nat, keep : SUBSET (1 .. nextId - 1)] BY DEF TypeOK
        <5>2. QED BY <2>0, <3>3, <5>1, Moves
      <4>2. Carried(r)' = Carried(r) BY <3>1 DEF Carried
      <4>3. Knows(r)' BY <3>2, <4>1, <4>2 DEF Knows
      <4>4. QED BY <3>1, <3>3, <4>3, OneByOne
    <3>4. CASE Fault /\ Goto(r, Unrecorded(r))
      <4>1. ~Flawless' BY <3>1, <3>4, FaultSpoils
      <4>2. PICK step : Goto(r, step) /\ step = Unrecorded(r) BY <3>4
      <4>3. \/ step = "done"
            \/ step = "write" /\ stage[r] = "before" /\ req[r].kind # "rollback"
        BY <4>2 DEF Unrecorded, Recorded
      <4>4. pc'[r] = step BY <4>2, Moves
      <4>5. Knows(r)' BY <3>1, <4>1, <4>3, <4>4 DEF Knows
      <4>6. QED BY <3>1, <4>1, <4>2, <4>3, <4>5, OneByOne
    <3>5. QED BY <2>7, <3>3, <3>4 DEF Current
  <2>8. CASE Write(r)
    <3>1. pc[r] = "write" /\ UNCHANGED <<mix, versions, running, req, rec, stage, loaded>> BY <2>8 DEF Write
    <3>2. stage[r] = "before" BY <2>0, <3>1 DEF Knows
    <3>3. CASE Fault /\ Goto(r, "done")
      <4>1. ~Flawless' /\ pc'[r] = "done" BY <3>1, <3>3, FaultSpoils, Moves
      <4>2. Knows(r)' BY <4>1 DEF Knows
      <4>3. QED BY <3>1, <3>3, <4>1, <4>2, OneByOne
    <3>a. CASE Goto(r, "done") /\ faults' = faults /\ (IF req[r].kind = "rollback" THEN req[r].text ELSE Template) = Torn
      <4>1. ~Flawless BY <3>a, TornAssumption DEF TornInv, Sound
      <4>2. ~Flawless' /\ pc'[r] = "done" BY <3>1, <3>a, <4>1, Moves DEF Flawless
      <4>3. Knows(r)' BY <4>2 DEF Knows
      <4>4. QED BY <3>1, <3>a, <4>2, <4>3, OneByOne
    <3>4. CASE LET rollback == req[r].kind = "rollback" IN
               /\ copy' = IF rollback THEN req[r].text ELSE Template
               /\ Goto(r, IF rollback THEN "pull" ELSE "up")
      <4>1. PICK step : /\ Goto(r, step)
                        /\ \/ step = "pull" /\ req[r].kind = "rollback"
                           \/ step = "up" /\ copy' = Template
        BY <2>8, <3>4 DEF Write
      <4>2. pc'[r] = step BY <4>1, Moves
      <4>3. Knows(r)' BY <3>1, <3>2, <4>1, <4>2 DEF Knows
      <4>4. QED BY <3>1, <4>1, <4>3, OneByOne
    <3>5. QED BY <2>8, <3>3, <3>a, <3>4 DEF Write
  <2>9. CASE Record(r) BY <2>9, RecordSolo
  <2>10. CASE Try(r)
    <3>1. lock = None BY <2>10, LockIsFree DEF Try
    <3>2. PICK step : /\ Goto(r, step)
                      /\ \/ pc[r] = "pull" /\ step = "pulling"
                         \/ pc[r] = "up" /\ step = "upping"
                         \/ pc[r] = "act" /\ step = "acting"
      BY <2>10, <3>1 DEF Try
    <3>3. pc'[r] = step /\ UNCHANGED <<mix, copy, versions, running, req, rec, stage, faults>>
      BY <2>10, <3>2, Moves DEF Try
    <3>4. step = "upping" => loaded'[r] = copy BY <2>0, <2>10, <3>1, <3>2 DEF Try
    <3>5. stage[r] = "before" BY <2>0, <3>2 DEF Knows
    <3>6. step = "acting" /\ Flawless' => Truthful'
      <4>1. ASSUME step = "acting", Flawless PROVE Truthful BY <2>0, <3>2, <4>1 DEF Knows
      <4>2. QED BY <2>a, <3>3, <4>1 DEF Flawless
    <3>7. step \in {"pulling", "upping"} /\ req[r].kind = "deploy" => copy = Template BY <2>0, <3>2 DEF Knows
    <3>8. Knows(r)' BY <3>2, <3>3, <3>4, <3>5, <3>6, <3>7 DEF Knows
    <3>9. QED BY <3>2, <3>3, <3>8, OneByOne
  <2>11. CASE Fails(r)
    <3>1. Goto(r, "done") /\ Fault /\ UNCHANGED <<mix, stage>> /\ pc[r] \notin {"idle", "done"}
      BY <2>11 DEF Fails, Commands
    <3>2. ~Flawless' /\ pc'[r] = "done" BY <3>1, FaultSpoils, Moves
    <3>3. Knows(r)' BY <3>2 DEF Knows
    <3>4. QED BY <3>1, <3>2, <3>3, OneByOne
  <2>11a. CASE FileRefused(r)
    <3>1. Goto(r, "done") /\ UNCHANGED <<mix, stage, faults>> /\ pc[r] \notin {"idle", "done"} /\ loaded[r] = Torn
      BY <2>11a DEF FileRefused
    <3>2. ~Flawless BY <3>1 DEF TornInv, Sound
    <3>3. ~Flawless' /\ pc'[r] = "done" BY <3>1, <3>2, Moves DEF Flawless
    <3>4. Knows(r)' BY <3>3 DEF Knows
    <3>5. QED BY <3>1, <3>3, <3>4, OneByOne
  <2>12. CASE PullEnds(r)
    <3>1. /\ pc[r] = "pulling" /\ Goto(r, "up")
          /\ UNCHANGED <<mix, copy, versions, running, req, rec, stage, faults>>
      BY <2>12 DEF PullEnds
    <3>2. pc'[r] = "up" BY <3>1, Moves
    <3>3. stage[r] = "before" /\ (req[r].kind = "deploy" => copy = Template) BY <2>0, <3>1 DEF Knows
    <3>4. Knows(r)' BY <3>1, <3>2, <3>3 DEF Knows
    <3>5. QED BY <3>1, <3>4, OneByOne
  <2>13. CASE UpEnds(r)
    <3>1. /\ pc[r] = "upping" /\ UNCHANGED <<mix, copy, versions, req, faults>> /\ running' = loaded[r]
          /\ stage' = [stage EXCEPT ![r] = "after"]
      BY <2>13 DEF UpEnds
    <3>2. running' = copy BY <2>0, <3>1 DEF Knows
    <3>3. stage'[r] = "after" /\ \A s \in Requests \ {r} : stage'[s] = stage[s] BY <2>0, <3>1
    <3>4. CASE req[r].kind = "deploy"
      <4>1. Goto(r, "record") /\ rec' = [rec EXCEPT ![r].text = Template] BY <2>13, <3>4 DEF UpEnds
      <4>2. pc'[r] = "record" /\ rec'[r].text = Template
        <5>1. rec[r] \in [text : Texts \cup {None}, base : Nat, keep : SUBSET (1 .. nextId - 1)] BY DEF TypeOK
        <5>2. QED BY <2>0, <4>1, <5>1, Moves
      <4>3. copy = Template BY <2>0, <3>1, <3>4 DEF Knows
      <4>4. Knows(r)' BY <3>2, <3>3, <4>2, <4>3 DEF Knows, Carried
      <4>5. QED BY <3>1, <3>3, <4>1, <4>4, OneByOne
    <3>5. CASE req[r].kind # "deploy"
      <4>1. Goto(r, "current") BY <2>13, <3>5 DEF UpEnds
      <4>2. pc'[r] = "current" BY <4>1, Moves
      <4>3. Knows(r)' BY <3>1, <3>2, <3>3, <4>2 DEF Knows
      <4>4. QED BY <3>1, <3>3, <4>1, <4>3, OneByOne
    <3>6. QED BY <3>4, <3>5
  <2>14. CASE ActEnds(r)
    <3>1. /\ pc[r] = "acting" /\ Goto(r, "done") /\ UNCHANGED <<mix, versions, stage, faults>>
          /\ running' \in {running, None}
      BY <2>14 DEF ActEnds
    <3>2. pc'[r] = "done" BY <3>1, Moves
    <3>3. Flawless' => Truthful'
      <4>1. Flawless' => Flawless BY <3>1 DEF Flawless
      <4>2. Flawless => Truthful BY <2>0, <3>1 DEF Knows
      <4>3. QED BY <3>1, <4>1, <4>2 DEF Truthful, Tells
    <3>4. Knows(r)' BY <3>2 DEF Knows
    <3>5. QED BY <3>1, <3>3, <3>4, OneByOne
  <2>15. QED BY <1>2, <2>1, <2>2, <2>3, <2>4, <2>5, <2>6, <2>7, <2>8, <2>9, <2>10, <2>11, <2>11a, <2>12,
                <2>13, <2>14
<1>3. QED BY <1>1, <1>2 DEF Next

(***************************************************************************)
(* The history holds.                                                      *)
(***************************************************************************)
HistoryInv == TypeOK /\ TextInv /\ LockInv /\ BoundInv /\ TornInv /\ SoloInv

LEMMA HistoryStart == Init => HistoryInv
<1> SUFFICES ASSUME Init PROVE HistoryInv OBVIOUS
<1>1. /\ mix.faults \in Nat /\ mix.copy \in Edits \cup {Template, None} /\ faults = mix.faults /\ copy = mix.copy
      /\ mix \in Mixes
  BY MixAssumption DEF Init
<1>2. /\ lock = None /\ pc = [r \in Requests |-> "idle"] /\ stage = [r \in Requests |-> "before"]
      /\ req = [r \in Requests |-> [kind |-> None, text |-> None, row |-> 0]]
      /\ rec = [r \in Requests |-> NoRecord] /\ loaded = [r \in Requests |-> None]
  BY DEF Init
<1>3. PICK v : v = [id |-> 1, num |-> 1, text |-> Template] OBVIOUS
<1>4. \/ versions = {} /\ nextId = 1 /\ running = None
      \/ versions = {v} /\ nextId = 2 /\ running = Template
  <2>1. CASE copy = None
    <3>1. versions = {} BY <1>1, <2>1 DEF Init
    <3>2. Cardinality(versions) = 0 BY <3>1, FS_EmptySet
    <3>3. nextId = 1 BY <3>2 DEF Init
    <3>4. running = IF copy = None THEN None ELSE Template BY DEF Init
    <3>5. QED BY <2>1, <3>1, <3>3, <3>4
  <2>2. CASE copy # None
    <3>1. versions = {v} BY <1>3, <2>2 DEF Init
    <3>2. Cardinality({v}) = 1 BY FS_Singleton
    <3>3. Cardinality(versions) = 1 BY <3>1, <3>2
    <3>4. nextId = 2 BY <3>3 DEF Init
    <3>5. running = Template BY <1>1, <2>2 DEF Init
    <3>6. QED BY <3>1, <3>4, <3>5
  <2>3. QED BY <2>1, <2>2
<1>5. Rows(versions) /\ Cardinality(versions) <= KeepN /\ (versions # {} => IsNewest(v, versions))
  <2>1. v.id = 1 /\ v.num = 1 BY <1>3
  <2>2. KeepN \in Nat /\ KeepN >= 1 BY KeepAssumption
  <2>3. CASE versions = {} BY <2>2, <2>3, FS_EmptySet DEF Rows
  <2>4. CASE versions = {v}
    <3>1. IsFiniteSet({v}) /\ Cardinality({v}) = 1 BY FS_Singleton
    <3>2. Cardinality(versions) <= KeepN BY <2>2, <2>4, <3>1
    <3>3. IsFiniteSet(versions) BY <2>4, <3>1
    <3>4. Rows(versions) BY <2>1, <2>4, <3>3 DEF Rows
    <3>5. IsNewest(v, versions) BY <2>4 DEF IsNewest
    <3>6. QED BY <3>2, <3>4, <3>5
  <2>5. QED BY <1>4, <2>3, <2>4
<1>6. TypeOK
  <2>1. versions \subseteq [id : 1 .. nextId - 1, num : Nat, text : Texts]
    BY <1>3, <1>4 DEF Texts
  <2>2. NoRecord \in [text : Texts \cup {None}, base : Nat, keep : SUBSET (1 .. nextId - 1)] BY DEF NoRecord
  <2>3. running \in Texts \cup {None} /\ copy \in Texts \cup {None} /\ nextId \in Nat \ {0} BY <1>1, <1>4 DEF Texts
  <2>4. [kind |-> None, text |-> None, row |-> 0]
          \in [kind : Kinds \cup {None}, text : Texts \cup {None}, row : 0 .. nextId - 1]
    BY <2>3
  <2>5. pc \in [Requests -> Steps] BY <1>2 DEF Steps
  <2>6. QED BY <1>1, <1>2, <2>1, <2>2, <2>3, <2>4, <2>5 DEF TypeOK
<1>7. TextInv
  <2>1. \A r \in Requests : req[r].kind = None /\ pc[r] = "idle" BY <1>2
  <2>2. None \notin {"edit", "rollback"} BY NoneAssumption DEF Kinds
  <2>3. QED BY <2>1, <2>2 DEF TextInv
<1>8. LockInv BY <1>2 DEF LockInv, Holding, Commands, Steps
<1>9. BoundInv BY <1>1, <1>2, <1>5 DEF BoundInv
<1>10. SoloInv
  <2>1. Truthful
    <3>1. running # None => versions = {v} /\ running = Template BY <1>4
    <3>2. QED BY <1>3, <1>5, <3>1 DEF Truthful, Tells
  <2>2. \A r \in Requests : Knows(r) BY <1>2 DEF Knows
  <2>3. QED BY <1>2, <2>1, <2>2 DEF SoloInv
<1>11. TornInv
  <2>1. copy # Torn /\ None # Torn /\ Template # Torn
    BY <1>1, NoneAssumption, TornAssumption DEF Texts
  <2>2. QED BY <1>2, <1>3, <1>4, <2>1 DEF TornInv, Sound, NoRecord
<1>12. QED BY <1>6, <1>7, <1>8, <1>9, <1>10, <1>11 DEF HistoryInv

LEMMA HistoryStep == ASSUME HistoryInv, [Next]_vars PROVE HistoryInv'
<1>1. mix' = mix
  BY DEF vars, store, local, Next, Arrive, ReadOld, Probe, Probed, Save, Target, Current, Write, Record,
         RecordRead, RecordInsert, TrimRead, Prune, Try, Fails, FileRefused, PullEnds, UpEnds, ActEnds
<1>2. SoloInv' BY <1>1, SoloStep DEF HistoryInv, SoloInv
<1>3. QED BY <1>2, TypeStep, TextStep, LockStep, BoundStep, TornStep DEF HistoryInv, BoundInv

(* Types, for any requests, contents and scenarios (stacks.go,             *)
(* stack_tasks.go, stack_versions.go).                                     *)
THEOREM StacksTypes == Spec => []TypeOK
<1>1. HistoryInv => TypeOK BY DEF HistoryInv
<1>2. QED BY HistoryStart, HistoryStep, <1>1, PTL DEF Spec

(* The history is bounded however many recorders meet, as long as nothing  *)
(* fails; and when requests come one by one it has what a rollback or a    *)
(* deployment overwrites, for a rollback also when statements fail, and    *)
(* its newest version is what runs (RecordStackVersion and                 *)
(* trimStackVersions of stack_versions.go, execStackRollback, Deploy).     *)
THEOREM HistoryIsKept == Spec => HistoryHolds
<1> DEFINE Back == \A r \in Requests :
             /\ ~mix.overlap /\ pc[r] = "write" /\ copy' # copy /\ copy # None
             /\ req[r].kind = "rollback" \/ faults = mix.faults
             => copy \in {v.text : v \in versions}
<1>1. HistoryInv => Back
  <2> SUFFICES ASSUME HistoryInv, NEW r \in Requests, ~mix.overlap, pc[r] = "write", copy # None,
                      req[r].kind = "rollback" \/ faults = mix.faults
               PROVE  copy \in {v.text : v \in versions}
    OBVIOUS
  <2>1. Knows(r) BY DEF HistoryInv, SoloInv
  <2>2. QED BY <2>1 DEF Knows, Flawless
<1>2. HistoryInv => HistoryBounded
  BY DEF HistoryInv, BoundInv, HistoryBounded, Settled, Flawless
<1>3. HistoryInv => RecordsWhatRuns
  <2> SUFFICES ASSUME HistoryInv, Settled, ~mix.overlap, faults = mix.faults, running # None
               PROVE  versions # {} /\ Newest(versions).text = running
    BY DEF RecordsWhatRuns
  <2>1. Rows(versions) /\ Tells(running) BY DEF HistoryInv, BoundInv, SoloInv, Flawless, Truthful
  <2>2. PICK v \in versions : IsNewest(v, versions) /\ v.text = running BY <2>1 DEF Tells
  <2>3. Newest(versions) = v BY <2>1, <2>2, OneNewest
  <2>4. QED BY <2>2, <2>3
<1>4. HistoryInv => [Back]_vars BY <1>1
<1> HIDE DEF Back
<1>5. Spec => [][Back]_vars BY HistoryStart, HistoryStep, <1>4, PTL DEF Spec
<1>6. Spec => [](HistoryBounded /\ RecordsWhatRuns) BY HistoryStart, HistoryStep, <1>2, <1>3, PTL DEF Spec
<1>7. Spec => Recoverable BY <1>5 DEF Recoverable, Back
<1>8. QED BY <1>6, <1>7 DEF HistoryHolds
=============================================================================
