-------------------------- MODULE VMLifecycleProofs --------------------------
(***************************************************************************)
(* Theorems about VMLifecycle for every set of calls and names, every      *)
(* number of workers and failures: types and locks in every mix, and what  *)
(* the requests that take turns for a machine keep of rows, domains and    *)
(* volumes, wherever the disks of a new machine come from.                 *)
(***************************************************************************)
EXTENDS VMLifecycle, TLAPS

RowType  == [name : Names \cup {None}, life : {"none", "live", "bin", "gone"},
             archive : SUBSET Volumes]
DomType  == [uuid : VMs \cup {None}, disks : SUBSET Volumes]
CallType == [pc : Pcs, kind : Kinds \cup {None}, vm : VMs \cup {None},
             name : Names \cup {None}]
LocType  == [disks : SUBSET Volumes, set : SUBSET Volumes]

VType ==
  /\ mix \in Mixes
  /\ row \in [VMs -> RowType] /\ dom \in [Names -> DomType]
  /\ vols \subseteq Volumes /\ images \subseteq Volumes
  /\ backing \in [Volumes -> Volumes \cup {None}]
  /\ lock \subseteq VMs
  /\ call \in [Calls -> CallType] /\ loc \in [Calls -> LocType]
  /\ failures \in 0..MaxFaults

\* The places where a request of kind k may be
Fits(k, pc) ==
  /\ pc \in {"found", "free", "held"} => k \in Locks
  /\ pc \in {"unlisted", "restored"} => k = "restore"
  /\ pc \in {"purging", "purgeable", "undefining", "erasing"} => k = "purge"
  /\ pc = "queued" => k \in Submitted
  /\ pc \in {"newvol", "newrow", "newdef"} => k = "create"
  /\ pc \in {"source", "clonevol", "clonedef", "clonerow"} => k = "clone"
  /\ pc \in {"imgvol", "imgdef", "imgrow"} => k = "image"
  /\ pc \in {"delread", "undefine", "guard", "delvols", "delrow"} => k = "delete"
  /\ pc \in {"pool", "refs", "doms", "sweep"} => k = "cleanup"
  /\ pc \in {"finread", "sysprep", "finundef", "finrow", "register"} => k = "finalize"

\* A request is where its kind brings it, with a machine or a new name as its kind demands.
KindInv ==
  \A c \in Calls :
    /\ call[c].pc = "idle" => call[c].vm = None /\ call[c].name = None
    /\ call[c].pc # "idle" =>
         /\ call[c].kind \in mix.kinds
         /\ call[c].kind \in Makes <=> call[c].name # None
         /\ call[c].kind \in {"create", "image", "cleanup"} <=> call[c].vm = None
    /\ Fits(call[c].kind, call[c].pc)

\* A row that was ever written has its name, and so has the row of every machine a request
\* was made for.
RowInv ==
  /\ \A v \in VMs : row[v].life # "none" => row[v].name # None
  /\ \A c \in Calls : call[c].vm # None => row[call[c].vm].name # None
  /\ \A c \in Calls : call[c].pc = "newdef" => row[c].name # None

(***************************************************************************)
(* What the helpers of the actions do                                      *)
(***************************************************************************)
\* Every place an action names.
LEMMA PcFacts ==
  {"found", "free", "held", "unlisted", "restored", "purging", "purgeable", "undefining",
   "erasing", "queued", "newvol", "newrow", "newdef", "source", "clonevol", "clonedef",
   "clonerow", "imgvol", "imgdef", "imgrow", "delread", "undefine", "guard", "delvols",
   "delrow", "pool", "refs", "doms", "sweep", "finread", "sysprep", "finundef", "finrow",
   "register", "idle", "done"} \subseteq Pcs
BY DEF Pcs, TaskPcs, HandlerPcs

\* Goto moves one call and leaves what it was asked for.
LEMMA GotoFacts ==
  ASSUME VType, NEW c \in Calls, NEW p \in Pcs, Goto(c, p)
  PROVE  /\ call' \in [Calls -> CallType]
         /\ \A d \in Calls : /\ call'[d].kind = call[d].kind /\ call'[d].vm = call[d].vm
                             /\ call'[d].name = call[d].name
                             /\ d # c => call'[d] = call[d]
         /\ call'[c].pc = p
<1>1. call \in [Calls -> CallType] /\ call' = [call EXCEPT ![c].pc = p]
  BY DEF VType, Goto
<1>2. call' \in [Calls -> CallType]
  BY <1>1 DEF CallType
<1>3. \A d \in Calls : /\ call'[d].kind = call[d].kind /\ call'[d].vm = call[d].vm
                       /\ call'[d].name = call[d].name
                       /\ d # c => call'[d] = call[d]
  BY <1>1 DEF CallType
<1> QED BY <1>1, <1>2, <1>3 DEF CallType

\* A failure uses up one of those left.
LEMMA FaultFacts ==
  ASSUME VType, Failing \/ UNCHANGED failures
  PROVE  failures' \in 0..MaxFaults /\ (failures' = 0 => failures = 0) /\ (Failing => failures' # 0)
BY BoundAssumption DEF VType, Failing

\* Disks of a new machine are volumes of its name.
LEMMA DiskFacts ==
  ASSUME NEW n \in Names, NEW s \in {"", "-diska", "-sys", "-d2"}
  PROVE  Disks(n, s) \subseteq Volumes /\ <<n, s>> \in Disks(n, s) /\ <<n, s>> \in Volumes
<1>1. <<n, s>> \in Volumes /\ <<n, "-d2">> \in Volumes
  BY DEF Volumes
<1> QED BY <1>1 DEF Disks

\* Define writes one domain.
LEMMA DefineFacts ==
  ASSUME VType, NEW n \in Names, NEW d \in DomType, Define(n, d)
  PROVE  /\ dom' \in [Names -> DomType]
         /\ \A m \in Names : dom'[m] = IF m = n THEN d ELSE dom[m]
BY DEF VType, Define

\* The row of a machine changes its life only.
LEMMA LifeFacts ==
  ASSUME VType, NEW v \in VMs, NEW l \in {"none", "live", "bin", "gone"},
         row' = [row EXCEPT ![v].life = l]
  PROVE  /\ row' \in [VMs -> RowType]
         /\ \A u \in VMs : row'[u].name = row[u].name /\ row'[u].archive = row[u].archive
         /\ \A u \in VMs : row'[u].life = IF u = v THEN l ELSE row[u].life
<1>1. row \in [VMs -> RowType]
  BY DEF VType
<1> QED BY <1>1 DEF RowType

\* The row of a new machine.
LEMMA NewRowFacts ==
  ASSUME VType, NEW c \in Calls, NEW n \in Names, ListRow(c, n)
  PROVE  /\ row' \in [VMs -> RowType]
         /\ \A u \in VMs : u # c => row'[u] = row[u]
         /\ row'[c].name = n /\ row'[c].life = "live" /\ row'[c].archive = {}
<1>1. row \in [VMs -> RowType] /\ c \in VMs
  BY DEF VType, VMs
<1>2. row'[c] = [name |-> n, life |-> "live", archive |-> {}]
  BY <1>1 DEF ListRow
<1>3. [name |-> n, life |-> "live", archive |-> {}] \in RowType
  BY DEF RowType
<1> QED BY <1>1, <1>2, <1>3 DEF ListRow

\* The set a task works through.
LEMMA SetFacts ==
  ASSUME VType, NEW c \in Calls, NEW s \in SUBSET Volumes, loc' = [loc EXCEPT ![c].set = s]
  PROVE  loc' \in [Calls -> LocType]
<1>1. loc \in [Calls -> LocType]
  BY DEF VType
<1> QED BY <1>1 DEF LocType

\* What Arrive makes of an idle call.
LEMMA ArriveFacts ==
  ASSUME VType, NEW c \in Calls, Arrive(c)
  PROVE  \E k \in mix.kinds, v \in VMs \cup {None}, n \in Names \cup {None} :
           /\ call' \in [Calls -> CallType]
           /\ \A d \in Calls : d # c => call'[d] = call[d]
           /\ call'[c].pc = (IF k \in Locks THEN "found" ELSE "queued")
           /\ call'[c].kind = k /\ call'[c].vm = v /\ call'[c].name = n
           /\ k \in {"create", "image", "cleanup"} <=> v = None
           /\ v # None => row[v].life = IF k \in {"restore", "purge"} THEN "bin" ELSE "live"
           /\ k \in Makes <=> n # None
           /\ n # None => mix.reuse \/ ~Used(n)
           /\ v = None \/ mix.overlap \/ Turn(v)
<1>1. PICK k \in mix.kinds, v \in VMs \cup {None}, n \in Names \cup {None} :
        /\ IF k \in {"create", "image", "cleanup"} THEN v = None
           ELSE v # None /\ row[v].life = (IF k \in {"restore", "purge"} THEN "bin" ELSE "live")
        /\ IF k \in Makes THEN n # None /\ (mix.reuse \/ ~Used(n)) ELSE n = None
        /\ v = None \/ mix.overlap \/ Turn(v)
        /\ call' = [call EXCEPT ![c] = [pc |-> IF k \in Locks THEN "found" ELSE "queued",
                                        kind |-> k, vm |-> v, name |-> n]]
  BY DEF Arrive
<1>2. k \in Kinds
  BY MixAssumption DEF VType
<1>3. [pc |-> IF k \in Locks THEN "found" ELSE "queued", kind |-> k, vm |-> v, name |-> n]
        \in CallType
  BY <1>2, PcFacts DEF CallType
<1>4. call \in [Calls -> CallType]
  BY DEF VType
<1>5. /\ call' \in [Calls -> CallType]
      /\ \A d \in Calls : d # c => call'[d] = call[d]
      /\ call'[c] = [pc |-> IF k \in Locks THEN "found" ELSE "queued",
                     kind |-> k, vm |-> v, name |-> n]
  BY <1>1, <1>3, <1>4
<1> QED BY <1>1, <1>5

\* The arguments of a request, by its place.
LEMMA ArgFacts ==
  ASSUME VType, KindInv, RowInv, NEW c \in Calls
  PROVE  /\ call[c].pc \in {"newvol", "newrow", "newdef", "source", "clonevol", "clonedef",
                           "clonerow", "imgvol", "imgdef", "imgrow"} => call[c].name \in Names
         /\ call[c].pc \in {"found", "free", "held", "unlisted", "restored", "purging",
                           "purgeable", "undefining", "erasing", "source", "clonevol",
                           "clonedef", "clonerow", "delread", "undefine", "guard", "delvols",
                           "delrow", "finread", "sysprep", "finundef", "finrow", "register"} =>
              call[c].vm \in VMs /\ row[call[c].vm].name \in Names
         /\ call[c].pc \in Pcs /\ loc[c].disks \subseteq Volumes /\ loc[c].set \subseteq Volumes
         /\ call[c].vm \in VMs \cup {None} /\ call[c].name \in Names \cup {None}
<1>1. /\ call[c].pc \in Pcs /\ call[c].vm \in VMs \cup {None} /\ call[c].name \in Names \cup {None}
      /\ loc[c].disks \subseteq Volumes /\ loc[c].set \subseteq Volumes
  BY DEF VType, CallType, LocType
<1>2. \A v \in VMs : row[v].name \in Names \cup {None}
  BY DEF VType, RowType
<1>3. call[c].pc # "idle" => /\ call[c].kind \in Makes <=> call[c].name # None
                             /\ call[c].kind \in {"create", "image", "cleanup"} <=>
                                  call[c].vm = None
  BY DEF KindInv
<1>4. Fits(call[c].kind, call[c].pc)
  BY DEF KindInv
<1>5. call[c].pc \in {"newvol", "newrow", "newdef", "source", "clonevol", "clonedef",
                      "clonerow", "imgvol", "imgdef", "imgrow"} => call[c].name \in Names
  <2>1. call[c].pc \in {"newvol", "newrow", "newdef"} => call[c].kind = "create"
    BY <1>4 DEF Fits
  <2>2. call[c].pc \in {"source", "clonevol", "clonedef", "clonerow"} => call[c].kind = "clone"
    BY <1>4 DEF Fits
  <2>3. call[c].pc \in {"imgvol", "imgdef", "imgrow"} => call[c].kind = "image"
    BY <1>4 DEF Fits
  <2>4. call[c].pc \in {"newvol", "newrow", "newdef", "source", "clonevol", "clonedef",
                        "clonerow", "imgvol", "imgdef", "imgrow"} =>
          call[c].pc # "idle" /\ call[c].kind \in Makes
    BY <2>1, <2>2, <2>3 DEF Makes
  <2> QED BY <1>1, <1>3, <2>4
<1>6. call[c].pc \in {"found", "free", "held", "unlisted", "restored", "purging", "purgeable",
                      "undefining", "erasing", "source", "clonevol", "clonedef", "clonerow",
                      "delread", "undefine", "guard", "delvols", "delrow", "finread",
                      "sysprep", "finundef", "finrow", "register"} => call[c].vm # None
  BY <1>3, <1>4 DEF Fits, Locks
<1>7. call[c].vm # None => call[c].vm \in VMs /\ row[call[c].vm].name \in Names
  BY <1>1, <1>2 DEF RowInv
<1> QED BY <1>1, <1>5, <1>6, <1>7

\* The rows, the domains and the volumes, one by one.
LEMMA StoreFacts ==
  ASSUME VType
  PROVE  /\ \A v \in VMs : /\ row[v].name \in Names \cup {None}
                           /\ row[v].life \in {"none", "live", "bin", "gone"}
                           /\ row[v].archive \subseteq Volumes
         /\ \A n \in Names : dom[n].uuid \in VMs \cup {None} /\ dom[n].disks \subseteq Volumes
         /\ NoDomain \in DomType
BY DEF VType, RowType, DomType, NoDomain

\* A restored machine keeps the domain it finds, or has the disks of the archive or the named one.
LEMMA RestoreFacts ==
  ASSUME VType, NEW c \in Calls, RestoreDomain(c), NEW v \in VMs, NEW n \in Names,
         call[c].vm = v, row[v].name = n
  PROVE  /\ Failing \/ UNCHANGED failures
         /\ \/ dom' = dom /\ (failures' = failures /\ dom[n].uuid = None => row[v].archive = {})
            \/ \E d \in SUBSET Volumes :
                 /\ d # {} /\ (d = row[v].archive \/ d = {<<n, "">>} \/ d = {<<n, "-diska">>} \/ d = {<<n, "-sys">>})
                 /\ d = row[v].archive \/ d \subseteq vols
                 /\ dom[n].uuid \in {None, v}
                 /\ Define(n, [uuid |-> v, disks |-> d])
<1>1. /\ NamedDisk(n) \subseteq vols
      /\ NamedDisk(n) \in {{}, {<<n, "">>}, {<<n, "-diska">>}, {<<n, "-sys">>}}
  BY DEF NamedDisk
<1>2. vols \subseteq Volumes /\ row[v].archive \subseteq Volumes
  BY StoreFacts DEF VType
<1>3. PICK k \in SUBSET Volumes : k = NamedDisk(n)
  BY <1>1, <1>2
<1>4. PICK a \in SUBSET Volumes : a = row[v].archive
  BY <1>2
<1>5. \A d : d \in SUBSET Volumes =>
        Redefined(v, d) = IF dom[n].uuid \notin {None, v} \/ d = {} THEN dom[n] ELSE [uuid |-> v, disks |-> d]
  BY DEF Redefined
<1>6. Archived(v) = IF a # {} THEN a ELSE k
  BY <1>3, <1>4 DEF Archived
<1>7. dom \in [Names -> DomType]
  BY DEF VType
<1>8. [dom EXCEPT ![n] = dom[n]] = dom
  BY <1>7
<1>9. CASE UNCHANGED failures /\ dom' = [dom EXCEPT ![n] = IF @.uuid = None THEN Redefined(v, Archived(v)) ELSE @]
  <2>1. CASE dom[n].uuid # None \/ (a = {} /\ k = {})
    BY <1>4, <1>5, <1>6, <1>8, <1>9, <2>1
  <2>2. CASE dom[n].uuid = None /\ a # {}
    <3>1. dom' = [dom EXCEPT ![n] = [uuid |-> v, disks |-> a]]
      BY <1>5, <1>6, <1>9, <2>2
    <3> QED BY <1>4, <1>9, <2>2, <3>1 DEF Define
  <2>3. CASE dom[n].uuid = None /\ a = {} /\ k # {}
    <3>1. dom' = [dom EXCEPT ![n] = [uuid |-> v, disks |-> k]]
      BY <1>5, <1>6, <1>9, <2>3
    <3> QED BY <1>1, <1>3, <1>9, <2>3, <3>1 DEF Define
  <2> QED BY <2>1, <2>2, <2>3
<1>10. CASE Failing /\ \E d \in {dom[n], Redefined(v, Archived(v)), Redefined(v, NamedDisk(n))} : dom' = [dom EXCEPT ![n] = d]
  <2>1. PICK b \in {a, k} : b = Archived(v)
    BY <1>6
  <2>2. failures' # failures
    BY <1>10 DEF Failing, VType
  <2>3. \/ dom' = [dom EXCEPT ![n] = dom[n]] \/ dom' = [dom EXCEPT ![n] = Redefined(v, b)]
        \/ dom' = [dom EXCEPT ![n] = Redefined(v, k)]
    BY <1>3, <1>10, <2>1
  <2>4. ASSUME NEW d \in {a, k}, dom' = [dom EXCEPT ![n] = Redefined(v, d)]
        PROVE  \/ dom' = dom
               \/ d # {} /\ dom[n].uuid \in {None, v} /\ Define(n, [uuid |-> v, disks |-> d])
    <3>1. CASE dom[n].uuid \notin {None, v} \/ d = {}
      BY <1>5, <1>8, <2>4, <3>1
    <3>2. CASE dom[n].uuid \in {None, v} /\ d # {}
      BY <1>5, <2>4, <3>2 DEF Define
    <3> QED BY <3>1, <3>2
  <2>5. \A d \in {a, k} : d # {} => /\ d \in SUBSET Volumes /\ (d = row[v].archive \/ d \subseteq vols)
                                    /\ d = row[v].archive \/ d = {<<n, "">>} \/ d = {<<n, "-diska">>} \/ d = {<<n, "-sys">>}
    BY <1>1, <1>3, <1>4
  <2>6. ASSUME NEW d \in {a, k}, d # {}, dom[n].uuid \in {None, v}, Define(n, [uuid |-> v, disks |-> d])
        PROVE  \E e \in SUBSET Volumes :
                 /\ e # {} /\ (e = row[v].archive \/ e = {<<n, "">>} \/ e = {<<n, "-diska">>} \/ e = {<<n, "-sys">>})
                 /\ e = row[v].archive \/ e \subseteq vols
                 /\ dom[n].uuid \in {None, v}
                 /\ Define(n, [uuid |-> v, disks |-> e])
    <3>1. d \in SUBSET Volumes
      BY <2>5, <2>6
    <3>2. d # {} /\ (d = row[v].archive \/ d \subseteq vols)
      BY <2>5, <2>6
    <3>3. d = row[v].archive \/ d = {<<n, "">>} \/ d = {<<n, "-diska">>} \/ d = {<<n, "-sys">>}
      BY <2>5, <2>6
    <3>4. dom[n].uuid \in {None, v} /\ Define(n, [uuid |-> v, disks |-> d])
      BY <2>6
    <3> WITNESS d \in SUBSET Volumes
    <3> QED BY ONLY <3>2, <3>3, <3>4, ZenonT(40)
  <2>7. \/ dom' = dom
        \/ \E d \in {a, k} : d # {} /\ dom[n].uuid \in {None, v} /\ Define(n, [uuid |-> v, disks |-> d])
    BY <1>8, <2>1, <2>3, <2>4
  <2>8. CASE dom' = dom
    BY <1>10, <2>2, <2>8
  <2>9. CASE \E d \in {a, k} : d # {} /\ dom[n].uuid \in {None, v} /\ Define(n, [uuid |-> v, disks |-> d])
    <3>1. PICK d \in {a, k} : d # {} /\ dom[n].uuid \in {None, v} /\ Define(n, [uuid |-> v, disks |-> d])
      BY <2>9
    <3> QED BY <1>10, <2>6, <3>1
  <2> QED BY <2>7, <2>8, <2>9
<1> QED BY <1>9, <1>10 DEF RestoreDomain

\* The places after the disks of a new machine.
LEMMA CreateVolsGoes ==
  ASSUME NEW c \in Calls, CreateVols(c)
  PROVE  \E p \in {"newrow", "done"} : Goto(c, p)
<1>1. CASE NewVolume(c)
  BY <1>1 DEF NewVolume, GivenDisks
<1>2. CASE OverlayVolume(c)
  BY <1>2 DEF OverlayVolume, Link
<1>3. CASE ExistingFile(c)
  BY <1>3 DEF ExistingFile, GivenDisks
<1> QED BY <1>1, <1>2, <1>3 DEF CreateVols

\* Where the disks of a new machine come from, and where the task goes.
LEMMA CreateVolsFacts ==
  ASSUME VType, KindInv, RowInv, NEW c \in Calls, CreateVols(c)
  PROVE  /\ Failing \/ UNCHANGED failures
         /\ failures' \in 0..MaxFaults
         /\ vols' \subseteq Volumes /\ backing' \in [Volumes -> Volumes \cup {None}]
         /\ loc' \in [Calls -> LocType] /\ \A d \in Calls : d # c => loc'[d] = loc[d]
         /\ \E p \in {"newrow", "done"} : Goto(c, p) /\ (p = "newrow" => loc'[c].disks # {})
<1>1. call[c].name \in Names
  BY ArgFacts DEF CreateVols
<1>2. vols \subseteq Volumes /\ images \subseteq Volumes /\ backing \in [Volumes -> Volumes \cup {None}]
  BY DEF VType
<1>3. loc \in [Calls -> LocType]
  BY DEF VType
<1>4. ASSUME NEW a \in SUBSET Volumes, NEW b \in SUBSET Volumes, loc' = [loc EXCEPT ![c] = [disks |-> a, set |-> b]]
      PROVE  loc' \in [Calls -> LocType] /\ loc'[c].disks = a /\ \A d \in Calls : d # c => loc'[d] = loc[d]
  <2>1. PICK l \in LocType : l = [disks |-> a, set |-> b]
    BY DEF LocType
  <2> QED BY <1>3, <1>4, <2>1
<1>5. CASE NewVolume(c)
  <2>1. PICK new \in SUBSET Volumes : new = Disks(call[c].name, "")
    BY <1>1, DiskFacts
  <2>2. vols' \subseteq Volumes /\ backing' \in [Volumes -> Volumes \cup {None}]
    BY <1>2, <1>5, <2>1 DEF NewVolume
  <2>3. loc' \in [Calls -> LocType] /\ \A d \in Calls : d # c => loc'[d] = loc[d]
    BY <1>3, <1>4, <1>5, <2>1 DEF NewVolume, GivenDisks
  <2>5. new # {}
    BY <1>1, <2>1, DiskFacts
  <2>4. \E p \in {"newrow", "done"} : Goto(c, p) /\ (p = "newrow" => loc'[c].disks # {})
    <3>1. CASE Goto(c, "done")
      BY <3>1
    <3>2. CASE Goto(c, "newrow") /\ loc' = [loc EXCEPT ![c] = [disks |-> new, set |-> new]]
      BY <1>4, <2>5, <3>2
    <3> QED BY <1>5, <2>1, <3>1, <3>2 DEF NewVolume, GivenDisks
  <2> QED BY <1>5, <2>2, <2>3, <2>4, FaultFacts DEF NewVolume
<1>6. CASE OverlayVolume(c)
  <2>1. PICK child \in Volumes : child = <<call[c].name, "">>
    BY <1>1, DiskFacts
  <2>2. PICK i \in images : Link(c, {i}, child, "newrow")
    BY <1>6, <2>1 DEF OverlayVolume
  <2>3. vols' \subseteq Volumes /\ backing' \in [Volumes -> Volumes \cup {None}]
    BY <1>2, <2>1, <2>2 DEF Link
  <2>4. {child} \in SUBSET Volumes /\ loc' = [loc EXCEPT ![c] = [disks |-> {child}, set |-> {child}]]
    BY <1>6, <2>1 DEF OverlayVolume
  <2>5. \E p \in {"newrow", "done"} : Goto(c, p) /\ (p = "newrow" => loc'[c].disks # {})
    <3>1. \E p \in {"newrow", "done"} : Goto(c, p)
      BY <2>2 DEF Link
    <3> QED BY <1>4, <2>4, <3>1
  <2> QED BY <1>4, <1>6, <2>3, <2>4, <2>5, FaultFacts DEF OverlayVolume
<1>7. CASE ExistingFile(c) /\ UNCHANGED <<vols, backing>>
  <2>1. PICK x \in vols \cup images : /\ GivenDisks(c, {x}, {}, "newrow")
                                     /\ IF x \in images \cap vols THEN Failing ELSE UNCHANGED failures
    BY <1>7 DEF ExistingFile
  <2>2. {x} \in SUBSET Volumes /\ {} \in SUBSET Volumes
    BY <1>2
  <2>3. Goto(c, "newrow") /\ loc' = [loc EXCEPT ![c] = [disks |-> {x}, set |-> {}]]
    BY <2>1 DEF GivenDisks
  <2>4. /\ loc' \in [Calls -> LocType] /\ loc'[c].disks = {x}
        /\ \A d \in Calls : d # c => loc'[d] = loc[d]
    BY <1>4, <2>2, <2>3
  <2>5. Failing \/ UNCHANGED failures
    BY <2>1
  <2>6. failures' \in 0..MaxFaults
    BY <2>5, FaultFacts
  <2> QED BY <1>2, <1>7, <2>3, <2>4, <2>5, <2>6
<1> QED BY <1>5, <1>6, <1>7 DEF CreateVols, ExistingFile

\* A deletion reads a machine that is live; what it cannot read or archive costs a failure.
LEMMA DeleteReadFacts ==
  ASSUME VType, NEW c \in Calls, DeleteRead(c), NEW v \in VMs, NEW n \in Names,
         call[c].vm = v, row[v].name = n
  PROVE  /\ Failing \/ UNCHANGED failures
         /\ row' \in [VMs -> RowType] /\ loc' \in [Calls -> LocType]
         /\ \A u \in VMs : row'[u].name = row[u].name /\ row'[u].life = row[u].life
         /\ \A u \in VMs : row'[u].archive # row[u].archive =>
              u = v /\ dom[n].uuid # None /\ row'[u].archive = dom[n].disks
         /\ \A d \in Calls : loc'[d].set = loc[d].set /\ (d # c => loc'[d] = loc[d])
         /\ \/ Goto(c, "done") /\ loc' = loc
            \/ /\ Goto(c, "undefine") /\ row[v].life = "live"
               /\ loc'[c].disks \in {{}, dom[n].disks}
               /\ failures' = failures /\ dom[n].uuid # None => row'[v].archive = dom[n].disks
<1>1. row \in [VMs -> RowType] /\ loc \in [Calls -> LocType] /\ dom[n].disks \in SUBSET Volumes
  BY StoreFacts DEF VType
<1>2. PICK k \in SUBSET Volumes : k = dom[n].disks
  BY <1>1
<1>3. Failing => failures' # failures
  BY DEF Failing, VType
<1>4. CASE Goto(c, "done") /\ UNCHANGED <<row, loc, failures>>
  BY <1>1, <1>4
<1>5. ASSUME NEW e \in {{}, k}, loc' = [loc EXCEPT ![c].disks = e]
      PROVE  /\ loc' \in [Calls -> LocType] /\ loc'[c].disks = e
             /\ \A d \in Calls : loc'[d].set = loc[d].set /\ (d # c => loc'[d] = loc[d])
  BY <1>1, <1>5 DEF LocType
<1>6. CASE /\ row[v].life = "live" /\ Goto(c, "undefine") /\ loc' = [loc EXCEPT ![c].disks = dom[n].disks]
           /\ row' = [row EXCEPT ![v].archive = IF dom[n].uuid # None THEN dom[n].disks ELSE @]
           /\ UNCHANGED failures
  <2>1. /\ row' \in [VMs -> RowType]
        /\ \A u \in VMs : row'[u].name = row[u].name /\ row'[u].life = row[u].life
        /\ \A u \in VMs : row'[u].archive # row[u].archive =>
             u = v /\ dom[n].uuid # None /\ row'[u].archive = k
        /\ dom[n].uuid # None => row'[v].archive = k
    BY <1>1, <1>2, <1>6 DEF RowType
  <2> QED BY <1>2, <1>5, <1>6, <2>1
<1>7. CASE /\ row[v].life = "live" /\ Goto(c, "undefine") /\ Failing /\ UNCHANGED row
           /\ loc' = [loc EXCEPT ![c].disks = dom[n].disks] \/ loc' = [loc EXCEPT ![c].disks = {}]
  BY <1>1, <1>2, <1>3, <1>5, <1>7
<1> QED BY <1>4, <1>6, <1>7 DEF DeleteRead

(***************************************************************************)
(* Type correctness, in every mix                                          *)
(***************************************************************************)
\* Every step keeps the types.
LEMMA TypeStep ==
  ASSUME VType, KindInv, RowInv, [Next]_vars
  PROVE  VType'
<1>1. ASSUME NEW c \in Calls, Arrive(c) PROVE VType'
  <2>1. call' \in [Calls -> CallType]
    BY <1>1, ArriveFacts
  <2> QED BY <1>1, <2>1 DEF VType, Arrive
<1>2. ASSUME NEW c \in Calls, GuardVMIdle(c) PROVE VType'
  <2>1. call' \in [Calls -> CallType]
    BY <1>2, GotoFacts, PcFacts DEF GuardVMIdle
  <2> QED BY <1>2, <2>1 DEF VType, GuardVMIdle
<1>3. ASSUME NEW c \in Calls, LockVM(c) PROVE VType'
  <2>1. call' \in [Calls -> CallType]
    BY <1>3, GotoFacts, PcFacts DEF LockVM
  <2>2. lock' \subseteq VMs
    BY <1>3, ArgFacts DEF VType, LockVM
  <2> QED BY <1>3, <2>1, <2>2 DEF VType, LockVM
<1>4. ASSUME NEW c \in Calls, SubmitTask(c) PROVE VType'
  <2>1. call' \in [Calls -> CallType]
    BY <1>4, GotoFacts, PcFacts DEF SubmitTask
  <2>2. lock' \subseteq VMs
    BY <1>4 DEF VType, Release, SubmitTask
  <2> QED BY <1>4, <2>1, <2>2 DEF VType, SubmitTask
<1>5. ASSUME NEW c \in Calls, RebootDomain(c) PROVE VType'
  <2>1. call' \in [Calls -> CallType]
    BY <1>5, GotoFacts, PcFacts DEF RebootDomain
  <2>2. lock' \subseteq VMs
    BY <1>5 DEF VType, Release, RebootDomain
  <2> QED BY <1>5, <2>1, <2>2 DEF VType, RebootDomain
<1>6. ASSUME NEW c \in Calls, RestoreCheck(c) PROVE VType'
  <2>1. call' \in [Calls -> CallType]
    BY <1>6, GotoFacts, PcFacts DEF RestoreCheck
  <2>2. lock' \subseteq VMs
    BY <1>6 DEF VType, Release, RestoreCheck
  <2> QED BY <1>6, <2>1, <2>2 DEF VType, RestoreCheck
<1>7. ASSUME NEW c \in Calls, RestoreRow(c) PROVE VType'
  <2>1. call' \in [Calls -> CallType]
    BY <1>7, GotoFacts, PcFacts DEF RestoreRow
  <2>2. lock' \subseteq VMs
    BY <1>7 DEF VType, Release, RestoreRow
  <2>3. failures' \in 0..MaxFaults
    BY <1>7, FaultFacts DEF RestoreRow
  <2>4. row' \in [VMs -> RowType]
    BY <1>7 DEF VType, RowType, RestoreRow
  <2> QED BY <1>7, <2>1, <2>2, <2>3, <2>4 DEF VType, RestoreRow
<1>8. ASSUME NEW c \in Calls, RestoreDomain(c) PROVE VType'
  <2>1. call' \in [Calls -> CallType]
    BY <1>8, GotoFacts, PcFacts DEF RestoreDomain
  <2>2. lock' \subseteq VMs
    BY <1>8 DEF VType, Release, RestoreDomain
  <2>3. failures' \in 0..MaxFaults
    BY <1>8, FaultFacts DEF RestoreDomain
  <2>4. dom' \in [Names -> DomType]
    <3>1. PICK v \in VMs, n \in Names : call[c].vm = v /\ row[v].name = n
      BY <1>8, ArgFacts DEF RestoreDomain
    <3>2. \A d \in SUBSET Volumes : [uuid |-> v, disks |-> d] \in DomType
      BY DEF DomType
    <3>4. dom' = dom \/ \E d \in SUBSET Volumes : Define(n, [uuid |-> v, disks |-> d])
      BY <1>8, <3>1, RestoreFacts
    <3>3. dom' = dom \/ \E e \in DomType : Define(n, e)
      BY <3>2, <3>4
    <3> QED BY <3>3 DEF VType, Define
  <2> QED BY <1>8, <2>1, <2>2, <2>3, <2>4 DEF VType, RestoreDomain
<1>9. ASSUME NEW c \in Calls, PurgeStart(c) PROVE VType'
  <2>1. call' \in [Calls -> CallType]
    BY <1>9, GotoFacts, PcFacts DEF PurgeStart
  <2>2. loc' \in [Calls -> LocType]
    BY <1>9 DEF VType, LocType, PurgeStart
  <2> QED BY <1>9, <2>1, <2>2 DEF VType, PurgeStart
<1>10. ASSUME NEW c \in Calls, PurgeCheck(c) PROVE VType'
  <2>1. call' \in [Calls -> CallType]
    BY <1>10, GotoFacts, PcFacts DEF PurgeCheck, VType
  <2>2. loc' \in [Calls -> LocType]
    <3>1. CASE UNCHANGED loc
      BY <3>1 DEF VType
    <3>2. CASE \E x \in loc[c].set \cap vols :
                 loc' = [loc EXCEPT ![c].disks = {x}, ![c].set = @ \ {x}]
      BY <3>2 DEF VType, LocType
    <3>3. CASE \E x \in loc[c].set \cap vols : loc' = [loc EXCEPT ![c].set = @ \ {x}]
      BY <3>3 DEF VType, LocType
    <3> QED BY <1>10, <3>1, <3>2, <3>3 DEF PurgeCheck
  <2>3. failures' \in 0..MaxFaults
    <3>1. UNCHANGED failures \/ Failing
      BY <1>10 DEF PurgeCheck, Failing
    <3> QED BY <3>1, FaultFacts
  <2> QED BY <1>10, <2>1, <2>2, <2>3 DEF VType, PurgeCheck
<1>11. ASSUME NEW c \in Calls, PurgeRemove(c) PROVE VType'
  <2>1. call' \in [Calls -> CallType]
    BY <1>11, GotoFacts, PcFacts DEF PurgeRemove
  <2>2. vols' \subseteq Volumes
    BY <1>11 DEF VType, PurgeRemove
  <2> QED BY <1>11, <2>1, <2>2 DEF VType, PurgeRemove
<1>12. ASSUME NEW c \in Calls, PurgeUndefine(c) PROVE VType'
  <2>1. call' \in [Calls -> CallType]
    BY <1>12, GotoFacts, PcFacts DEF PurgeUndefine
  <2>2. lock' \subseteq VMs
    BY <1>12 DEF VType, Release, PurgeUndefine
  <2>3. failures' \in 0..MaxFaults
    BY <1>12, FaultFacts DEF PurgeUndefine
  <2>4. dom' \in [Names -> DomType]
    BY <1>12, StoreFacts DEF VType, PurgeUndefine
  <2> QED BY <1>12, <2>1, <2>2, <2>3, <2>4 DEF VType, PurgeUndefine
<1>13. ASSUME NEW c \in Calls, PurgeRow(c) PROVE VType'
  <2>1. call' \in [Calls -> CallType]
    BY <1>13, GotoFacts, PcFacts DEF PurgeRow
  <2>2. lock' \subseteq VMs
    BY <1>13 DEF VType, Release, PurgeRow
  <2>3. failures' \in 0..MaxFaults
    BY <1>13, FaultFacts DEF PurgeRow
  <2>4. row' \in [VMs -> RowType]
    BY <1>13, ArgFacts, LifeFacts DEF VType, PurgeRow
  <2> QED BY <1>13, <2>1, <2>2, <2>3, <2>4 DEF VType, PurgeRow
<1>14. ASSUME NEW c \in Calls, Begin(c) PROVE VType'
  <2>1. FirstStep(call[c].kind) \in Pcs
    BY <1>14, PcFacts DEF Begin, KindInv, Fits, Submitted, FirstStep
  <2>2. call' \in [Calls -> CallType]
    BY <1>14, <2>1, GotoFacts DEF Begin
  <2> QED BY <1>14, <2>1, <2>2 DEF VType, Begin
<1>15. ASSUME NEW c \in Calls, CreateVols(c) PROVE VType'
  <2>1. call' \in [Calls -> CallType]
    BY <1>15, CreateVolsFacts, GotoFacts, PcFacts
  <2> QED BY <1>15, <2>1, CreateVolsFacts DEF VType, CreateVols
<1>16. ASSUME NEW c \in Calls, CreateRow(c) PROVE VType'
  <2>1. call' \in [Calls -> CallType]
    BY <1>16, GotoFacts, PcFacts DEF CreateRow
  <2>2. failures' \in 0..MaxFaults
    BY <1>16, FaultFacts DEF CreateRow
  <2>3. row' \in [VMs -> RowType]
    BY <1>16, ArgFacts, NewRowFacts DEF VType, CreateRow
  <2>4. vols' \subseteq Volumes
    BY <1>16 DEF VType, CreateRow
  <2> QED BY <1>16, <2>1, <2>2, <2>3, <2>4 DEF VType, CreateRow
<1>17. ASSUME NEW c \in Calls, CreateDefine(c) PROVE VType'
  <2>1. call' \in [Calls -> CallType]
    BY <1>17, GotoFacts, PcFacts DEF CreateDefine
  <2>2. failures' \in 0..MaxFaults
    BY <1>17, FaultFacts DEF CreateDefine
  <2>3. \A d : d \subseteq Volumes => [uuid |-> c, disks |-> d] \in DomType
    BY DEF DomType, VMs
  <2>4. dom' \in [Names -> DomType]
    <3>1. CASE UNCHANGED dom
      BY <3>1 DEF VType
    <3>2. CASE Define(call[c].name, [uuid |-> c, disks |-> loc[c].disks])
      <4>1. call[c].name \in Names /\ loc[c].disks \subseteq Volumes
        BY <1>17, ArgFacts DEF CreateDefine
      <4>2. PICK d \in DomType : d = [uuid |-> c, disks |-> loc[c].disks]
        BY <2>3, <4>1
      <4>3. Define(call[c].name, d)
        BY <3>2, <4>2
      <4> QED BY <4>1, <4>3 DEF VType, Define
    <3> QED BY <1>17, <3>1, <3>2 DEF CreateDefine
  <2>5. row' \in [VMs -> RowType]
    <3>1. CASE UNCHANGED row
      BY <3>1 DEF VType
    <3>2. CASE row' = [row EXCEPT ![c].life = "bin"]
      <4>1. row \in [VMs -> RowType]
        BY DEF VType
      <4> QED BY <3>2, <4>1 DEF RowType
    <3> QED BY <1>17, <3>1, <3>2 DEF CreateDefine
  <2>6. vols' \subseteq Volumes
    BY <1>17 DEF VType, CreateDefine
  <2> QED BY <1>17, <2>1, <2>2, <2>3, <2>4, <2>5, <2>6 DEF VType, CreateDefine
<1>18. ASSUME NEW c \in Calls, CloneSource(c) PROVE VType'
  <2>1. call' \in [Calls -> CallType]
    BY <1>18, GotoFacts, PcFacts DEF CloneSource
  <2>2. call[c].vm \in VMs /\ dom[row[call[c].vm].name].disks \subseteq Volumes
    BY <1>18, ArgFacts, StoreFacts DEF CloneSource
  <2>3. loc' \in [Calls -> LocType]
    BY <1>18, <2>2 DEF VType, LocType, CloneSource
  <2> QED BY <1>18, <2>1, <2>2, <2>3 DEF VType, CloneSource
<1>19. ASSUME NEW c \in Calls, CloneVolume(c) PROVE VType'
  <2>1. call' \in [Calls -> CallType]
    BY <1>19, GotoFacts, PcFacts DEF CloneVolume, Link
  <2>2. <<call[c].name, "-diska">> \in Volumes
    BY <1>19, ArgFacts, DiskFacts DEF CloneVolume
  <2>3. vols' \subseteq Volumes
    BY <1>19, <2>2 DEF VType, CloneVolume, Link
  <2>4. backing' \in [Volumes -> Volumes \cup {None}]
    BY <1>19, <2>2 DEF VType, CloneVolume, Link
  <2> QED BY <1>19, <2>1, <2>2, <2>3, <2>4 DEF VType, CloneVolume
<1>20. ASSUME NEW c \in Calls, CloneDefine(c) PROVE VType'
  <2>1. call' \in [Calls -> CallType]
    BY <1>20, GotoFacts, PcFacts DEF CloneDefine
  <2>2. failures' \in 0..MaxFaults
    BY <1>20, FaultFacts DEF CloneDefine
  <2>3. \A d : d \subseteq Volumes => [uuid |-> c, disks |-> d] \in DomType
    BY DEF DomType, VMs
  <2>4. CloneSpec(c) \in DomType
    BY <1>20, <2>3, ArgFacts, DiskFacts DEF CloneDefine, CloneSpec
  <2>5. dom' \in [Names -> DomType]
    BY <1>20, <2>4, ArgFacts, DefineFacts DEF VType, CloneDefine
  <2> QED BY <1>20, <2>1, <2>2, <2>3, <2>4, <2>5 DEF VType, CloneDefine
<1>21. ASSUME NEW c \in Calls, CloneRow(c) PROVE VType'
  <2>1. call' \in [Calls -> CallType]
    BY <1>21, GotoFacts, PcFacts DEF CloneRow
  <2>2. failures' \in 0..MaxFaults
    BY <1>21, FaultFacts DEF CloneRow
  <2>3. row' \in [VMs -> RowType]
    BY <1>21, ArgFacts, NewRowFacts DEF VType, CloneRow
  <2>4. dom' \in [Names -> DomType]
    BY <1>21, ArgFacts, StoreFacts, DefineFacts DEF VType, CloneRow
  <2>5. vols' \subseteq Volumes
    BY <1>21 DEF VType, CloneRow
  <2> QED BY <1>21, <2>1, <2>2, <2>3, <2>4, <2>5 DEF VType, CloneRow
<1>22. ASSUME NEW c \in Calls, ImageVolume(c) PROVE VType'
  <2>1. call' \in [Calls -> CallType]
    BY <1>22, GotoFacts, PcFacts DEF ImageVolume, Link
  <2>2. <<call[c].name, "-sys">> \in Volumes
    BY <1>22, ArgFacts, DiskFacts DEF ImageVolume
  <2>3. vols' \subseteq Volumes
    BY <1>22, <2>2 DEF VType, ImageVolume, Link
  <2>4. backing' \in [Volumes -> Volumes \cup {None}]
    BY <1>22, <2>2 DEF VType, ImageVolume, Link
  <2> QED BY <1>22, <2>1, <2>2, <2>3, <2>4 DEF VType, ImageVolume
<1>23. ASSUME NEW c \in Calls, ImageDefine(c) PROVE VType'
  <2>1. call' \in [Calls -> CallType]
    BY <1>23, GotoFacts, PcFacts DEF ImageDefine
  <2>2. failures' \in 0..MaxFaults
    BY <1>23, FaultFacts DEF ImageDefine
  <2>3. \A d : d \subseteq Volumes => [uuid |-> c, disks |-> d] \in DomType
    BY DEF DomType, VMs
  <2>4. {<<call[c].name, "-sys">>} \subseteq Volumes
    BY <1>23, ArgFacts, DiskFacts DEF ImageDefine
  <2>5. dom' \in [Names -> DomType]
    BY <1>23, <2>3, <2>4, ArgFacts, StoreFacts, DefineFacts DEF VType, ImageDefine, Cleanup
  <2>6. vols' \subseteq Volumes
    BY <1>23 DEF VType, ImageDefine, Cleanup
  <2> QED BY <1>23, <2>1, <2>2, <2>3, <2>4, <2>5, <2>6 DEF VType, ImageDefine
<1>24. ASSUME NEW c \in Calls, ImageRow(c) PROVE VType'
  <2>1. call' \in [Calls -> CallType]
    BY <1>24, GotoFacts, PcFacts DEF ImageRow
  <2>2. failures' \in 0..MaxFaults
    BY <1>24, FaultFacts DEF ImageRow
  <2>3. row' \in [VMs -> RowType]
    BY <1>24, ArgFacts, NewRowFacts DEF VType, ImageRow
  <2>4. dom' \in [Names -> DomType]
    BY <1>24, ArgFacts, StoreFacts, DefineFacts DEF VType, ImageRow, Cleanup
  <2>5. vols' \subseteq Volumes
    BY <1>24 DEF VType, ImageRow, Cleanup
  <2> QED BY <1>24, <2>1, <2>2, <2>3, <2>4, <2>5 DEF VType, ImageRow
<1>25. ASSUME NEW c \in Calls, DeleteRead(c) PROVE VType'
  <2>1. call' \in [Calls -> CallType]
    BY <1>25, GotoFacts, PcFacts DEF DeleteRead
  <2>2. PICK v \in VMs, n \in Names : call[c].vm = v /\ row[v].name = n
    BY <1>25, ArgFacts DEF DeleteRead
  <2>3. failures' \in 0..MaxFaults /\ loc' \in [Calls -> LocType] /\ row' \in [VMs -> RowType]
    BY <1>25, <2>2, DeleteReadFacts, FaultFacts
  <2> QED BY <1>25, <2>1, <2>3 DEF VType, DeleteRead
<1>26. ASSUME NEW c \in Calls, DeleteUndefine(c) PROVE VType'
  <2>1. call' \in [Calls -> CallType]
    BY <1>26, GotoFacts, PcFacts DEF DeleteUndefine
  <2>2. failures' \in 0..MaxFaults
    BY <1>26, FaultFacts DEF DeleteUndefine
  <2>3. dom' \in [Names -> DomType]
    BY <1>26, ArgFacts, StoreFacts, DefineFacts DEF VType, DeleteUndefine
  <2> QED BY <1>26, <2>1, <2>2, <2>3 DEF VType, DeleteUndefine
<1>27. ASSUME NEW c \in Calls, DeleteGuard(c) PROVE VType'
  <2>1. call' \in [Calls -> CallType]
    BY <1>27, GotoFacts, PcFacts DEF DeleteGuard
  <2>2. failures' \in 0..MaxFaults
    BY <1>27, FaultFacts DEF DeleteGuard
  <2>3. KeepReason \subseteq Volumes
    BY DEF VType, KeepReason, Parents
  <2>4. loc' \in [Calls -> LocType]
    <3>1. PICK s \in SUBSET Volumes : loc' = [loc EXCEPT ![c].set = s]
      BY <1>27, <2>3 DEF DeleteGuard
    <3> QED BY <3>1, SetFacts
  <2> QED BY <1>27, <2>1, <2>2, <2>3, <2>4 DEF VType, DeleteGuard
<1>28. ASSUME NEW c \in Calls, DeleteVolumes(c) PROVE VType'
  <2>1. call' \in [Calls -> CallType]
    BY <1>28, GotoFacts, PcFacts DEF DeleteVolumes
  <2>2. vols' \subseteq Volumes
    BY <1>28 DEF VType, DeleteVolumes
  <2> QED BY <1>28, <2>1, <2>2 DEF VType, DeleteVolumes
<1>29. ASSUME NEW c \in Calls, DeleteRow(c) PROVE VType'
  <2>1. call' \in [Calls -> CallType]
    BY <1>29, GotoFacts, PcFacts DEF DeleteRow
  <2>2. failures' \in 0..MaxFaults
    BY <1>29, FaultFacts DEF DeleteRow
  <2>3. row' \in [VMs -> RowType]
    BY <1>29 DEF VType, RowType, DeleteRow
  <2> QED BY <1>29, <2>1, <2>2, <2>3 DEF VType, DeleteRow
<1>30. ASSUME NEW c \in Calls, CleanupPool(c) PROVE VType'
  <2>1. call' \in [Calls -> CallType]
    BY <1>30, GotoFacts, PcFacts DEF CleanupPool
  <2>2. loc' \in [Calls -> LocType]
    BY <1>30 DEF VType, LocType, CleanupPool
  <2> QED BY <1>30, <2>1, <2>2 DEF VType, CleanupPool
<1>31. ASSUME NEW c \in Calls, CleanupRefs(c) PROVE VType'
  <2>1. call' \in [Calls -> CallType]
    BY <1>31, GotoFacts, PcFacts DEF CleanupRefs, CleanupRead
  <2>2. failures' \in 0..MaxFaults
    BY <1>31, FaultFacts DEF CleanupRefs, CleanupRead
  <2>3. loc' \in [Calls -> LocType]
    <3>1. \/ UNCHANGED loc
          \/ loc' = [loc EXCEPT ![c].set = loc[c].set \ Parents]
      BY <1>31 DEF CleanupRefs, CleanupRead
    <3>2. loc[c].set \ Parents \in SUBSET Volumes
      BY ArgFacts
    <3>3. CASE loc' = [loc EXCEPT ![c].set = loc[c].set \ Parents]
      BY <3>2, <3>3, SetFacts
    <3> QED BY <3>1, <3>3 DEF VType
  <2> QED BY <1>31, <2>1, <2>2, <2>3 DEF VType, CleanupRefs, CleanupRead
<1>32. ASSUME NEW c \in Calls, CleanupDomains(c) PROVE VType'
  <2>1. call' \in [Calls -> CallType]
    BY <1>32, GotoFacts, PcFacts DEF CleanupDomains, CleanupRead
  <2>2. failures' \in 0..MaxFaults
    BY <1>32, FaultFacts DEF CleanupDomains, CleanupRead
  <2>3. loc' \in [Calls -> LocType]
    <3>1. \/ UNCHANGED loc
          \/ loc' = [loc EXCEPT ![c].set = loc[c].set \ Mounted]
      BY <1>32 DEF CleanupDomains, CleanupRead
    <3>2. loc[c].set \ Mounted \in SUBSET Volumes
      BY ArgFacts
    <3>3. CASE loc' = [loc EXCEPT ![c].set = loc[c].set \ Mounted]
      BY <3>2, <3>3, SetFacts
    <3> QED BY <3>1, <3>3 DEF VType
  <2> QED BY <1>32, <2>1, <2>2, <2>3 DEF VType, CleanupDomains, CleanupRead
<1>33. ASSUME NEW c \in Calls, CleanupSweep(c) PROVE VType'
  <2>1. call' \in [Calls -> CallType]
    BY <1>33, GotoFacts, PcFacts DEF CleanupSweep
  <2>2. vols' \subseteq Volumes
    BY <1>33 DEF VType, CleanupSweep
  <2> QED BY <1>33, <2>1, <2>2 DEF VType, CleanupSweep
<1>34. ASSUME NEW c \in Calls, FinalizeRead(c) PROVE VType'
  <2>1. call' \in [Calls -> CallType]
    BY <1>34, GotoFacts, PcFacts DEF FinalizeRead
  <2>2. call[c].vm \in VMs /\ dom[row[call[c].vm].name].disks \subseteq Volumes
    BY <1>34, ArgFacts, StoreFacts DEF FinalizeRead
  <2>3. loc' \in [Calls -> LocType]
    BY <1>34, <2>2 DEF VType, LocType, FinalizeRead
  <2> QED BY <1>34, <2>1, <2>2, <2>3 DEF VType, FinalizeRead
<1>35. ASSUME NEW c \in Calls, Sysprep(c) PROVE VType'
  <2>1. call' \in [Calls -> CallType]
    BY <1>35, GotoFacts, PcFacts DEF Sysprep
  <2>2. failures' \in 0..MaxFaults
    BY <1>35, FaultFacts DEF Sysprep
  <2> QED BY <1>35, <2>1, <2>2 DEF VType, Sysprep
<1>36. ASSUME NEW c \in Calls, FinalizeUndefine(c) PROVE VType'
  <2>1. call' \in [Calls -> CallType]
    BY <1>36, GotoFacts, PcFacts DEF FinalizeUndefine
  <2>2. failures' \in 0..MaxFaults
    BY <1>36, FaultFacts DEF FinalizeUndefine
  <2>3. dom' \in [Names -> DomType]
    BY <1>36, ArgFacts, StoreFacts, DefineFacts DEF VType, FinalizeUndefine
  <2> QED BY <1>36, <2>1, <2>2, <2>3 DEF VType, FinalizeUndefine
<1>37. ASSUME NEW c \in Calls, FinalizeRow(c) PROVE VType'
  <2>1. call' \in [Calls -> CallType]
    BY <1>37, GotoFacts, PcFacts DEF FinalizeRow
  <2>2. failures' \in 0..MaxFaults
    BY <1>37, FaultFacts DEF FinalizeRow
  <2>3. row' \in [VMs -> RowType]
    BY <1>37 DEF VType, RowType, FinalizeRow
  <2> QED BY <1>37, <2>1, <2>2, <2>3 DEF VType, FinalizeRow
<1>38. ASSUME NEW c \in Calls, RegisterImage(c) PROVE VType'
  <2>1. call' \in [Calls -> CallType]
    BY <1>38, GotoFacts, PcFacts DEF RegisterImage
  <2>2. failures' \in 0..MaxFaults
    BY <1>38, FaultFacts DEF RegisterImage
  <2>3. images' \subseteq Volumes
    BY <1>38, ArgFacts DEF VType, RegisterImage
  <2> QED BY <1>38, <2>1, <2>2, <2>3 DEF VType, RegisterImage
<1>39. CASE UNCHANGED vars
  BY <1>39 DEF vars, VType
<1> QED
  BY <1>1, <1>2, <1>3, <1>4, <1>5, <1>6, <1>7, <1>8, <1>9, <1>10, <1>11, <1>12, <1>13, <1>14,
     <1>15, <1>16, <1>17, <1>18, <1>19, <1>20, <1>21, <1>22, <1>23, <1>24, <1>25, <1>26,
     <1>27, <1>28, <1>29, <1>30, <1>31, <1>32, <1>33, <1>34, <1>35, <1>36, <1>37, <1>38,
     <1>39 DEF Next, Handler, Executor

\* A step within the code of its kind keeps KindInv.
LEMMA KindMove ==
  ASSUME VType, KindInv, NEW c \in Calls, NEW p \in Pcs, Goto(c, p), mix' = mix,
         call[c].pc # "idle", p # "idle", Fits(call[c].kind, p)
  PROVE  KindInv'
<1>1. /\ \A d \in Calls : /\ call'[d].kind = call[d].kind /\ call'[d].vm = call[d].vm
                          /\ call'[d].name = call[d].name
                          /\ d # c => call'[d] = call[d]
      /\ call'[c].pc = p
  BY GotoFacts
<1>2. \A d \in Calls : Fits(call'[d].kind, call'[d].pc)
  BY <1>1 DEF KindInv
<1> QED BY <1>1, <1>2 DEF KindInv

\* Every step keeps the kinds and their places together.
LEMMA KindStep ==
  ASSUME VType, KindInv, [Next]_vars
  PROVE  KindInv'
<1>1. ASSUME NEW c \in Calls, Arrive(c) PROVE KindInv'
  <2>1. PICK k \in mix.kinds, v \in VMs \cup {None}, n \in Names \cup {None} :
          /\ \A d \in Calls : d # c => call'[d] = call[d]
          /\ call'[c].pc = (IF k \in Locks THEN "found" ELSE "queued")
          /\ call'[c].kind = k /\ call'[c].vm = v /\ call'[c].name = n
          /\ k \in {"create", "image", "cleanup"} <=> v = None
          /\ k \in Makes <=> n # None
    BY <1>1, ArriveFacts
  <2>2. k \in Kinds /\ mix' = mix
    BY <1>1, MixAssumption DEF VType, Arrive
  <2>3. Fits(call'[c].kind, call'[c].pc) /\ call'[c].pc # "idle"
    BY <2>1, <2>2 DEF Fits, Locks, Submitted, Kinds
  <2>4. \A d \in Calls \ {c} : Fits(call'[d].kind, call'[d].pc)
    BY <2>1 DEF KindInv
  <2> QED BY <2>1, <2>2, <2>3, <2>4 DEF KindInv
<1>2. ASSUME NEW c \in Calls, GuardVMIdle(c) PROVE KindInv'
  <2>1. PICK p \in {"done", "free"} : Goto(c, p)
    BY <1>2 DEF GuardVMIdle
  <2>2. call[c].pc = "found" /\ mix' = mix
    BY <1>2 DEF GuardVMIdle
  <2>3. Fits(call[c].kind, p)
    BY <1>2, <2>2 DEF GuardVMIdle, KindInv, Fits, Locks, Submitted
  <2> QED BY <2>1, <2>2, <2>3, PcFacts, KindMove
<1>3. ASSUME NEW c \in Calls, LockVM(c) PROVE KindInv'
  <2>1. PICK p \in {"done", "held"} : Goto(c, p)
    BY <1>3 DEF LockVM
  <2>2. call[c].pc = "free" /\ mix' = mix
    BY <1>3 DEF LockVM
  <2>3. Fits(call[c].kind, p)
    BY <1>3, <2>2 DEF LockVM, KindInv, Fits, Locks, Submitted
  <2> QED BY <2>1, <2>2, <2>3, PcFacts, KindMove
<1>4. ASSUME NEW c \in Calls, SubmitTask(c) PROVE KindInv'
  <2>1. PICK p \in {"queued"} : Goto(c, p)
    BY <1>4 DEF SubmitTask
  <2>2. call[c].pc = "held" /\ mix' = mix
    BY <1>4 DEF SubmitTask
  <2>3. Fits(call[c].kind, p)
    BY <1>4, <2>2 DEF SubmitTask, KindInv, Fits, Locks, Submitted
  <2> QED BY <2>1, <2>2, <2>3, PcFacts, KindMove
<1>5. ASSUME NEW c \in Calls, RebootDomain(c) PROVE KindInv'
  <2>1. PICK p \in {"done"} : Goto(c, p)
    BY <1>5 DEF RebootDomain
  <2>2. call[c].pc = "held" /\ mix' = mix
    BY <1>5 DEF RebootDomain
  <2>3. Fits(call[c].kind, p)
    BY <1>5, <2>2 DEF RebootDomain, KindInv, Fits, Locks, Submitted
  <2> QED BY <2>1, <2>2, <2>3, PcFacts, KindMove
<1>6. ASSUME NEW c \in Calls, RestoreCheck(c) PROVE KindInv'
  <2>1. PICK p \in {"done", "unlisted"} : Goto(c, p)
    BY <1>6 DEF RestoreCheck
  <2>2. call[c].pc = "held" /\ mix' = mix
    BY <1>6 DEF RestoreCheck
  <2>3. Fits(call[c].kind, p)
    BY <1>6, <2>2 DEF RestoreCheck, KindInv, Fits, Locks, Submitted
  <2> QED BY <2>1, <2>2, <2>3, PcFacts, KindMove
<1>7. ASSUME NEW c \in Calls, RestoreRow(c) PROVE KindInv'
  <2>1. PICK p \in {"restored", "done"} : Goto(c, p)
    BY <1>7 DEF RestoreRow
  <2>2. call[c].pc = "unlisted" /\ mix' = mix
    BY <1>7 DEF RestoreRow
  <2>3. Fits(call[c].kind, p)
    BY <1>7, <2>2 DEF RestoreRow, KindInv, Fits, Locks, Submitted
  <2> QED BY <2>1, <2>2, <2>3, PcFacts, KindMove
<1>8. ASSUME NEW c \in Calls, RestoreDomain(c) PROVE KindInv'
  <2>1. PICK p \in {"done"} : Goto(c, p)
    BY <1>8 DEF RestoreDomain
  <2>2. call[c].pc = "restored" /\ mix' = mix
    BY <1>8 DEF RestoreDomain
  <2>3. Fits(call[c].kind, p)
    BY <1>8, <2>2 DEF RestoreDomain, KindInv, Fits, Locks, Submitted
  <2> QED BY <2>1, <2>2, <2>3, PcFacts, KindMove
<1>9. ASSUME NEW c \in Calls, PurgeStart(c) PROVE KindInv'
  <2>1. PICK p \in {"undefining", "purging"} : Goto(c, p)
    BY <1>9 DEF PurgeStart
  <2>2. call[c].pc = "held" /\ mix' = mix
    BY <1>9 DEF PurgeStart
  <2>3. Fits(call[c].kind, p)
    BY <1>9, <2>2 DEF PurgeStart, KindInv, Fits, Locks, Submitted
  <2> QED BY <2>1, <2>2, <2>3, PcFacts, KindMove
<1>10. ASSUME NEW c \in Calls, PurgeCheck(c) PROVE KindInv'
  <2>1. CASE UNCHANGED call
    BY <1>10, <2>1 DEF KindInv, PurgeCheck
  <2>2. CASE ~UNCHANGED call
    <3>1. call[c].pc = "purging" /\ \E p \in {"undefining", "purgeable"} : Goto(c, p)
      BY <1>10, <2>2 DEF PurgeCheck
    <3>2. PICK p \in {"undefining", "purgeable"} : Goto(c, p)
      BY <3>1
    <3>3. Fits(call[c].kind, p)
      BY <3>1, <3>2 DEF KindInv, Fits
    <3> QED BY <1>10, <3>1, <3>2, <3>3, PcFacts, KindMove DEF PurgeCheck
  <2> QED BY <2>1, <2>2
<1>11. ASSUME NEW c \in Calls, PurgeRemove(c) PROVE KindInv'
  <2>1. PICK p \in {"purging"} : Goto(c, p)
    BY <1>11 DEF PurgeRemove
  <2>2. call[c].pc = "purgeable" /\ mix' = mix
    BY <1>11 DEF PurgeRemove
  <2>3. Fits(call[c].kind, p)
    BY <1>11, <2>2 DEF PurgeRemove, KindInv, Fits, Locks, Submitted
  <2> QED BY <2>1, <2>2, <2>3, PcFacts, KindMove
<1>12. ASSUME NEW c \in Calls, PurgeUndefine(c) PROVE KindInv'
  <2>1. PICK p \in {"erasing", "done"} : Goto(c, p)
    BY <1>12 DEF PurgeUndefine
  <2>2. call[c].pc = "undefining" /\ mix' = mix
    BY <1>12 DEF PurgeUndefine
  <2>3. Fits(call[c].kind, p)
    BY <1>12, <2>2 DEF PurgeUndefine, KindInv, Fits, Locks, Submitted
  <2> QED BY <2>1, <2>2, <2>3, PcFacts, KindMove
<1>13. ASSUME NEW c \in Calls, PurgeRow(c) PROVE KindInv'
  <2>1. PICK p \in {"done"} : Goto(c, p)
    BY <1>13 DEF PurgeRow
  <2>2. call[c].pc = "erasing" /\ mix' = mix
    BY <1>13 DEF PurgeRow
  <2>3. Fits(call[c].kind, p)
    BY <1>13, <2>2 DEF PurgeRow, KindInv, Fits, Locks, Submitted
  <2> QED BY <2>1, <2>2, <2>3, PcFacts, KindMove
<1>14. ASSUME NEW c \in Calls, Begin(c) PROVE KindInv'
  <2>1. Goto(c, FirstStep(call[c].kind)) /\ call[c].pc = "queued" /\ mix' = mix
    BY <1>14 DEF Begin
  <2>2. call[c].kind \in Submitted
    BY <2>1 DEF KindInv, Fits
  <2>3. /\ FirstStep(call[c].kind) \in Pcs \ {"idle"}
        /\ Fits(call[c].kind, FirstStep(call[c].kind))
    BY <2>2, PcFacts DEF Submitted, FirstStep, Fits
  <2> QED BY <2>1, <2>3, KindMove
<1>15. ASSUME NEW c \in Calls, CreateVols(c) PROVE KindInv'
  <2>1. PICK p \in {"done", "newrow"} : Goto(c, p)
    BY <1>15, CreateVolsGoes
  <2>2. call[c].pc = "newvol" /\ mix' = mix
    BY <1>15 DEF CreateVols
  <2>3. Fits(call[c].kind, p)
    BY <1>15, <2>2 DEF CreateVols, KindInv, Fits, Locks, Submitted
  <2> QED BY <2>1, <2>2, <2>3, PcFacts, KindMove
<1>16. ASSUME NEW c \in Calls, CreateRow(c) PROVE KindInv'
  <2>1. PICK p \in {"newdef", "done"} : Goto(c, p)
    BY <1>16 DEF CreateRow
  <2>2. call[c].pc = "newrow" /\ mix' = mix
    BY <1>16 DEF CreateRow
  <2>3. Fits(call[c].kind, p)
    BY <1>16, <2>2 DEF CreateRow, KindInv, Fits, Locks, Submitted
  <2> QED BY <2>1, <2>2, <2>3, PcFacts, KindMove
<1>17. ASSUME NEW c \in Calls, CreateDefine(c) PROVE KindInv'
  <2>1. PICK p \in {"done"} : Goto(c, p)
    BY <1>17 DEF CreateDefine
  <2>2. call[c].pc = "newdef" /\ mix' = mix
    BY <1>17 DEF CreateDefine
  <2>3. Fits(call[c].kind, p)
    BY <1>17, <2>2 DEF CreateDefine, KindInv, Fits, Locks, Submitted
  <2> QED BY <2>1, <2>2, <2>3, PcFacts, KindMove
<1>18. ASSUME NEW c \in Calls, CloneSource(c) PROVE KindInv'
  <2>1. PICK p \in {"clonevol", "done"} : Goto(c, p)
    BY <1>18 DEF CloneSource
  <2>2. call[c].pc = "source" /\ mix' = mix
    BY <1>18 DEF CloneSource
  <2>3. Fits(call[c].kind, p)
    BY <1>18, <2>2 DEF CloneSource, KindInv, Fits, Locks, Submitted
  <2> QED BY <2>1, <2>2, <2>3, PcFacts, KindMove
<1>19. ASSUME NEW c \in Calls, CloneVolume(c) PROVE KindInv'
  <2>1. PICK p \in {"clonedef", "done"} : Goto(c, p)
    BY <1>19 DEF CloneVolume, Link
  <2>2. call[c].pc = "clonevol" /\ mix' = mix
    BY <1>19 DEF CloneVolume
  <2>3. Fits(call[c].kind, p)
    BY <1>19, <2>2 DEF CloneVolume, KindInv, Fits, Locks, Submitted
  <2> QED BY <2>1, <2>2, <2>3, PcFacts, KindMove
<1>20. ASSUME NEW c \in Calls, CloneDefine(c) PROVE KindInv'
  <2>1. PICK p \in {"clonerow", "done"} : Goto(c, p)
    BY <1>20 DEF CloneDefine
  <2>2. call[c].pc = "clonedef" /\ mix' = mix
    BY <1>20 DEF CloneDefine
  <2>3. Fits(call[c].kind, p)
    BY <1>20, <2>2 DEF CloneDefine, KindInv, Fits, Locks, Submitted
  <2> QED BY <2>1, <2>2, <2>3, PcFacts, KindMove
<1>21. ASSUME NEW c \in Calls, CloneRow(c) PROVE KindInv'
  <2>1. PICK p \in {"done"} : Goto(c, p)
    BY <1>21 DEF CloneRow
  <2>2. call[c].pc = "clonerow" /\ mix' = mix
    BY <1>21 DEF CloneRow
  <2>3. Fits(call[c].kind, p)
    BY <1>21, <2>2 DEF CloneRow, KindInv, Fits, Locks, Submitted
  <2> QED BY <2>1, <2>2, <2>3, PcFacts, KindMove
<1>22. ASSUME NEW c \in Calls, ImageVolume(c) PROVE KindInv'
  <2>1. PICK p \in {"imgdef", "done"} : Goto(c, p)
    BY <1>22 DEF ImageVolume, Link
  <2>2. call[c].pc = "imgvol" /\ mix' = mix
    BY <1>22 DEF ImageVolume
  <2>3. Fits(call[c].kind, p)
    BY <1>22, <2>2 DEF ImageVolume, KindInv, Fits, Locks, Submitted
  <2> QED BY <2>1, <2>2, <2>3, PcFacts, KindMove
<1>23. ASSUME NEW c \in Calls, ImageDefine(c) PROVE KindInv'
  <2>1. PICK p \in {"imgrow", "done"} : Goto(c, p)
    BY <1>23 DEF ImageDefine
  <2>2. call[c].pc = "imgdef" /\ mix' = mix
    BY <1>23 DEF ImageDefine
  <2>3. Fits(call[c].kind, p)
    BY <1>23, <2>2 DEF ImageDefine, KindInv, Fits, Locks, Submitted
  <2> QED BY <2>1, <2>2, <2>3, PcFacts, KindMove
<1>24. ASSUME NEW c \in Calls, ImageRow(c) PROVE KindInv'
  <2>1. PICK p \in {"done"} : Goto(c, p)
    BY <1>24 DEF ImageRow
  <2>2. call[c].pc = "imgrow" /\ mix' = mix
    BY <1>24 DEF ImageRow
  <2>3. Fits(call[c].kind, p)
    BY <1>24, <2>2 DEF ImageRow, KindInv, Fits, Locks, Submitted
  <2> QED BY <2>1, <2>2, <2>3, PcFacts, KindMove
<1>25. ASSUME NEW c \in Calls, DeleteRead(c) PROVE KindInv'
  <2>1. PICK p \in {"undefine", "done"} : Goto(c, p)
    BY <1>25 DEF DeleteRead
  <2>2. call[c].pc = "delread" /\ mix' = mix
    BY <1>25 DEF DeleteRead
  <2>3. Fits(call[c].kind, p)
    BY <1>25, <2>2 DEF DeleteRead, KindInv, Fits, Locks, Submitted
  <2> QED BY <2>1, <2>2, <2>3, PcFacts, KindMove
<1>26. ASSUME NEW c \in Calls, DeleteUndefine(c) PROVE KindInv'
  <2>1. PICK p \in {"guard", "done"} : Goto(c, p)
    BY <1>26 DEF DeleteUndefine
  <2>2. call[c].pc = "undefine" /\ mix' = mix
    BY <1>26 DEF DeleteUndefine
  <2>3. Fits(call[c].kind, p)
    BY <1>26, <2>2 DEF DeleteUndefine, KindInv, Fits, Locks, Submitted
  <2> QED BY <2>1, <2>2, <2>3, PcFacts, KindMove
<1>27. ASSUME NEW c \in Calls, DeleteGuard(c) PROVE KindInv'
  <2>1. PICK p \in {"delvols"} : Goto(c, p)
    BY <1>27 DEF DeleteGuard
  <2>2. call[c].pc = "guard" /\ mix' = mix
    BY <1>27 DEF DeleteGuard
  <2>3. Fits(call[c].kind, p)
    BY <1>27, <2>2 DEF DeleteGuard, KindInv, Fits, Locks, Submitted
  <2> QED BY <2>1, <2>2, <2>3, PcFacts, KindMove
<1>28. ASSUME NEW c \in Calls, DeleteVolumes(c) PROVE KindInv'
  <2>1. PICK p \in {"delrow"} : Goto(c, p)
    BY <1>28 DEF DeleteVolumes
  <2>2. call[c].pc = "delvols" /\ mix' = mix
    BY <1>28 DEF DeleteVolumes
  <2>3. Fits(call[c].kind, p)
    BY <1>28, <2>2 DEF DeleteVolumes, KindInv, Fits, Locks, Submitted
  <2> QED BY <2>1, <2>2, <2>3, PcFacts, KindMove
<1>29. ASSUME NEW c \in Calls, DeleteRow(c) PROVE KindInv'
  <2>1. PICK p \in {"done"} : Goto(c, p)
    BY <1>29 DEF DeleteRow
  <2>2. call[c].pc = "delrow" /\ mix' = mix
    BY <1>29 DEF DeleteRow
  <2>3. Fits(call[c].kind, p)
    BY <1>29, <2>2 DEF DeleteRow, KindInv, Fits, Locks, Submitted
  <2> QED BY <2>1, <2>2, <2>3, PcFacts, KindMove
<1>30. ASSUME NEW c \in Calls, CleanupPool(c) PROVE KindInv'
  <2>1. PICK p \in {"refs"} : Goto(c, p)
    BY <1>30 DEF CleanupPool
  <2>2. call[c].pc = "pool" /\ mix' = mix
    BY <1>30 DEF CleanupPool, CleanupRead
  <2>3. Fits(call[c].kind, p)
    BY <1>30, <2>2 DEF CleanupPool, KindInv, Fits, Locks, Submitted
  <2> QED BY <2>1, <2>2, <2>3, PcFacts, KindMove
<1>31. ASSUME NEW c \in Calls, CleanupRefs(c) PROVE KindInv'
  <2>1. PICK p \in {"doms", "done"} : Goto(c, p)
    BY <1>31 DEF CleanupRefs, CleanupRead
  <2>2. call[c].pc = "refs" /\ mix' = mix
    BY <1>31 DEF CleanupRefs, CleanupRead
  <2>3. Fits(call[c].kind, p)
    BY <1>31, <2>2 DEF CleanupRefs, KindInv, Fits, Locks, Submitted
  <2> QED BY <2>1, <2>2, <2>3, PcFacts, KindMove
<1>32. ASSUME NEW c \in Calls, CleanupDomains(c) PROVE KindInv'
  <2>1. PICK p \in {"sweep", "done"} : Goto(c, p)
    BY <1>32 DEF CleanupDomains, CleanupRead
  <2>2. call[c].pc = "doms" /\ mix' = mix
    BY <1>32 DEF CleanupDomains, CleanupRead
  <2>3. Fits(call[c].kind, p)
    BY <1>32, <2>2 DEF CleanupDomains, KindInv, Fits, Locks, Submitted
  <2> QED BY <2>1, <2>2, <2>3, PcFacts, KindMove
<1>33. ASSUME NEW c \in Calls, CleanupSweep(c) PROVE KindInv'
  <2>1. PICK p \in {"done"} : Goto(c, p)
    BY <1>33 DEF CleanupSweep
  <2>2. call[c].pc = "sweep" /\ mix' = mix
    BY <1>33 DEF CleanupSweep, CleanupRead
  <2>3. Fits(call[c].kind, p)
    BY <1>33, <2>2 DEF CleanupSweep, KindInv, Fits, Locks, Submitted
  <2> QED BY <2>1, <2>2, <2>3, PcFacts, KindMove
<1>34. ASSUME NEW c \in Calls, FinalizeRead(c) PROVE KindInv'
  <2>1. PICK p \in {"sysprep", "done"} : Goto(c, p)
    BY <1>34 DEF FinalizeRead
  <2>2. call[c].pc = "finread" /\ mix' = mix
    BY <1>34 DEF FinalizeRead
  <2>3. Fits(call[c].kind, p)
    BY <1>34, <2>2 DEF FinalizeRead, KindInv, Fits, Locks, Submitted
  <2> QED BY <2>1, <2>2, <2>3, PcFacts, KindMove
<1>35. ASSUME NEW c \in Calls, Sysprep(c) PROVE KindInv'
  <2>1. PICK p \in {"finundef", "done"} : Goto(c, p)
    BY <1>35 DEF Sysprep
  <2>2. call[c].pc = "sysprep" /\ mix' = mix
    BY <1>35 DEF Sysprep
  <2>3. Fits(call[c].kind, p)
    BY <1>35, <2>2 DEF Sysprep, KindInv, Fits, Locks, Submitted
  <2> QED BY <2>1, <2>2, <2>3, PcFacts, KindMove
<1>36. ASSUME NEW c \in Calls, FinalizeUndefine(c) PROVE KindInv'
  <2>1. PICK p \in {"finrow", "done"} : Goto(c, p)
    BY <1>36 DEF FinalizeUndefine
  <2>2. call[c].pc = "finundef" /\ mix' = mix
    BY <1>36 DEF FinalizeUndefine
  <2>3. Fits(call[c].kind, p)
    BY <1>36, <2>2 DEF FinalizeUndefine, KindInv, Fits, Locks, Submitted
  <2> QED BY <2>1, <2>2, <2>3, PcFacts, KindMove
<1>37. ASSUME NEW c \in Calls, FinalizeRow(c) PROVE KindInv'
  <2>1. PICK p \in {"register", "done"} : Goto(c, p)
    BY <1>37 DEF FinalizeRow
  <2>2. call[c].pc = "finrow" /\ mix' = mix
    BY <1>37 DEF FinalizeRow
  <2>3. Fits(call[c].kind, p)
    BY <1>37, <2>2 DEF FinalizeRow, KindInv, Fits, Locks, Submitted
  <2> QED BY <2>1, <2>2, <2>3, PcFacts, KindMove
<1>38. ASSUME NEW c \in Calls, RegisterImage(c) PROVE KindInv'
  <2>1. PICK p \in {"done"} : Goto(c, p)
    BY <1>38 DEF RegisterImage
  <2>2. call[c].pc = "register" /\ mix' = mix
    BY <1>38 DEF RegisterImage
  <2>3. Fits(call[c].kind, p)
    BY <1>38, <2>2 DEF RegisterImage, KindInv, Fits, Locks, Submitted
  <2> QED BY <2>1, <2>2, <2>3, PcFacts, KindMove
<1>39. CASE UNCHANGED vars
  BY <1>39 DEF vars, KindInv
<1> QED
  BY <1>1, <1>2, <1>3, <1>4, <1>5, <1>6, <1>7, <1>8, <1>9, <1>10, <1>11, <1>12, <1>13, <1>14,
     <1>15, <1>16, <1>17, <1>18, <1>19, <1>20, <1>21, <1>22, <1>23, <1>24, <1>25, <1>26,
     <1>27, <1>28, <1>29, <1>30, <1>31, <1>32, <1>33, <1>34, <1>35, <1>36, <1>37, <1>38,
     <1>39 DEF Next, Handler, Executor

\* A step that takes no name away keeps RowInv.
LEMMA RowMove ==
  ASSUME VType, RowInv, NEW c \in Calls, NEW p \in Pcs \ {"newdef"}, Goto(c, p),
         \A v \in VMs : /\ row'[v].name = row[v].name
                        /\ row'[v].life # "none" => row[v].name # None
  PROVE  RowInv'
<1>1. \A d \in Calls : /\ call'[d].vm = call[d].vm
                       /\ d # c => call'[d].pc = call[d].pc
                       /\ call'[c].pc = p
  BY GotoFacts
<1>2. \A d \in Calls : call[d].vm \in VMs \cup {None} /\ d \in VMs
  BY DEF VType, CallType, VMs
<1> QED BY <1>1, <1>2 DEF RowInv

\* Every step keeps the names of the rows.
LEMMA RowStep ==
  ASSUME VType, KindInv, RowInv, [Next]_vars
  PROVE  RowInv'
<1>1. ASSUME NEW c \in Calls, Arrive(c) PROVE RowInv'
  <2>1. PICK k \in mix.kinds, v \in VMs \cup {None} :
          /\ \A d \in Calls : d # c => call'[d] = call[d]
          /\ call'[c].pc = (IF k \in Locks THEN "found" ELSE "queued") /\ call'[c].vm = v
          /\ v # None => row[v].life = IF k \in {"restore", "purge"} THEN "bin" ELSE "live"
    BY <1>1, ArriveFacts
  <2>2. row' = row
    BY <1>1 DEF Arrive
  <2> QED BY <2>1, <2>2 DEF RowInv
<1>2. ASSUME NEW c \in Calls, GuardVMIdle(c) PROVE RowInv'
  <2>1. PICK p \in {"done", "free"} : Goto(c, p)
    BY <1>2 DEF GuardVMIdle
  <2>2. row' = row
    BY <1>2 DEF GuardVMIdle
  <2> QED BY <2>1, <2>2, PcFacts, RowMove DEF RowInv
<1>3. ASSUME NEW c \in Calls, LockVM(c) PROVE RowInv'
  <2>1. PICK p \in {"done", "held"} : Goto(c, p)
    BY <1>3 DEF LockVM
  <2>2. row' = row
    BY <1>3 DEF LockVM
  <2> QED BY <2>1, <2>2, PcFacts, RowMove DEF RowInv
<1>4. ASSUME NEW c \in Calls, SubmitTask(c) PROVE RowInv'
  <2>1. PICK p \in {"queued"} : Goto(c, p)
    BY <1>4 DEF SubmitTask
  <2>2. row' = row
    BY <1>4 DEF SubmitTask
  <2> QED BY <2>1, <2>2, PcFacts, RowMove DEF RowInv
<1>5. ASSUME NEW c \in Calls, RebootDomain(c) PROVE RowInv'
  <2>1. PICK p \in {"done"} : Goto(c, p)
    BY <1>5 DEF RebootDomain
  <2>2. row' = row
    BY <1>5 DEF RebootDomain
  <2> QED BY <2>1, <2>2, PcFacts, RowMove DEF RowInv
<1>6. ASSUME NEW c \in Calls, RestoreCheck(c) PROVE RowInv'
  <2>1. PICK p \in {"done", "unlisted"} : Goto(c, p)
    BY <1>6 DEF RestoreCheck
  <2>2. row' = row
    BY <1>6 DEF RestoreCheck
  <2> QED BY <2>1, <2>2, PcFacts, RowMove DEF RowInv
<1>7. ASSUME NEW c \in Calls, RestoreRow(c) PROVE RowInv'
  <2>1. PICK p \in {"restored", "done"} : Goto(c, p)
    BY <1>7 DEF RestoreRow
  <2>2. call[c].vm \in VMs /\ row[call[c].vm].name # None
    BY <1>7, ArgFacts, NoneAssumption DEF RestoreRow, RowInv, VMs
  <2>3. row' = row \/ \E l \in {"live", "bin", "gone"} : row' = [row EXCEPT ![call[c].vm].life = l]
    BY <1>7, <2>2, StoreFacts DEF RestoreRow
  <2>4. \A v \in VMs : /\ row'[v].name = row[v].name
                       /\ row'[v].life # "none" => row[v].name # None
    BY <2>2, <2>3, LifeFacts DEF RowInv
  <2> QED BY <2>1, <2>4, PcFacts, RowMove DEF RowInv
<1>8. ASSUME NEW c \in Calls, RestoreDomain(c) PROVE RowInv'
  <2>1. PICK p \in {"done"} : Goto(c, p)
    BY <1>8 DEF RestoreDomain
  <2>2. row' = row
    BY <1>8 DEF RestoreDomain
  <2> QED BY <2>1, <2>2, PcFacts, RowMove DEF RowInv
<1>9. ASSUME NEW c \in Calls, PurgeStart(c) PROVE RowInv'
  <2>1. PICK p \in {"undefining", "purging"} : Goto(c, p)
    BY <1>9 DEF PurgeStart
  <2>2. row' = row
    BY <1>9 DEF PurgeStart
  <2> QED BY <2>1, <2>2, PcFacts, RowMove DEF RowInv
<1>10. ASSUME NEW c \in Calls, PurgeCheck(c) PROVE RowInv'
  <2>1. row' = row /\ (UNCHANGED call \/ \E p \in {"undefining", "purgeable"} : Goto(c, p))
    BY <1>10 DEF PurgeCheck
  <2>2. CASE UNCHANGED call
    BY <2>1, <2>2 DEF RowInv
  <2> QED BY <2>1, <2>2, PcFacts, RowMove DEF RowInv
<1>11. ASSUME NEW c \in Calls, PurgeRemove(c) PROVE RowInv'
  <2>1. PICK p \in {"purging"} : Goto(c, p)
    BY <1>11 DEF PurgeRemove
  <2>2. row' = row
    BY <1>11 DEF PurgeRemove
  <2> QED BY <2>1, <2>2, PcFacts, RowMove DEF RowInv
<1>12. ASSUME NEW c \in Calls, PurgeUndefine(c) PROVE RowInv'
  <2>1. PICK p \in {"erasing", "done"} : Goto(c, p)
    BY <1>12 DEF PurgeUndefine
  <2>2. row' = row
    BY <1>12 DEF PurgeUndefine
  <2> QED BY <2>1, <2>2, PcFacts, RowMove DEF RowInv
<1>13. ASSUME NEW c \in Calls, PurgeRow(c) PROVE RowInv'
  <2>1. PICK p \in {"done"} : Goto(c, p)
    BY <1>13 DEF PurgeRow
  <2>2. call[c].vm \in VMs /\ row[call[c].vm].name # None
    BY <1>13, ArgFacts, NoneAssumption DEF PurgeRow, RowInv, VMs
  <2>3. row' = row \/ \E l \in {"live", "bin", "gone"} : row' = [row EXCEPT ![call[c].vm].life = l]
    BY <1>13, <2>2, StoreFacts DEF PurgeRow
  <2>4. \A v \in VMs : /\ row'[v].name = row[v].name
                       /\ row'[v].life # "none" => row[v].name # None
    BY <2>2, <2>3, LifeFacts DEF RowInv
  <2> QED BY <2>1, <2>4, PcFacts, RowMove DEF RowInv
<1>14. ASSUME NEW c \in Calls, Begin(c) PROVE RowInv'
  <2>1. Goto(c, FirstStep(call[c].kind)) /\ call[c].pc = "queued" /\ row' = row
    BY <1>14 DEF Begin
  <2>2. call[c].kind \in Submitted
    BY <2>1 DEF KindInv, Fits
  <2>3. FirstStep(call[c].kind) \in Pcs \ {"newdef"}
    BY <2>2, PcFacts DEF Submitted, FirstStep
  <2> QED BY <2>1, <2>3, RowMove DEF RowInv
<1>15. ASSUME NEW c \in Calls, CreateVols(c) PROVE RowInv'
  <2>1. PICK p \in {"done", "newrow"} : Goto(c, p)
    BY <1>15, CreateVolsGoes
  <2>2. row' = row
    BY <1>15 DEF CreateVols
  <2> QED BY <2>1, <2>2, PcFacts, RowMove DEF RowInv
<1>16. ASSUME NEW c \in Calls, CreateRow(c) PROVE RowInv'
  <2>1. PICK p \in {"newdef", "done"} : Goto(c, p) /\ (p = "newdef" => ListRow(c, call[c].name))
    BY <1>16 DEF CreateRow
  <2>2. row' = row \/ ListRow(c, call[c].name)
    BY <1>16 DEF CreateRow
  <2>3. call[c].name \in Names /\ call[c].name # None /\ c \in VMs
    BY <1>16, ArgFacts, NoneAssumption DEF CreateRow, VMs
  <2>4. \A v \in VMs : \/ row'[v] = row[v]
                       \/ v = c /\ row'[v].name # None
    BY <2>2, <2>3, NewRowFacts
  <2>5. p = "newdef" => row'[c].name # None
    BY <2>1, <2>3, NewRowFacts
  <2>6. \A d \in Calls : /\ call'[d].vm = call[d].vm
                         /\ d # c => call'[d].pc = call[d].pc
                         /\ call'[c].pc = p
    BY <2>1, GotoFacts, PcFacts
  <2>7. \A d \in Calls : call[d].vm \in VMs \cup {None} /\ d \in VMs
    BY DEF VType, CallType, VMs
  <2>8. \A v \in VMs : row[v].name # None => row'[v].name # None
    BY <2>4
  <2>9. \A v \in VMs : row'[v].life # "none" => row'[v].name # None
    BY <2>4 DEF RowInv
  <2> QED BY <2>5, <2>6, <2>7, <2>8, <2>9 DEF RowInv
<1>17. ASSUME NEW c \in Calls, CreateDefine(c) PROVE RowInv'
  <2>1. PICK p \in {"done"} : Goto(c, p)
    BY <1>17 DEF CreateDefine
  <2>2. c \in VMs /\ row[c].name # None
    BY <1>17, ArgFacts, NoneAssumption DEF CreateDefine, RowInv, VMs
  <2>3. row' = row \/ \E l \in {"live", "bin", "gone"} : row' = [row EXCEPT ![c].life = l]
    BY <1>17, <2>2, StoreFacts DEF CreateDefine
  <2>4. \A v \in VMs : /\ row'[v].name = row[v].name
                       /\ row'[v].life # "none" => row[v].name # None
    BY <2>2, <2>3, LifeFacts DEF RowInv
  <2> QED BY <2>1, <2>4, PcFacts, RowMove DEF RowInv
<1>18. ASSUME NEW c \in Calls, CloneSource(c) PROVE RowInv'
  <2>1. PICK p \in {"clonevol", "done"} : Goto(c, p)
    BY <1>18 DEF CloneSource
  <2>2. row' = row
    BY <1>18 DEF CloneSource
  <2> QED BY <2>1, <2>2, PcFacts, RowMove DEF RowInv
<1>19. ASSUME NEW c \in Calls, CloneVolume(c) PROVE RowInv'
  <2>1. PICK p \in {"clonedef", "done"} : Goto(c, p)
    BY <1>19 DEF CloneVolume, Link
  <2>2. row' = row
    BY <1>19 DEF CloneVolume
  <2> QED BY <2>1, <2>2, PcFacts, RowMove DEF RowInv
<1>20. ASSUME NEW c \in Calls, CloneDefine(c) PROVE RowInv'
  <2>1. PICK p \in {"clonerow", "done"} : Goto(c, p)
    BY <1>20 DEF CloneDefine
  <2>2. row' = row
    BY <1>20 DEF CloneDefine
  <2> QED BY <2>1, <2>2, PcFacts, RowMove DEF RowInv
<1>21. ASSUME NEW c \in Calls, CloneRow(c) PROVE RowInv'
  <2>1. PICK p \in {"done"} : Goto(c, p) /\ (p = "newdef" => ListRow(c, call[c].name))
    BY <1>21 DEF CloneRow
  <2>2. row' = row \/ ListRow(c, call[c].name)
    BY <1>21 DEF CloneRow
  <2>3. call[c].name \in Names /\ call[c].name # None /\ c \in VMs
    BY <1>21, ArgFacts, NoneAssumption DEF CloneRow, VMs
  <2>4. \A v \in VMs : \/ row'[v] = row[v]
                       \/ v = c /\ row'[v].name # None
    BY <2>2, <2>3, NewRowFacts
  <2>5. p = "newdef" => row'[c].name # None
    BY <2>1, <2>3, NewRowFacts
  <2>6. \A d \in Calls : /\ call'[d].vm = call[d].vm
                         /\ d # c => call'[d].pc = call[d].pc
                         /\ call'[c].pc = p
    BY <2>1, GotoFacts, PcFacts
  <2>7. \A d \in Calls : call[d].vm \in VMs \cup {None} /\ d \in VMs
    BY DEF VType, CallType, VMs
  <2>8. \A v \in VMs : row[v].name # None => row'[v].name # None
    BY <2>4
  <2>9. \A v \in VMs : row'[v].life # "none" => row'[v].name # None
    BY <2>4 DEF RowInv
  <2> QED BY <2>5, <2>6, <2>7, <2>8, <2>9 DEF RowInv
<1>22. ASSUME NEW c \in Calls, ImageVolume(c) PROVE RowInv'
  <2>1. PICK p \in {"imgdef", "done"} : Goto(c, p)
    BY <1>22 DEF ImageVolume, Link
  <2>2. row' = row
    BY <1>22 DEF ImageVolume
  <2> QED BY <2>1, <2>2, PcFacts, RowMove DEF RowInv
<1>23. ASSUME NEW c \in Calls, ImageDefine(c) PROVE RowInv'
  <2>1. PICK p \in {"imgrow", "done"} : Goto(c, p)
    BY <1>23 DEF ImageDefine
  <2>2. row' = row
    BY <1>23 DEF ImageDefine
  <2> QED BY <2>1, <2>2, PcFacts, RowMove DEF RowInv
<1>24. ASSUME NEW c \in Calls, ImageRow(c) PROVE RowInv'
  <2>1. PICK p \in {"done"} : Goto(c, p) /\ (p = "newdef" => ListRow(c, call[c].name))
    BY <1>24 DEF ImageRow
  <2>2. row' = row \/ ListRow(c, call[c].name)
    BY <1>24 DEF ImageRow
  <2>3. call[c].name \in Names /\ call[c].name # None /\ c \in VMs
    BY <1>24, ArgFacts, NoneAssumption DEF ImageRow, VMs
  <2>4. \A v \in VMs : \/ row'[v] = row[v]
                       \/ v = c /\ row'[v].name # None
    BY <2>2, <2>3, NewRowFacts
  <2>5. p = "newdef" => row'[c].name # None
    BY <2>1, <2>3, NewRowFacts
  <2>6. \A d \in Calls : /\ call'[d].vm = call[d].vm
                         /\ d # c => call'[d].pc = call[d].pc
                         /\ call'[c].pc = p
    BY <2>1, GotoFacts, PcFacts
  <2>7. \A d \in Calls : call[d].vm \in VMs \cup {None} /\ d \in VMs
    BY DEF VType, CallType, VMs
  <2>8. \A v \in VMs : row[v].name # None => row'[v].name # None
    BY <2>4
  <2>9. \A v \in VMs : row'[v].life # "none" => row'[v].name # None
    BY <2>4 DEF RowInv
  <2> QED BY <2>5, <2>6, <2>7, <2>8, <2>9 DEF RowInv
<1>25. ASSUME NEW c \in Calls, DeleteRead(c) PROVE RowInv'
  <2>1. PICK p \in {"undefine", "done"} : Goto(c, p)
    BY <1>25 DEF DeleteRead
  <2>2. \A v \in VMs : row'[v].name = row[v].name /\ row'[v].life = row[v].life
    <3>1. row \in [VMs -> RowType]
      BY DEF VType
    <3> QED BY <1>25, <3>1 DEF DeleteRead, RowType
  <2> QED BY <2>1, <2>2, PcFacts, RowMove DEF RowInv
<1>26. ASSUME NEW c \in Calls, DeleteUndefine(c) PROVE RowInv'
  <2>1. PICK p \in {"guard", "done"} : Goto(c, p)
    BY <1>26 DEF DeleteUndefine
  <2>2. row' = row
    BY <1>26 DEF DeleteUndefine
  <2> QED BY <2>1, <2>2, PcFacts, RowMove DEF RowInv
<1>27. ASSUME NEW c \in Calls, DeleteGuard(c) PROVE RowInv'
  <2>1. PICK p \in {"delvols"} : Goto(c, p)
    BY <1>27 DEF DeleteGuard
  <2>2. row' = row
    BY <1>27 DEF DeleteGuard
  <2> QED BY <2>1, <2>2, PcFacts, RowMove DEF RowInv
<1>28. ASSUME NEW c \in Calls, DeleteVolumes(c) PROVE RowInv'
  <2>1. PICK p \in {"delrow"} : Goto(c, p)
    BY <1>28 DEF DeleteVolumes
  <2>2. row' = row
    BY <1>28 DEF DeleteVolumes
  <2> QED BY <2>1, <2>2, PcFacts, RowMove DEF RowInv
<1>29. ASSUME NEW c \in Calls, DeleteRow(c) PROVE RowInv'
  <2>1. PICK p \in {"done"} : Goto(c, p)
    BY <1>29 DEF DeleteRow
  <2>2. call[c].vm \in VMs /\ row[call[c].vm].name # None
    BY <1>29, ArgFacts, NoneAssumption DEF DeleteRow, RowInv, VMs
  <2>3. row' = row \/ \E l \in {"live", "bin", "gone"} : row' = [row EXCEPT ![call[c].vm].life = l]
    BY <1>29, <2>2, StoreFacts DEF DeleteRow
  <2>4. \A v \in VMs : /\ row'[v].name = row[v].name
                       /\ row'[v].life # "none" => row[v].name # None
    BY <2>2, <2>3, LifeFacts DEF RowInv
  <2> QED BY <2>1, <2>4, PcFacts, RowMove DEF RowInv
<1>30. ASSUME NEW c \in Calls, CleanupPool(c) PROVE RowInv'
  <2>1. PICK p \in {"refs"} : Goto(c, p)
    BY <1>30 DEF CleanupPool
  <2>2. row' = row
    BY <1>30 DEF CleanupPool, CleanupRead
  <2> QED BY <2>1, <2>2, PcFacts, RowMove DEF RowInv
<1>31. ASSUME NEW c \in Calls, CleanupRefs(c) PROVE RowInv'
  <2>1. PICK p \in {"doms", "done"} : Goto(c, p)
    BY <1>31 DEF CleanupRefs, CleanupRead
  <2>2. row' = row
    BY <1>31 DEF CleanupRefs, CleanupRead
  <2> QED BY <2>1, <2>2, PcFacts, RowMove DEF RowInv
<1>32. ASSUME NEW c \in Calls, CleanupDomains(c) PROVE RowInv'
  <2>1. PICK p \in {"sweep", "done"} : Goto(c, p)
    BY <1>32 DEF CleanupDomains, CleanupRead
  <2>2. row' = row
    BY <1>32 DEF CleanupDomains, CleanupRead
  <2> QED BY <2>1, <2>2, PcFacts, RowMove DEF RowInv
<1>33. ASSUME NEW c \in Calls, CleanupSweep(c) PROVE RowInv'
  <2>1. PICK p \in {"done"} : Goto(c, p)
    BY <1>33 DEF CleanupSweep
  <2>2. row' = row
    BY <1>33 DEF CleanupSweep, CleanupRead
  <2> QED BY <2>1, <2>2, PcFacts, RowMove DEF RowInv
<1>34. ASSUME NEW c \in Calls, FinalizeRead(c) PROVE RowInv'
  <2>1. PICK p \in {"sysprep", "done"} : Goto(c, p)
    BY <1>34 DEF FinalizeRead
  <2>2. row' = row
    BY <1>34 DEF FinalizeRead
  <2> QED BY <2>1, <2>2, PcFacts, RowMove DEF RowInv
<1>35. ASSUME NEW c \in Calls, Sysprep(c) PROVE RowInv'
  <2>1. PICK p \in {"finundef", "done"} : Goto(c, p)
    BY <1>35 DEF Sysprep
  <2>2. row' = row
    BY <1>35 DEF Sysprep
  <2> QED BY <2>1, <2>2, PcFacts, RowMove DEF RowInv
<1>36. ASSUME NEW c \in Calls, FinalizeUndefine(c) PROVE RowInv'
  <2>1. PICK p \in {"finrow", "done"} : Goto(c, p)
    BY <1>36 DEF FinalizeUndefine
  <2>2. row' = row
    BY <1>36 DEF FinalizeUndefine
  <2> QED BY <2>1, <2>2, PcFacts, RowMove DEF RowInv
<1>37. ASSUME NEW c \in Calls, FinalizeRow(c) PROVE RowInv'
  <2>1. PICK p \in {"register", "done"} : Goto(c, p)
    BY <1>37 DEF FinalizeRow
  <2>2. call[c].vm \in VMs /\ row[call[c].vm].name # None
    BY <1>37, ArgFacts, NoneAssumption DEF FinalizeRow, RowInv, VMs
  <2>3. row' = row \/ \E l \in {"live", "bin", "gone"} : row' = [row EXCEPT ![call[c].vm].life = l]
    BY <1>37, <2>2, StoreFacts DEF FinalizeRow
  <2>4. \A v \in VMs : /\ row'[v].name = row[v].name
                       /\ row'[v].life # "none" => row[v].name # None
    BY <2>2, <2>3, LifeFacts DEF RowInv
  <2> QED BY <2>1, <2>4, PcFacts, RowMove DEF RowInv
<1>38. ASSUME NEW c \in Calls, RegisterImage(c) PROVE RowInv'
  <2>1. PICK p \in {"done"} : Goto(c, p)
    BY <1>38 DEF RegisterImage
  <2>2. row' = row
    BY <1>38 DEF RegisterImage
  <2> QED BY <2>1, <2>2, PcFacts, RowMove DEF RowInv
<1>39. CASE UNCHANGED vars
  BY <1>39 DEF vars, RowInv
<1> QED
  BY <1>1, <1>2, <1>3, <1>4, <1>5, <1>6, <1>7, <1>8, <1>9, <1>10, <1>11, <1>12, <1>13, <1>14,
     <1>15, <1>16, <1>17, <1>18, <1>19, <1>20, <1>21, <1>22, <1>23, <1>24, <1>25, <1>26,
     <1>27, <1>28, <1>29, <1>30, <1>31, <1>32, <1>33, <1>34, <1>35, <1>36, <1>37, <1>38,
     <1>39 DEF Next, Handler, Executor

(***************************************************************************)
(* Locks: vmlock holds the machines of the handlers past TryLock           *)
(***************************************************************************)
Holding(c) == call[c].pc \in HandlerPcs \ {"found", "free"}

LockInv ==
  /\ lock = {call[c].vm : c \in {d \in Calls : Holding(d)}}
  /\ \A c, d \in Calls : Holding(c) /\ Holding(d) /\ c # d => call[c].vm # call[d].vm

\* A step that neither takes nor gives back a lock.
LEMMA LockMove ==
  ASSUME VType, LockInv, NEW c \in Calls, NEW p \in Pcs, Goto(c, p), lock' = lock,
         Holding(c) <=> p \in HandlerPcs \ {"found", "free"}
  PROVE  LockInv'
<1>1. \A d \in Calls : /\ call'[d].vm = call[d].vm
                       /\ d # c => call'[d].pc = call[d].pc
                       /\ call'[c].pc = p
  BY GotoFacts
<1>2. \A d \in Calls : (Holding(d))' <=> Holding(d)
  BY <1>1 DEF Holding
<1> QED BY <1>1, <1>2 DEF LockInv

\* A step that gives its lock back.
LEMMA LockDrop ==
  ASSUME VType, LockInv, NEW c \in Calls, NEW p \in Pcs, Goto(c, p), Release(c), Holding(c),
         p \notin HandlerPcs \ {"found", "free"}
  PROVE  LockInv'
<1>1. \A d \in Calls : /\ call'[d].vm = call[d].vm
                       /\ d # c => call'[d].pc = call[d].pc
                       /\ call'[c].pc = p
  BY GotoFacts
<1>2. \A d \in Calls : (Holding(d))' <=> Holding(d) /\ d # c
  BY <1>1 DEF Holding
<1> QED BY <1>1, <1>2 DEF LockInv, Release

\* Every step keeps LockInv.
LEMMA LockStep ==
  ASSUME VType, KindInv, RowInv, LockInv, [Next]_vars
  PROVE  LockInv'
<1>1. ASSUME NEW c \in Calls, Arrive(c) PROVE LockInv'
  <2>1. PICK k \in mix.kinds :
          /\ \A d \in Calls : d # c => call'[d] = call[d]
          /\ call'[c].pc = (IF k \in Locks THEN "found" ELSE "queued")
    BY <1>1, ArriveFacts
  <2>2. lock' = lock /\ call[c].pc = "idle"
    BY <1>1 DEF Arrive
  <2>3. \A d \in Calls : (Holding(d))' <=> Holding(d)
    BY <2>1, <2>2 DEF Holding, HandlerPcs
  <2>4. ~Holding(c) /\ \A d \in Calls : d # c => call'[d].vm = call[d].vm
    BY <2>1, <2>2 DEF Holding, HandlerPcs
  <2> QED BY <2>2, <2>3, <2>4 DEF LockInv
<1>2. ASSUME NEW c \in Calls, GuardVMIdle(c) PROVE LockInv'
  <2>1. PICK p \in {"done", "free"} : Goto(c, p)
    BY <1>2 DEF GuardVMIdle
  <2>2. call[c].pc = "found" /\ lock' = lock
    BY <1>2 DEF GuardVMIdle
  <2> QED BY <2>1, <2>2, PcFacts, LockMove DEF Holding, HandlerPcs
<1>3. ASSUME NEW c \in Calls, LockVM(c) PROVE LockInv'
  <2>1. CASE call[c].vm \in lock
    <3>1. lock' = lock /\ Goto(c, "done") /\ call[c].pc = "free"
      BY <1>3, <2>1 DEF LockVM
    <3> QED BY <3>1, PcFacts, LockMove DEF Holding, HandlerPcs
  <2>2. CASE call[c].vm \notin lock
    <3>1. lock' = lock \cup {call[c].vm} /\ Goto(c, "held") /\ call[c].pc = "free"
      BY <1>3, <2>2 DEF LockVM
    <3>2. \A d \in Calls : /\ call'[d].vm = call[d].vm
                           /\ d # c => call'[d].pc = call[d].pc
                           /\ call'[c].pc = "held"
      BY <3>1, GotoFacts, PcFacts
    <3>3. \A d \in Calls : (Holding(d))' <=> Holding(d) \/ d = c
      BY <3>2 DEF Holding, HandlerPcs
    <3> QED BY <2>2, <3>1, <3>2, <3>3 DEF LockInv
  <2> QED BY <2>1, <2>2
<1>4. ASSUME NEW c \in Calls, SubmitTask(c) PROVE LockInv'
  <2>1. call[c].pc = "held" /\ Goto(c, "queued") /\ Release(c)
    BY <1>4 DEF SubmitTask
  <2> QED BY <2>1, PcFacts, LockDrop DEF Holding, HandlerPcs
<1>5. ASSUME NEW c \in Calls, RebootDomain(c) PROVE LockInv'
  <2>1. call[c].pc = "held" /\ Goto(c, "done") /\ Release(c)
    BY <1>5 DEF RebootDomain
  <2> QED BY <2>1, PcFacts, LockDrop DEF Holding, HandlerPcs
<1>6. ASSUME NEW c \in Calls, RestoreCheck(c) PROVE LockInv'
  <2>1. PICK p \in {"done", "unlisted"} : /\ Goto(c, p)
                               /\ IF p \in {"done"} THEN Release(c) ELSE lock' = lock
    BY <1>6 DEF RestoreCheck
  <2>2. call[c].pc = "held"
    BY <1>6 DEF RestoreCheck
  <2>3. CASE p \in {"done"}
    BY <2>1, <2>2, <2>3, PcFacts, LockDrop DEF Holding, HandlerPcs
  <2>4. CASE p \notin {"done"}
    BY <2>1, <2>2, <2>4, PcFacts, LockMove DEF Holding, HandlerPcs
  <2> QED BY <2>3, <2>4
<1>7. ASSUME NEW c \in Calls, RestoreRow(c) PROVE LockInv'
  <2>1. PICK p \in {"restored", "done"} : /\ Goto(c, p)
                               /\ IF p \in {"done"} THEN Release(c) ELSE lock' = lock
    BY <1>7 DEF RestoreRow
  <2>2. call[c].pc = "unlisted"
    BY <1>7 DEF RestoreRow
  <2>3. CASE p \in {"done"}
    BY <2>1, <2>2, <2>3, PcFacts, LockDrop DEF Holding, HandlerPcs
  <2>4. CASE p \notin {"done"}
    BY <2>1, <2>2, <2>4, PcFacts, LockMove DEF Holding, HandlerPcs
  <2> QED BY <2>3, <2>4
<1>8. ASSUME NEW c \in Calls, RestoreDomain(c) PROVE LockInv'
  <2>1. call[c].pc = "restored" /\ Goto(c, "done") /\ Release(c)
    BY <1>8 DEF RestoreDomain
  <2> QED BY <2>1, PcFacts, LockDrop DEF Holding, HandlerPcs
<1>9. ASSUME NEW c \in Calls, PurgeStart(c) PROVE LockInv'
  <2>1. PICK p \in {"undefining", "purging"} : Goto(c, p)
    BY <1>9 DEF PurgeStart
  <2>2. call[c].pc = "held" /\ lock' = lock
    BY <1>9 DEF PurgeStart
  <2> QED BY <2>1, <2>2, PcFacts, LockMove DEF Holding, HandlerPcs
<1>10. ASSUME NEW c \in Calls, PurgeCheck(c) PROVE LockInv'
  <2>1. /\ lock' = lock /\ call[c].pc = "purging"
        /\ UNCHANGED call \/ \E p \in {"undefining", "purgeable"} : Goto(c, p)
    BY <1>10 DEF PurgeCheck
  <2>2. CASE UNCHANGED call
    BY <2>1, <2>2 DEF LockInv, Holding
  <2> QED BY <2>1, <2>2, PcFacts, LockMove DEF Holding, HandlerPcs
<1>11. ASSUME NEW c \in Calls, PurgeRemove(c) PROVE LockInv'
  <2>1. PICK p \in {"purging"} : Goto(c, p)
    BY <1>11 DEF PurgeRemove
  <2>2. call[c].pc = "purgeable" /\ lock' = lock
    BY <1>11 DEF PurgeRemove
  <2> QED BY <2>1, <2>2, PcFacts, LockMove DEF Holding, HandlerPcs
<1>12. ASSUME NEW c \in Calls, PurgeUndefine(c) PROVE LockInv'
  <2>1. PICK p \in {"erasing", "done"} : /\ Goto(c, p)
                               /\ IF p \in {"done"} THEN Release(c) ELSE lock' = lock
    BY <1>12 DEF PurgeUndefine
  <2>2. call[c].pc = "undefining"
    BY <1>12 DEF PurgeUndefine
  <2>3. CASE p \in {"done"}
    BY <2>1, <2>2, <2>3, PcFacts, LockDrop DEF Holding, HandlerPcs
  <2>4. CASE p \notin {"done"}
    BY <2>1, <2>2, <2>4, PcFacts, LockMove DEF Holding, HandlerPcs
  <2> QED BY <2>3, <2>4
<1>13. ASSUME NEW c \in Calls, PurgeRow(c) PROVE LockInv'
  <2>1. call[c].pc = "erasing" /\ Goto(c, "done") /\ Release(c)
    BY <1>13 DEF PurgeRow
  <2> QED BY <2>1, PcFacts, LockDrop DEF Holding, HandlerPcs
<1>14. ASSUME NEW c \in Calls, Begin(c) PROVE LockInv'
  <2>1. Goto(c, FirstStep(call[c].kind)) /\ call[c].pc = "queued" /\ lock' = lock
    BY <1>14 DEF Begin
  <2>2. call[c].kind \in Submitted
    BY <2>1 DEF KindInv, Fits
  <2>3. FirstStep(call[c].kind) \in Pcs /\ FirstStep(call[c].kind) \notin HandlerPcs
    BY <2>2, PcFacts DEF Submitted, FirstStep, HandlerPcs
  <2> QED BY <2>1, <2>3, LockMove DEF Holding, HandlerPcs
<1>15. ASSUME NEW c \in Calls, CreateVols(c) PROVE LockInv'
  <2>1. PICK p \in {"done", "newrow"} : Goto(c, p)
    BY <1>15, CreateVolsGoes
  <2>2. call[c].pc = "newvol" /\ lock' = lock
    BY <1>15 DEF CreateVols
  <2> QED BY <2>1, <2>2, PcFacts, LockMove DEF Holding, HandlerPcs
<1>16. ASSUME NEW c \in Calls, CreateRow(c) PROVE LockInv'
  <2>1. PICK p \in {"newdef", "done"} : Goto(c, p)
    BY <1>16 DEF CreateRow
  <2>2. call[c].pc = "newrow" /\ lock' = lock
    BY <1>16 DEF CreateRow
  <2> QED BY <2>1, <2>2, PcFacts, LockMove DEF Holding, HandlerPcs
<1>17. ASSUME NEW c \in Calls, CreateDefine(c) PROVE LockInv'
  <2>1. PICK p \in {"done"} : Goto(c, p)
    BY <1>17 DEF CreateDefine
  <2>2. call[c].pc = "newdef" /\ lock' = lock
    BY <1>17 DEF CreateDefine
  <2> QED BY <2>1, <2>2, PcFacts, LockMove DEF Holding, HandlerPcs
<1>18. ASSUME NEW c \in Calls, CloneSource(c) PROVE LockInv'
  <2>1. PICK p \in {"clonevol", "done"} : Goto(c, p)
    BY <1>18 DEF CloneSource
  <2>2. call[c].pc = "source" /\ lock' = lock
    BY <1>18 DEF CloneSource
  <2> QED BY <2>1, <2>2, PcFacts, LockMove DEF Holding, HandlerPcs
<1>19. ASSUME NEW c \in Calls, CloneVolume(c) PROVE LockInv'
  <2>1. PICK p \in {"clonedef", "done"} : Goto(c, p)
    BY <1>19 DEF CloneVolume, Link
  <2>2. call[c].pc = "clonevol" /\ lock' = lock
    BY <1>19 DEF CloneVolume
  <2> QED BY <2>1, <2>2, PcFacts, LockMove DEF Holding, HandlerPcs
<1>20. ASSUME NEW c \in Calls, CloneDefine(c) PROVE LockInv'
  <2>1. PICK p \in {"clonerow", "done"} : Goto(c, p)
    BY <1>20 DEF CloneDefine
  <2>2. call[c].pc = "clonedef" /\ lock' = lock
    BY <1>20 DEF CloneDefine
  <2> QED BY <2>1, <2>2, PcFacts, LockMove DEF Holding, HandlerPcs
<1>21. ASSUME NEW c \in Calls, CloneRow(c) PROVE LockInv'
  <2>1. PICK p \in {"done"} : Goto(c, p)
    BY <1>21 DEF CloneRow
  <2>2. call[c].pc = "clonerow" /\ lock' = lock
    BY <1>21 DEF CloneRow
  <2> QED BY <2>1, <2>2, PcFacts, LockMove DEF Holding, HandlerPcs
<1>22. ASSUME NEW c \in Calls, ImageVolume(c) PROVE LockInv'
  <2>1. PICK p \in {"imgdef", "done"} : Goto(c, p)
    BY <1>22 DEF ImageVolume, Link
  <2>2. call[c].pc = "imgvol" /\ lock' = lock
    BY <1>22 DEF ImageVolume
  <2> QED BY <2>1, <2>2, PcFacts, LockMove DEF Holding, HandlerPcs
<1>23. ASSUME NEW c \in Calls, ImageDefine(c) PROVE LockInv'
  <2>1. PICK p \in {"imgrow", "done"} : Goto(c, p)
    BY <1>23 DEF ImageDefine
  <2>2. call[c].pc = "imgdef" /\ lock' = lock
    BY <1>23 DEF ImageDefine
  <2> QED BY <2>1, <2>2, PcFacts, LockMove DEF Holding, HandlerPcs
<1>24. ASSUME NEW c \in Calls, ImageRow(c) PROVE LockInv'
  <2>1. PICK p \in {"done"} : Goto(c, p)
    BY <1>24 DEF ImageRow
  <2>2. call[c].pc = "imgrow" /\ lock' = lock
    BY <1>24 DEF ImageRow
  <2> QED BY <2>1, <2>2, PcFacts, LockMove DEF Holding, HandlerPcs
<1>25. ASSUME NEW c \in Calls, DeleteRead(c) PROVE LockInv'
  <2>1. PICK p \in {"undefine", "done"} : Goto(c, p)
    BY <1>25 DEF DeleteRead
  <2>2. call[c].pc = "delread" /\ lock' = lock
    BY <1>25 DEF DeleteRead
  <2> QED BY <2>1, <2>2, PcFacts, LockMove DEF Holding, HandlerPcs
<1>26. ASSUME NEW c \in Calls, DeleteUndefine(c) PROVE LockInv'
  <2>1. PICK p \in {"guard", "done"} : Goto(c, p)
    BY <1>26 DEF DeleteUndefine
  <2>2. call[c].pc = "undefine" /\ lock' = lock
    BY <1>26 DEF DeleteUndefine
  <2> QED BY <2>1, <2>2, PcFacts, LockMove DEF Holding, HandlerPcs
<1>27. ASSUME NEW c \in Calls, DeleteGuard(c) PROVE LockInv'
  <2>1. PICK p \in {"delvols"} : Goto(c, p)
    BY <1>27 DEF DeleteGuard
  <2>2. call[c].pc = "guard" /\ lock' = lock
    BY <1>27 DEF DeleteGuard
  <2> QED BY <2>1, <2>2, PcFacts, LockMove DEF Holding, HandlerPcs
<1>28. ASSUME NEW c \in Calls, DeleteVolumes(c) PROVE LockInv'
  <2>1. PICK p \in {"delrow"} : Goto(c, p)
    BY <1>28 DEF DeleteVolumes
  <2>2. call[c].pc = "delvols" /\ lock' = lock
    BY <1>28 DEF DeleteVolumes
  <2> QED BY <2>1, <2>2, PcFacts, LockMove DEF Holding, HandlerPcs
<1>29. ASSUME NEW c \in Calls, DeleteRow(c) PROVE LockInv'
  <2>1. PICK p \in {"done"} : Goto(c, p)
    BY <1>29 DEF DeleteRow
  <2>2. call[c].pc = "delrow" /\ lock' = lock
    BY <1>29 DEF DeleteRow
  <2> QED BY <2>1, <2>2, PcFacts, LockMove DEF Holding, HandlerPcs
<1>30. ASSUME NEW c \in Calls, CleanupPool(c) PROVE LockInv'
  <2>1. PICK p \in {"refs"} : Goto(c, p)
    BY <1>30 DEF CleanupPool
  <2>2. call[c].pc = "pool" /\ lock' = lock
    BY <1>30 DEF CleanupPool, CleanupRead
  <2> QED BY <2>1, <2>2, PcFacts, LockMove DEF Holding, HandlerPcs
<1>31. ASSUME NEW c \in Calls, CleanupRefs(c) PROVE LockInv'
  <2>1. PICK p \in {"doms", "done"} : Goto(c, p)
    BY <1>31 DEF CleanupRefs, CleanupRead
  <2>2. call[c].pc = "refs" /\ lock' = lock
    BY <1>31 DEF CleanupRefs, CleanupRead
  <2> QED BY <2>1, <2>2, PcFacts, LockMove DEF Holding, HandlerPcs
<1>32. ASSUME NEW c \in Calls, CleanupDomains(c) PROVE LockInv'
  <2>1. PICK p \in {"sweep", "done"} : Goto(c, p)
    BY <1>32 DEF CleanupDomains, CleanupRead
  <2>2. call[c].pc = "doms" /\ lock' = lock
    BY <1>32 DEF CleanupDomains, CleanupRead
  <2> QED BY <2>1, <2>2, PcFacts, LockMove DEF Holding, HandlerPcs
<1>33. ASSUME NEW c \in Calls, CleanupSweep(c) PROVE LockInv'
  <2>1. PICK p \in {"done"} : Goto(c, p)
    BY <1>33 DEF CleanupSweep
  <2>2. call[c].pc = "sweep" /\ lock' = lock
    BY <1>33 DEF CleanupSweep, CleanupRead
  <2> QED BY <2>1, <2>2, PcFacts, LockMove DEF Holding, HandlerPcs
<1>34. ASSUME NEW c \in Calls, FinalizeRead(c) PROVE LockInv'
  <2>1. PICK p \in {"sysprep", "done"} : Goto(c, p)
    BY <1>34 DEF FinalizeRead
  <2>2. call[c].pc = "finread" /\ lock' = lock
    BY <1>34 DEF FinalizeRead
  <2> QED BY <2>1, <2>2, PcFacts, LockMove DEF Holding, HandlerPcs
<1>35. ASSUME NEW c \in Calls, Sysprep(c) PROVE LockInv'
  <2>1. PICK p \in {"finundef", "done"} : Goto(c, p)
    BY <1>35 DEF Sysprep
  <2>2. call[c].pc = "sysprep" /\ lock' = lock
    BY <1>35 DEF Sysprep
  <2> QED BY <2>1, <2>2, PcFacts, LockMove DEF Holding, HandlerPcs
<1>36. ASSUME NEW c \in Calls, FinalizeUndefine(c) PROVE LockInv'
  <2>1. PICK p \in {"finrow", "done"} : Goto(c, p)
    BY <1>36 DEF FinalizeUndefine
  <2>2. call[c].pc = "finundef" /\ lock' = lock
    BY <1>36 DEF FinalizeUndefine
  <2> QED BY <2>1, <2>2, PcFacts, LockMove DEF Holding, HandlerPcs
<1>37. ASSUME NEW c \in Calls, FinalizeRow(c) PROVE LockInv'
  <2>1. PICK p \in {"register", "done"} : Goto(c, p)
    BY <1>37 DEF FinalizeRow
  <2>2. call[c].pc = "finrow" /\ lock' = lock
    BY <1>37 DEF FinalizeRow
  <2> QED BY <2>1, <2>2, PcFacts, LockMove DEF Holding, HandlerPcs
<1>38. ASSUME NEW c \in Calls, RegisterImage(c) PROVE LockInv'
  <2>1. PICK p \in {"done"} : Goto(c, p)
    BY <1>38 DEF RegisterImage
  <2>2. call[c].pc = "register" /\ lock' = lock
    BY <1>38 DEF RegisterImage
  <2> QED BY <2>1, <2>2, PcFacts, LockMove DEF Holding, HandlerPcs
<1>39. CASE UNCHANGED vars
  BY <1>39 DEF vars, LockInv, Holding
<1> QED
  BY <1>1, <1>2, <1>3, <1>4, <1>5, <1>6, <1>7, <1>8, <1>9, <1>10, <1>11, <1>12, <1>13, <1>14,
     <1>15, <1>16, <1>17, <1>18, <1>19, <1>20, <1>21, <1>22, <1>23, <1>24, <1>25, <1>26,
     <1>27, <1>28, <1>29, <1>30, <1>31, <1>32, <1>33, <1>34, <1>35, <1>36, <1>37, <1>38,
     <1>39 DEF Next, Handler, Executor

\* A machine under construction has a disk before it has a row.
GivenInv == \A c \in Calls : call[c].pc \in {"newrow", "newdef"} => loc[c].disks # {}

\* A step of one call, to a place where it needs no disk or has one.
LEMMA GivenMove ==
  ASSUME VType, GivenInv, NEW c \in Calls, NEW p \in Pcs, Goto(c, p),
         p \in {"newrow", "newdef"} => loc'[c].disks # {}, \A d \in Calls : d # c => loc'[d] = loc[d]
  PROVE  GivenInv'
BY GotoFacts DEF GivenInv

\* Every step keeps it.
LEMMA GivenStep ==
  ASSUME VType, KindInv, RowInv, GivenInv, [Next]_vars
  PROVE  GivenInv'
<1>1. ASSUME NEW c \in Calls, Arrive(c) PROVE GivenInv'
  <2>1. loc' = loc /\ call'[c].pc \in {"found", "queued"} /\ \A d \in Calls : d # c => call'[d] = call[d]
    BY <1>1, ArriveFacts DEF Arrive
  <2> QED BY <2>1 DEF GivenInv
<1>2. ASSUME NEW c \in Calls, GuardVMIdle(c) \/ LockVM(c) \/ SubmitTask(c) \/ RebootDomain(c) \/ RestoreCheck(c) PROVE GivenInv'
  <2>1. loc' = loc /\ \E p \in {"done", "free", "held", "queued", "unlisted"} : Goto(c, p)
    BY <1>2 DEF GuardVMIdle, LockVM, SubmitTask, RebootDomain, RestoreCheck
  <2>2. PICK p \in {"done", "free", "held", "queued", "unlisted"} : Goto(c, p)
    BY <2>1
  <2> QED BY <2>1, <2>2, PcFacts, GivenMove
<1>3. ASSUME NEW c \in Calls, RestoreRow(c) \/ RestoreDomain(c) \/ PurgeRemove(c) \/ PurgeUndefine(c) \/ PurgeRow(c) PROVE GivenInv'
  <2>1. loc' = loc /\ \E p \in {"done", "erasing", "purging", "restored"} : Goto(c, p)
    BY <1>3 DEF RestoreRow, RestoreDomain, PurgeRemove, PurgeUndefine, PurgeRow
  <2>2. PICK p \in {"done", "erasing", "purging", "restored"} : Goto(c, p)
    BY <2>1
  <2> QED BY <2>1, <2>2, PcFacts, GivenMove
<1>4. ASSUME NEW c \in Calls, CreateDefine(c) \/ CloneVolume(c) \/ CloneDefine(c) \/ CloneRow(c) \/ ImageVolume(c) PROVE GivenInv'
  <2>1. loc' = loc /\ \E p \in {"clonedef", "clonerow", "done", "imgdef"} : Goto(c, p)
    BY <1>4 DEF CreateDefine, CloneVolume, CloneDefine, CloneRow, ImageVolume, Link
  <2>2. PICK p \in {"clonedef", "clonerow", "done", "imgdef"} : Goto(c, p)
    BY <2>1
  <2> QED BY <2>1, <2>2, PcFacts, GivenMove
<1>5. ASSUME NEW c \in Calls, ImageDefine(c) \/ ImageRow(c) \/ DeleteUndefine(c) \/ DeleteVolumes(c) \/ DeleteRow(c) PROVE GivenInv'
  <2>1. loc' = loc /\ \E p \in {"delrow", "done", "guard", "imgrow"} : Goto(c, p)
    BY <1>5 DEF ImageDefine, ImageRow, DeleteUndefine, DeleteVolumes, DeleteRow
  <2>2. PICK p \in {"delrow", "done", "guard", "imgrow"} : Goto(c, p)
    BY <2>1
  <2> QED BY <2>1, <2>2, PcFacts, GivenMove
<1>6. ASSUME NEW c \in Calls, CleanupSweep(c) \/ Sysprep(c) \/ FinalizeUndefine(c) \/ FinalizeRow(c) \/ RegisterImage(c) PROVE GivenInv'
  <2>1. loc' = loc /\ \E p \in {"done", "finrow", "finundef", "register"} : Goto(c, p)
    BY <1>6 DEF CleanupSweep, Sysprep, FinalizeUndefine, FinalizeRow, RegisterImage
  <2>2. PICK p \in {"done", "finrow", "finundef", "register"} : Goto(c, p)
    BY <2>1
  <2> QED BY <2>1, <2>2, PcFacts, GivenMove
<1>7. ASSUME NEW c \in Calls, PurgeStart(c) PROVE GivenInv'
  <2>1. PICK p \in {"undefining", "purging"} : Goto(c, p)
    BY <1>7 DEF PurgeStart
  <2>2. \A d \in Calls : d # c => loc'[d] = loc[d]
    BY <1>7 DEF PurgeStart, VType
  <2> QED BY <2>1, <2>2, PcFacts, GivenMove
<1>8. ASSUME NEW c \in Calls, CloneSource(c) PROVE GivenInv'
  <2>1. PICK p \in {"clonevol", "done"} : Goto(c, p)
    BY <1>8 DEF CloneSource
  <2>2. \A d \in Calls : d # c => loc'[d] = loc[d]
    BY <1>8 DEF CloneSource, VType
  <2> QED BY <2>1, <2>2, PcFacts, GivenMove
<1>9. ASSUME NEW c \in Calls, DeleteGuard(c) PROVE GivenInv'
  <2>1. PICK p \in {"delvols"} : Goto(c, p)
    BY <1>9 DEF DeleteGuard
  <2>2. \A d \in Calls : d # c => loc'[d] = loc[d]
    BY <1>9 DEF DeleteGuard, VType
  <2> QED BY <2>1, <2>2, PcFacts, GivenMove
<1>10. ASSUME NEW c \in Calls, CleanupPool(c) PROVE GivenInv'
  <2>1. PICK p \in {"refs"} : Goto(c, p)
    BY <1>10 DEF CleanupPool
  <2>2. \A d \in Calls : d # c => loc'[d] = loc[d]
    BY <1>10 DEF CleanupPool, VType
  <2> QED BY <2>1, <2>2, PcFacts, GivenMove
<1>11. ASSUME NEW c \in Calls, CleanupRefs(c) PROVE GivenInv'
  <2>1. PICK p \in {"doms", "done"} : Goto(c, p)
    BY <1>11 DEF CleanupRefs, CleanupRead
  <2>2. \A d \in Calls : d # c => loc'[d] = loc[d]
    BY <1>11 DEF CleanupRefs, CleanupRead, VType
  <2> QED BY <2>1, <2>2, PcFacts, GivenMove
<1>12. ASSUME NEW c \in Calls, CleanupDomains(c) PROVE GivenInv'
  <2>1. PICK p \in {"sweep", "done"} : Goto(c, p)
    BY <1>12 DEF CleanupDomains, CleanupRead
  <2>2. \A d \in Calls : d # c => loc'[d] = loc[d]
    BY <1>12 DEF CleanupDomains, CleanupRead, VType
  <2> QED BY <2>1, <2>2, PcFacts, GivenMove
<1>13. ASSUME NEW c \in Calls, FinalizeRead(c) PROVE GivenInv'
  <2>1. PICK p \in {"sysprep", "done"} : Goto(c, p)
    BY <1>13 DEF FinalizeRead
  <2>2. \A d \in Calls : d # c => loc'[d] = loc[d]
    BY <1>13 DEF FinalizeRead, VType
  <2> QED BY <2>1, <2>2, PcFacts, GivenMove
<1>14. ASSUME NEW c \in Calls, Begin(c) PROVE GivenInv'
  <2>1. Goto(c, FirstStep(call[c].kind)) /\ call[c].pc = "queued" /\ loc' = loc
    BY <1>14 DEF Begin
  <2>2. call[c].kind \in Submitted
    BY <2>1 DEF KindInv, Fits
  <2>3. FirstStep(call[c].kind) \in Pcs \ {"newrow", "newdef"}
    BY <2>2, PcFacts DEF Submitted, FirstStep
  <2> QED BY <2>1, <2>3, GivenMove
<1>15. ASSUME NEW c \in Calls, CreateVols(c) PROVE GivenInv'
  <2>1. PICK p \in {"done", "newrow"} : Goto(c, p) /\ (p = "newrow" => loc'[c].disks # {})
    BY <1>15, CreateVolsFacts
  <2>2. \A d \in Calls : d # c => loc'[d] = loc[d]
    BY <1>15, CreateVolsFacts
  <2> QED BY <2>1, <2>2, PcFacts, GivenMove
<1>16. ASSUME NEW c \in Calls, CreateRow(c) PROVE GivenInv'
  <2>1. PICK p \in {"done", "newdef"} : Goto(c, p)
    BY <1>16 DEF CreateRow
  <2>2. loc' = loc /\ loc[c].disks # {}
    BY <1>16 DEF CreateRow, GivenInv
  <2> QED BY <2>1, <2>2, PcFacts, GivenMove
<1>17. ASSUME NEW c \in Calls, DeleteRead(c) PROVE GivenInv'
  <2>1. PICK p \in {"done", "undefine"} : Goto(c, p)
    BY <1>17 DEF DeleteRead
  <2>2. PICK v \in VMs, n \in Names : call[c].vm = v /\ row[v].name = n
    BY <1>17, ArgFacts DEF DeleteRead
  <2>3. \A d \in Calls : d # c => loc'[d] = loc[d]
    BY <1>17, <2>2, DeleteReadFacts
  <2> QED BY <2>1, <2>3, PcFacts, GivenMove
<1>18. ASSUME NEW c \in Calls, PurgeCheck(c) PROVE GivenInv'
  <2>1. UNCHANGED call \/ \E p \in {"undefining", "purgeable"} : Goto(c, p)
    BY <1>18 DEF PurgeCheck
  <2>2. call[c].pc = "purging" /\ \A d \in Calls : d # c => loc'[d] = loc[d]
    BY <1>18 DEF PurgeCheck, VType
  <2>3. CASE UNCHANGED call
    BY <2>2, <2>3 DEF GivenInv
  <2>4. ASSUME NEW p \in {"undefining", "purgeable"}, Goto(c, p) PROVE GivenInv'
    BY <2>2, <2>4, PcFacts, GivenMove
  <2> QED BY <2>1, <2>3, <2>4
<1>19. CASE UNCHANGED vars
  BY <1>19 DEF vars, GivenInv
<1> QED
  BY <1>1, <1>2, <1>3, <1>4, <1>5, <1>6, <1>7, <1>8, <1>9, <1>10, <1>11, <1>12, <1>13, <1>14, <1>15, <1>16, <1>17, <1>18, <1>19
     DEF Next, Handler, Executor

TypeInv == VType /\ KindInv /\ RowInv /\ LockInv /\ GivenInv

\* The initial state satisfies TypeInv.
LEMMA TypeInit == Init => TypeInv
<1> SUFFICES ASSUME Init PROVE TypeInv
  OBVIOUS
<1>1. OldName \in Names /\ OldName # None /\ Old \in VMs
  BY BoundAssumption, NoneAssumption DEF VMs
<1>2. mix \in Mixes /\ lock = {} /\ images = {} /\ failures = 0
  BY DEF Init
<1>3. row \in [VMs -> RowType]
  BY <1>1 DEF Init, RowType, NoRow
<1>4. dom \in [Names -> DomType]
  <2>1. Disks(OldName, "") \subseteq Volumes
    BY <1>1, DiskFacts
  <2> QED BY <1>1, <2>1 DEF Init, DomType, NoDomain
<1>5. vols \subseteq Volumes /\ backing \in [Volumes -> Volumes \cup {None}]
  <2>1. Disks(OldName, "") \subseteq Volumes /\ <<OldName, "">> \in Volumes
    BY <1>1, DiskFacts
  <2>2. {n \in Names : mix.cloned /\ n # OldName} \X {"-sys"} \subseteq Volumes
    BY DEF Volumes
  <2> QED BY <2>1, <2>2 DEF Init
<1>6. call = [c \in Calls |-> [pc |-> "idle", kind |-> None, vm |-> None, name |-> None]]
  BY DEF Init
<1>7. call \in [Calls -> CallType] /\ loc \in [Calls -> LocType]
  <2>1. [pc |-> "idle", kind |-> None, vm |-> None, name |-> None] \in CallType
    BY PcFacts DEF CallType
  <2>2. loc = [c \in Calls |-> [disks |-> {}, set |-> {}]]
    BY DEF Init
  <2>3. [disks |-> {}, set |-> {}] \in LocType
    BY DEF LocType
  <2> QED BY <1>6, <2>1, <2>2, <2>3
<1>8. VType
  BY <1>2, <1>3, <1>4, <1>5, <1>7, BoundAssumption DEF VType
<1>9. KindInv
  BY <1>6 DEF KindInv, Fits
<1>10. RowInv
  <2>1. \A v \in VMs : row[v] = IF v = Old THEN [name |-> OldName, life |-> "live", archive |-> {}]
                                           ELSE NoRow
    BY DEF Init
  <2>2. \A c \in Calls : call[c].vm = None /\ call[c].pc = "idle"
    BY <1>6
  <2> QED BY <1>1, <2>1, <2>2 DEF RowInv, NoRow
<1>11. LockInv
  BY <1>2, <1>6 DEF LockInv, Holding, HandlerPcs
<1>12. GivenInv
  BY <1>6 DEF GivenInv
<1> QED BY <1>8, <1>9, <1>10, <1>11, <1>12 DEF TypeInv

\* In every reachable state.
LEMMA TypeAlways == Spec => []TypeInv
<1>1. TypeInv /\ [Next]_vars => TypeInv'
  BY TypeStep, KindStep, RowStep, LockStep, GivenStep DEF TypeInv
<1> QED BY <1>1, TypeInit, PTL DEF Spec

\* Every variable keeps its type, and vmlock holds exactly the machines whose handlers are
\* past TryLock.
THEOREM TypesHold == Spec => []TypeOK
<1>1. TypeInv => TypeOK
  <2> SUFFICES ASSUME TypeInv PROVE TypeOK
    OBVIOUS
  <2>1. \A c \in Calls : call[c] \in CallType /\ loc[c] \in LocType
    BY DEF TypeInv, VType
  <2>2. \A n \in Names : dom[n].uuid \in VMs \cup {None} /\ dom[n].disks \subseteq Volumes
    BY StoreFacts DEF TypeInv
  <2>3. \A v \in VMs : row[v] \in RowType
    BY DEF TypeInv, VType
  <2>4. lock = {call[c].vm : c \in {d \in Calls : call[d].pc \in HandlerPcs \ {"found", "free"}}}
    BY DEF TypeInv, LockInv, Holding
  <2> QED BY <2>1, <2>2, <2>3, <2>4 DEF TypeOK, TypeInv, VType, RowType, CallType, LocType
<1> QED BY <1>1, TypeAlways, PTL

(***************************************************************************)
(* Requests that take turns                                                *)
(***************************************************************************)
\* Where requests do not overlap: a machine is asked for once the call that makes it is done;
\* one handler at a time works on it; once past guardVMIdle no task does; and of two tasks one
\* turns it into a template.
SerialInv ==
  ~mix.overlap =>
    /\ \A c \in Calls : call[c].vm \in Calls => call[call[c].vm].pc = "done"
    /\ \A c, d \in Calls : c # d /\ call[c].vm = call[d].vm /\ call[c].vm # None =>
         /\ ~(Handling(c) /\ Handling(d))
         /\ Handling(c) /\ call[c].pc # "found" => ~Tasked(d)
         /\ Tasked(c) /\ Tasked(d) => "finalize" \in {call[c].kind, call[d].kind}

\* A step that stays a handler's, or a task's, or ends the call.
LEMMA SerialMove ==
  ASSUME VType, SerialInv, NEW c \in Calls, NEW p \in Pcs, Goto(c, p), mix' = mix,
         call[c].pc # "done",
         p \in HandlerPcs => call[c].pc \in HandlerPcs \ {"found"},
         p \in TaskPcs => call[c].pc \in TaskPcs
  PROVE  SerialInv'
<1>1. \A d \in Calls : /\ call'[d].kind = call[d].kind /\ call'[d].vm = call[d].vm
                       /\ d # c => call'[d].pc = call[d].pc
                       /\ call'[c].pc = p
  BY GotoFacts
<1>2. \A d \in Calls : /\ (Handling(d))' => Handling(d)
                       /\ (Handling(d))' /\ call'[d].pc # "found" =>
                            Handling(d) /\ call[d].pc # "found"
                       /\ (Tasked(d))' => Tasked(d)
  BY <1>1 DEF Handling, Tasked
<1>3. ~mix.overlap => \A d \in Calls : call'[d].vm \in Calls => call'[call'[d].vm].pc = "done"
  BY <1>1 DEF SerialInv
<1> QED BY <1>1, <1>2, <1>3 DEF SerialInv

\* Every step keeps the turns.
LEMMA SerialStep ==
  ASSUME VType, KindInv, RowInv, SerialInv, [Next]_vars
  PROVE  SerialInv'
<1>1. ASSUME NEW c \in Calls, Arrive(c) PROVE SerialInv'
  <2> SUFFICES ASSUME ~mix.overlap PROVE SerialInv'
    BY <1>1 DEF SerialInv, Arrive
  <2>1. PICK k \in mix.kinds, v \in VMs \cup {None} :
          /\ \A d \in Calls : d # c => call'[d] = call[d]
          /\ call'[c].pc = (IF k \in Locks THEN "found" ELSE "queued")
          /\ call'[c].kind = k /\ call'[c].vm = v
          /\ k \in {"create", "image", "cleanup"} <=> v = None
          /\ v = None \/ Turn(v)
    BY <1>1, ArriveFacts
  <2>2. call[c].pc = "idle" /\ k \in Kinds
    BY <1>1, MixAssumption DEF VType, Arrive
  <2>3. v # None => /\ \A d \in Calls : Handling(d) => call[d].vm # v
                    /\ v \in Calls => call[v].pc = "done"
    BY <2>1 DEF Turn
  <2>4. \A d \in Calls : call'[d].vm \in Calls => call'[call'[d].vm].pc = "done"
    <3> SUFFICES ASSUME NEW d \in Calls, call'[d].vm \in Calls
                 PROVE  call'[call'[d].vm].pc = "done"
      OBVIOUS
    <3>1. CASE d = c
      BY <2>1, <2>2, <2>3, <3>1, NoneAssumption DEF VMs
    <3>2. CASE d # c
      BY <2>1, <2>2, <3>2 DEF SerialInv
    <3> QED BY <3>1, <3>2
  <2>5. /\ (Handling(c))' => call'[c].pc = "found"
        /\ (Tasked(c))' /\ v # None => k = "finalize"
        /\ ~((Handling(c))' /\ (Tasked(c))')
    BY <2>1, <2>2 DEF Tasked, Handling, TaskPcs, HandlerPcs, Locks, Kinds
  <2>6. \A d \in Calls : d # c => /\ (Handling(d))' <=> Handling(d)
                                 /\ (Tasked(d))' <=> Tasked(d)
    BY <2>1 DEF Handling, Tasked
  <2>7. ASSUME NEW d \in Calls, d # c, v # None, call[d].vm = v
        PROVE  ~Handling(d)
    BY <2>3, <2>7
  <2>8. ASSUME NEW d \in Calls, NEW e \in Calls, d # e, call'[d].vm = call'[e].vm,
               call'[d].vm # None
        PROVE  /\ ~((Handling(d))' /\ (Handling(e))')
               /\ (Handling(d))' /\ call'[d].pc # "found" => ~(Tasked(e))'
               /\ (Tasked(d))' /\ (Tasked(e))' =>
                    "finalize" \in {call'[d].kind, call'[e].kind}
    <3>1. CASE d = c
      BY <2>1, <2>5, <2>6, <2>7, <2>8, <3>1 DEF Handling, Tasked
    <3>2. CASE e = c
      BY <2>1, <2>5, <2>6, <2>7, <2>8, <3>2 DEF Handling, Tasked
    <3>3. CASE d # c /\ e # c
      BY <2>1, <2>8, <3>3 DEF SerialInv, Handling, Tasked
    <3> QED BY <3>1, <3>2, <3>3
  <2> QED BY <2>4, <2>8 DEF SerialInv
<1>2. ASSUME NEW c \in Calls, GuardVMIdle(c) PROVE SerialInv'
  <2>1. call[c].pc = "found" /\ mix' = mix
    BY <1>2 DEF GuardVMIdle
  <2>2. CASE \E d \in Calls : TaskFor(d, call[c].vm)
    BY <1>2, <2>1, <2>2, PcFacts, SerialMove DEF GuardVMIdle, HandlerPcs, TaskPcs
  <2>3. CASE ~\E d \in Calls : TaskFor(d, call[c].vm)
    <3>1. Goto(c, "free")
      BY <1>2, <2>3 DEF GuardVMIdle
    <3>2. \A d \in Calls : /\ call'[d].kind = call[d].kind /\ call'[d].vm = call[d].vm
                           /\ d # c => call'[d].pc = call[d].pc
                           /\ call'[c].pc = "free"
      BY <3>1, GotoFacts, PcFacts
    <3>3. \A d \in Calls : /\ (Handling(d))' <=> Handling(d)
                           /\ (Tasked(d))' <=> Tasked(d)
      BY <2>1, <3>2 DEF Handling, Tasked, HandlerPcs, TaskPcs
    <3>4. \A d \in Calls : call[d].vm = call[c].vm => ~Tasked(d)
      BY <2>3 DEF TaskFor
    <3> QED BY <2>1, <3>2, <3>3, <3>4 DEF SerialInv
  <2> QED BY <2>2, <2>3
<1>3. ASSUME NEW c \in Calls, LockVM(c) PROVE SerialInv'
  <2>1. PICK p \in {"done", "held"} : Goto(c, p)
    BY <1>3 DEF LockVM
  <2>2. call[c].pc = "free" /\ mix' = mix
    BY <1>3 DEF LockVM
  <2> QED BY <2>1, <2>2, PcFacts, SerialMove DEF HandlerPcs, TaskPcs
<1>4. ASSUME NEW c \in Calls, SubmitTask(c) PROVE SerialInv'
  <2>1. call[c].pc = "held" /\ mix' = mix /\ Goto(c, "queued")
    BY <1>4 DEF SubmitTask
  <2>2. \A d \in Calls : /\ call'[d].kind = call[d].kind /\ call'[d].vm = call[d].vm
                         /\ d # c => call'[d].pc = call[d].pc
                         /\ call'[c].pc = "queued"
    BY <2>1, GotoFacts, PcFacts
  <2>3. /\ \A d \in Calls \ {c} : /\ (Handling(d))' <=> Handling(d)
                                  /\ (Tasked(d))' <=> Tasked(d)
        /\ Handling(c) /\ ~(Handling(c))' /\ call[c].pc # "done"
    BY <2>1, <2>2 DEF Handling, Tasked, HandlerPcs
  <2>4. ~mix.overlap => \A d \in Calls \ {c} : call[d].vm = call[c].vm /\ call[c].vm # None =>
                                                ~Tasked(d) /\ ~Handling(d)
    BY <2>1, <2>3 DEF SerialInv
  <2>5. ~mix.overlap => \A d \in Calls : call'[d].vm \in Calls => call'[call'[d].vm].pc = "done"
    BY <2>2, <2>3 DEF SerialInv
  <2>6. ASSUME ~mix.overlap, NEW d \in Calls, NEW e \in Calls, d # e,
               call[d].vm = call[e].vm, call[d].vm # None
        PROVE  /\ ~((Handling(d))' /\ (Handling(e))')
               /\ (Handling(d))' /\ call'[d].pc # "found" => ~(Tasked(e))'
               /\ (Tasked(d))' /\ (Tasked(e))' => "finalize" \in {call[d].kind, call[e].kind}
    <3>1. CASE d = c
      <4>1. ~Handling(e) /\ ~Tasked(e) /\ ~(Handling(e))' /\ ~(Tasked(e))'
        BY <2>3, <2>4, <2>6, <3>1 DEF Handling, Tasked
      <4> QED BY <2>3, <3>1, <4>1 DEF Handling, Tasked
    <3>3. CASE e = c
      <4>1. ~Handling(d) /\ ~Tasked(d) /\ ~(Handling(d))' /\ ~(Tasked(d))'
        BY <2>3, <2>4, <2>6, <3>3 DEF Handling, Tasked
      <4> QED BY <4>1
    <3>2. CASE d # c /\ e # c
      BY <2>2, <2>6, <3>2 DEF SerialInv, Handling, Tasked
    <3> QED BY <3>1, <3>2, <3>3
  <2> QED BY <2>1, <2>2, <2>5, <2>6 DEF SerialInv
<1>5. ASSUME NEW c \in Calls, RebootDomain(c) PROVE SerialInv'
  <2>1. PICK p \in {"done"} : Goto(c, p)
    BY <1>5 DEF RebootDomain
  <2>2. call[c].pc = "held" /\ mix' = mix
    BY <1>5 DEF RebootDomain
  <2> QED BY <2>1, <2>2, PcFacts, SerialMove DEF HandlerPcs, TaskPcs
<1>6. ASSUME NEW c \in Calls, RestoreCheck(c) PROVE SerialInv'
  <2>1. PICK p \in {"done", "unlisted"} : Goto(c, p)
    BY <1>6 DEF RestoreCheck
  <2>2. call[c].pc = "held" /\ mix' = mix
    BY <1>6 DEF RestoreCheck
  <2> QED BY <2>1, <2>2, PcFacts, SerialMove DEF HandlerPcs, TaskPcs
<1>7. ASSUME NEW c \in Calls, RestoreRow(c) PROVE SerialInv'
  <2>1. PICK p \in {"restored", "done"} : Goto(c, p)
    BY <1>7 DEF RestoreRow
  <2>2. call[c].pc = "unlisted" /\ mix' = mix
    BY <1>7 DEF RestoreRow
  <2> QED BY <2>1, <2>2, PcFacts, SerialMove DEF HandlerPcs, TaskPcs
<1>8. ASSUME NEW c \in Calls, RestoreDomain(c) PROVE SerialInv'
  <2>1. PICK p \in {"done"} : Goto(c, p)
    BY <1>8 DEF RestoreDomain
  <2>2. call[c].pc = "restored" /\ mix' = mix
    BY <1>8 DEF RestoreDomain
  <2> QED BY <2>1, <2>2, PcFacts, SerialMove DEF HandlerPcs, TaskPcs
<1>9. ASSUME NEW c \in Calls, PurgeStart(c) PROVE SerialInv'
  <2>1. PICK p \in {"undefining", "purging"} : Goto(c, p)
    BY <1>9 DEF PurgeStart
  <2>2. call[c].pc = "held" /\ mix' = mix
    BY <1>9 DEF PurgeStart
  <2> QED BY <2>1, <2>2, PcFacts, SerialMove DEF HandlerPcs, TaskPcs
<1>10. ASSUME NEW c \in Calls, PurgeCheck(c) PROVE SerialInv'
  <2>1. /\ mix' = mix /\ call[c].pc = "purging"
        /\ UNCHANGED call \/ \E p \in {"undefining", "purgeable"} : Goto(c, p)
    BY <1>10 DEF PurgeCheck
  <2>2. CASE UNCHANGED call
    BY <2>1, <2>2 DEF SerialInv, Handling, Tasked
  <2> QED BY <2>1, <2>2, PcFacts, SerialMove DEF HandlerPcs, TaskPcs
<1>11. ASSUME NEW c \in Calls, PurgeRemove(c) PROVE SerialInv'
  <2>1. PICK p \in {"purging"} : Goto(c, p)
    BY <1>11 DEF PurgeRemove
  <2>2. call[c].pc = "purgeable" /\ mix' = mix
    BY <1>11 DEF PurgeRemove
  <2> QED BY <2>1, <2>2, PcFacts, SerialMove DEF HandlerPcs, TaskPcs
<1>12. ASSUME NEW c \in Calls, PurgeUndefine(c) PROVE SerialInv'
  <2>1. PICK p \in {"erasing", "done"} : Goto(c, p)
    BY <1>12 DEF PurgeUndefine
  <2>2. call[c].pc = "undefining" /\ mix' = mix
    BY <1>12 DEF PurgeUndefine
  <2> QED BY <2>1, <2>2, PcFacts, SerialMove DEF HandlerPcs, TaskPcs
<1>13. ASSUME NEW c \in Calls, PurgeRow(c) PROVE SerialInv'
  <2>1. PICK p \in {"done"} : Goto(c, p)
    BY <1>13 DEF PurgeRow
  <2>2. call[c].pc = "erasing" /\ mix' = mix
    BY <1>13 DEF PurgeRow
  <2> QED BY <2>1, <2>2, PcFacts, SerialMove DEF HandlerPcs, TaskPcs
<1>14. ASSUME NEW c \in Calls, Begin(c) PROVE SerialInv'
  <2>1. Goto(c, FirstStep(call[c].kind)) /\ call[c].pc = "queued" /\ mix' = mix
    BY <1>14 DEF Begin
  <2>2. call[c].kind \in Submitted
    BY <2>1 DEF KindInv, Fits
  <2>3. FirstStep(call[c].kind) \in TaskPcs \cap Pcs
    BY <2>2, PcFacts DEF Submitted, FirstStep, TaskPcs
  <2>4. \A p \in TaskPcs : p \notin HandlerPcs
    BY DEF TaskPcs, HandlerPcs
  <2>5. "queued" \in TaskPcs
    BY DEF TaskPcs
  <2> QED BY <2>1, <2>3, <2>4, <2>5, SerialMove
<1>15. ASSUME NEW c \in Calls, CreateVols(c) PROVE SerialInv'
  <2>1. PICK p \in {"done", "newrow"} : Goto(c, p)
    BY <1>15, CreateVolsGoes
  <2>2. call[c].pc = "newvol" /\ mix' = mix
    BY <1>15 DEF CreateVols
  <2> QED BY <2>1, <2>2, PcFacts, SerialMove DEF HandlerPcs, TaskPcs
<1>16. ASSUME NEW c \in Calls, CreateRow(c) PROVE SerialInv'
  <2>1. PICK p \in {"newdef", "done"} : Goto(c, p)
    BY <1>16 DEF CreateRow
  <2>2. call[c].pc = "newrow" /\ mix' = mix
    BY <1>16 DEF CreateRow
  <2> QED BY <2>1, <2>2, PcFacts, SerialMove DEF HandlerPcs, TaskPcs
<1>17. ASSUME NEW c \in Calls, CreateDefine(c) PROVE SerialInv'
  <2>1. PICK p \in {"done"} : Goto(c, p)
    BY <1>17 DEF CreateDefine
  <2>2. call[c].pc = "newdef" /\ mix' = mix
    BY <1>17 DEF CreateDefine
  <2> QED BY <2>1, <2>2, PcFacts, SerialMove DEF HandlerPcs, TaskPcs
<1>18. ASSUME NEW c \in Calls, CloneSource(c) PROVE SerialInv'
  <2>1. PICK p \in {"clonevol", "done"} : Goto(c, p)
    BY <1>18 DEF CloneSource
  <2>2. call[c].pc = "source" /\ mix' = mix
    BY <1>18 DEF CloneSource
  <2> QED BY <2>1, <2>2, PcFacts, SerialMove DEF HandlerPcs, TaskPcs
<1>19. ASSUME NEW c \in Calls, CloneVolume(c) PROVE SerialInv'
  <2>1. PICK p \in {"clonedef", "done"} : Goto(c, p)
    BY <1>19 DEF CloneVolume, Link
  <2>2. call[c].pc = "clonevol" /\ mix' = mix
    BY <1>19 DEF CloneVolume
  <2> QED BY <2>1, <2>2, PcFacts, SerialMove DEF HandlerPcs, TaskPcs
<1>20. ASSUME NEW c \in Calls, CloneDefine(c) PROVE SerialInv'
  <2>1. PICK p \in {"clonerow", "done"} : Goto(c, p)
    BY <1>20 DEF CloneDefine
  <2>2. call[c].pc = "clonedef" /\ mix' = mix
    BY <1>20 DEF CloneDefine
  <2> QED BY <2>1, <2>2, PcFacts, SerialMove DEF HandlerPcs, TaskPcs
<1>21. ASSUME NEW c \in Calls, CloneRow(c) PROVE SerialInv'
  <2>1. PICK p \in {"done"} : Goto(c, p)
    BY <1>21 DEF CloneRow
  <2>2. call[c].pc = "clonerow" /\ mix' = mix
    BY <1>21 DEF CloneRow
  <2> QED BY <2>1, <2>2, PcFacts, SerialMove DEF HandlerPcs, TaskPcs
<1>22. ASSUME NEW c \in Calls, ImageVolume(c) PROVE SerialInv'
  <2>1. PICK p \in {"imgdef", "done"} : Goto(c, p)
    BY <1>22 DEF ImageVolume, Link
  <2>2. call[c].pc = "imgvol" /\ mix' = mix
    BY <1>22 DEF ImageVolume
  <2> QED BY <2>1, <2>2, PcFacts, SerialMove DEF HandlerPcs, TaskPcs
<1>23. ASSUME NEW c \in Calls, ImageDefine(c) PROVE SerialInv'
  <2>1. PICK p \in {"imgrow", "done"} : Goto(c, p)
    BY <1>23 DEF ImageDefine
  <2>2. call[c].pc = "imgdef" /\ mix' = mix
    BY <1>23 DEF ImageDefine
  <2> QED BY <2>1, <2>2, PcFacts, SerialMove DEF HandlerPcs, TaskPcs
<1>24. ASSUME NEW c \in Calls, ImageRow(c) PROVE SerialInv'
  <2>1. PICK p \in {"done"} : Goto(c, p)
    BY <1>24 DEF ImageRow
  <2>2. call[c].pc = "imgrow" /\ mix' = mix
    BY <1>24 DEF ImageRow
  <2> QED BY <2>1, <2>2, PcFacts, SerialMove DEF HandlerPcs, TaskPcs
<1>25. ASSUME NEW c \in Calls, DeleteRead(c) PROVE SerialInv'
  <2>1. PICK p \in {"undefine", "done"} : Goto(c, p)
    BY <1>25 DEF DeleteRead
  <2>2. call[c].pc = "delread" /\ mix' = mix
    BY <1>25 DEF DeleteRead
  <2> QED BY <2>1, <2>2, PcFacts, SerialMove DEF HandlerPcs, TaskPcs
<1>26. ASSUME NEW c \in Calls, DeleteUndefine(c) PROVE SerialInv'
  <2>1. PICK p \in {"guard", "done"} : Goto(c, p)
    BY <1>26 DEF DeleteUndefine
  <2>2. call[c].pc = "undefine" /\ mix' = mix
    BY <1>26 DEF DeleteUndefine
  <2> QED BY <2>1, <2>2, PcFacts, SerialMove DEF HandlerPcs, TaskPcs
<1>27. ASSUME NEW c \in Calls, DeleteGuard(c) PROVE SerialInv'
  <2>1. PICK p \in {"delvols"} : Goto(c, p)
    BY <1>27 DEF DeleteGuard
  <2>2. call[c].pc = "guard" /\ mix' = mix
    BY <1>27 DEF DeleteGuard
  <2> QED BY <2>1, <2>2, PcFacts, SerialMove DEF HandlerPcs, TaskPcs
<1>28. ASSUME NEW c \in Calls, DeleteVolumes(c) PROVE SerialInv'
  <2>1. PICK p \in {"delrow"} : Goto(c, p)
    BY <1>28 DEF DeleteVolumes
  <2>2. call[c].pc = "delvols" /\ mix' = mix
    BY <1>28 DEF DeleteVolumes
  <2> QED BY <2>1, <2>2, PcFacts, SerialMove DEF HandlerPcs, TaskPcs
<1>29. ASSUME NEW c \in Calls, DeleteRow(c) PROVE SerialInv'
  <2>1. PICK p \in {"done"} : Goto(c, p)
    BY <1>29 DEF DeleteRow
  <2>2. call[c].pc = "delrow" /\ mix' = mix
    BY <1>29 DEF DeleteRow
  <2> QED BY <2>1, <2>2, PcFacts, SerialMove DEF HandlerPcs, TaskPcs
<1>30. ASSUME NEW c \in Calls, CleanupPool(c) PROVE SerialInv'
  <2>1. PICK p \in {"refs"} : Goto(c, p)
    BY <1>30 DEF CleanupPool
  <2>2. call[c].pc = "pool" /\ mix' = mix
    BY <1>30 DEF CleanupPool, CleanupRead
  <2> QED BY <2>1, <2>2, PcFacts, SerialMove DEF HandlerPcs, TaskPcs
<1>31. ASSUME NEW c \in Calls, CleanupRefs(c) PROVE SerialInv'
  <2>1. PICK p \in {"doms", "done"} : Goto(c, p)
    BY <1>31 DEF CleanupRefs, CleanupRead
  <2>2. call[c].pc = "refs" /\ mix' = mix
    BY <1>31 DEF CleanupRefs, CleanupRead
  <2> QED BY <2>1, <2>2, PcFacts, SerialMove DEF HandlerPcs, TaskPcs
<1>32. ASSUME NEW c \in Calls, CleanupDomains(c) PROVE SerialInv'
  <2>1. PICK p \in {"sweep", "done"} : Goto(c, p)
    BY <1>32 DEF CleanupDomains, CleanupRead
  <2>2. call[c].pc = "doms" /\ mix' = mix
    BY <1>32 DEF CleanupDomains, CleanupRead
  <2> QED BY <2>1, <2>2, PcFacts, SerialMove DEF HandlerPcs, TaskPcs
<1>33. ASSUME NEW c \in Calls, CleanupSweep(c) PROVE SerialInv'
  <2>1. PICK p \in {"done"} : Goto(c, p)
    BY <1>33 DEF CleanupSweep
  <2>2. call[c].pc = "sweep" /\ mix' = mix
    BY <1>33 DEF CleanupSweep, CleanupRead
  <2> QED BY <2>1, <2>2, PcFacts, SerialMove DEF HandlerPcs, TaskPcs
<1>34. ASSUME NEW c \in Calls, FinalizeRead(c) PROVE SerialInv'
  <2>1. PICK p \in {"sysprep", "done"} : Goto(c, p)
    BY <1>34 DEF FinalizeRead
  <2>2. call[c].pc = "finread" /\ mix' = mix
    BY <1>34 DEF FinalizeRead
  <2> QED BY <2>1, <2>2, PcFacts, SerialMove DEF HandlerPcs, TaskPcs
<1>35. ASSUME NEW c \in Calls, Sysprep(c) PROVE SerialInv'
  <2>1. PICK p \in {"finundef", "done"} : Goto(c, p)
    BY <1>35 DEF Sysprep
  <2>2. call[c].pc = "sysprep" /\ mix' = mix
    BY <1>35 DEF Sysprep
  <2> QED BY <2>1, <2>2, PcFacts, SerialMove DEF HandlerPcs, TaskPcs
<1>36. ASSUME NEW c \in Calls, FinalizeUndefine(c) PROVE SerialInv'
  <2>1. PICK p \in {"finrow", "done"} : Goto(c, p)
    BY <1>36 DEF FinalizeUndefine
  <2>2. call[c].pc = "finundef" /\ mix' = mix
    BY <1>36 DEF FinalizeUndefine
  <2> QED BY <2>1, <2>2, PcFacts, SerialMove DEF HandlerPcs, TaskPcs
<1>37. ASSUME NEW c \in Calls, FinalizeRow(c) PROVE SerialInv'
  <2>1. PICK p \in {"register", "done"} : Goto(c, p)
    BY <1>37 DEF FinalizeRow
  <2>2. call[c].pc = "finrow" /\ mix' = mix
    BY <1>37 DEF FinalizeRow
  <2> QED BY <2>1, <2>2, PcFacts, SerialMove DEF HandlerPcs, TaskPcs
<1>38. ASSUME NEW c \in Calls, RegisterImage(c) PROVE SerialInv'
  <2>1. PICK p \in {"done"} : Goto(c, p)
    BY <1>38 DEF RegisterImage
  <2>2. call[c].pc = "register" /\ mix' = mix
    BY <1>38 DEF RegisterImage
  <2> QED BY <2>1, <2>2, PcFacts, SerialMove DEF HandlerPcs, TaskPcs
<1>39. CASE UNCHANGED vars
  BY <1>39 DEF vars, SerialInv, Handling, Tasked
<1> QED
  BY <1>1, <1>2, <1>3, <1>4, <1>5, <1>6, <1>7, <1>8, <1>9, <1>10, <1>11, <1>12, <1>13, <1>14,
     <1>15, <1>16, <1>17, <1>18, <1>19, <1>20, <1>21, <1>22, <1>23, <1>24, <1>25, <1>26,
     <1>27, <1>28, <1>29, <1>30, <1>31, <1>32, <1>33, <1>34, <1>35, <1>36, <1>37, <1>38,
     <1>39 DEF Next, Handler, Executor

\* In every reachable state.
LEMMA SerialAlways == Spec => [](TypeInv /\ SerialInv)
<1>1. Init => SerialInv
  <2> SUFFICES ASSUME Init PROVE SerialInv
    OBVIOUS
  <2>1. \A c \in Calls : call[c].pc = "idle" /\ call[c].vm = None
    BY DEF Init
  <2> QED BY <2>1, NoneAssumption DEF SerialInv, VMs
<1>2. TypeInv /\ SerialInv /\ [Next]_vars => SerialInv'
  BY SerialStep DEF TypeInv
<1> QED BY <1>1, <1>2, TypeAlways, PTL DEF Spec

(***************************************************************************)
(* Rows and domains                                                        *)
(***************************************************************************)
\* The machine a call makes has the name that call was given.
NameOf(v) == IF v = Old THEN OldName ELSE call[v].name

\* Names are the machines' own: a row appears when its call writes it.
NameInv ==
  /\ row[Old].name = OldName /\ row[Old].life # "none"
  /\ \A c \in Calls : row[c].life # "none" =>
       /\ row[c].name = call[c].name /\ call[c].kind \in Makes
       /\ call[c].pc \in {"newdef", "done"}
  /\ \A c \in Calls : call[c].pc = "newdef" => row[c].life = "live"
  /\ \A c \in Calls : call[c].name # OldName
  /\ \A c, d \in Calls : c # d /\ call[c].name # None => call[c].name # call[d].name
  /\ \A c \in Calls : call[c].vm # None => row[call[c].vm].life # "none"

\* A domain has the name of its machine, a disk, and a live row, but for the one a clone has
\* just defined; and a machine that is being removed or restored has none.
DomInv ==
  /\ \A n \in Names : dom[n].uuid # None =>
       /\ NameOf(dom[n].uuid) = n /\ dom[n].disks # {}
       /\ \/ row[dom[n].uuid].life = "live"
          \/ dom[n].uuid \in Calls /\ call[dom[n].uuid].pc \in {"clonerow", "imgrow"}
       /\ dom[n].uuid \in Calls => call[dom[n].uuid].pc \in {"clonerow", "imgrow", "done"}
  /\ \A c \in Calls : call[c].pc \in {"clonerow", "imgrow"} => dom[call[c].name].uuid = c
  /\ \A c \in Calls :
       call[c].pc \in {"guard", "delvols", "delrow", "finrow", "restored", "erasing"} =>
         dom[row[call[c].vm].name].uuid = None

\* What a handler or a task knows of the row it works on.
LifeInv ==
  /\ \A c \in Calls : Handling(c) /\ call[c].kind = "purge" =>
       row[call[c].vm].life \in {"bin", "gone"}
  /\ \A c \in Calls : Handling(c) /\ call[c].kind = "restore" =>
       row[call[c].vm].life = IF call[c].pc = "restored" THEN "live" ELSE "bin"
  /\ "restore" \in mix.kinds =>
       \A c \in Calls :
         /\ call[c].pc \in {"undefine", "guard", "delvols", "delrow"} =>
              row[call[c].vm].life = "live"
         /\ call[c].pc \in {"sysprep", "finundef", "finrow"} =>
              row[call[c].vm].life \in {"live", "gone"}

\* Someone is about to take the row of v away, or to give it its domain.
Limbo(v) ==
  \E c \in Calls : /\ call[c].vm = v
                   /\ call[c].pc \in {"guard", "delvols", "delrow", "finrow", "restored"}

\* Without failures a live row has its domain, or is in limbo.
MatchInv ==
  failures = 0 =>
    \A v \in VMs : row[v].life = "live" =>
      dom[row[v].name].uuid = v \/ (v \in Calls /\ call[v].pc = "newdef") \/ Limbo(v)

\* Without failures the recycle bin knows the disks of what it holds, where machines are
\* restored from it.
ArchiveInv ==
  failures = 0 /\ "restore" \in mix.kinds =>
    /\ \A v \in VMs : row[v].life = "bin" => row[v].archive # {}
    /\ \A c \in Calls : call[c].pc \in {"undefine", "guard", "delvols", "delrow", "restored"} =>
         row[call[c].vm].archive # {}

RowsInv == NameInv /\ DomInv /\ LifeInv /\ MatchInv /\ ArchiveInv

\* What SerialMixes says of the scenario.
LEMMA MixFacts ==
  ASSUME SerialMixes, VType
  PROVE  /\ ~mix.reuse
         /\ mix.kinds \cap (Makes \cup {"restore", "finalize", "restart"}) # {} => ~mix.overlap
         /\ ~({"delete", "finalize", "restore"} \subseteq mix.kinds)
<1>1. /\ ~mix.reuse
      /\ mix.overlap => mix.kinds \subseteq {"delete", "cleanup", "purge"}
      /\ ~({"delete", "finalize", "restore"} \subseteq mix.kinds)
  BY DEF SerialMixes, VType
<1> QED BY <1>1 DEF Makes

\* The machine a request is for is settled and has its name for itself.
LEMMA OwnerFacts ==
  ASSUME SerialMixes, TypeInv, SerialInv, NameInv, NEW c \in Calls, NEW v \in VMs,
         call[c].vm = v
  PROVE  /\ v \in Calls => call[v].pc = "done"
         /\ row[v].life # "none" /\ row[v].name \in Names /\ NameOf(v) = row[v].name
         /\ \A u \in VMs : row[u].life # "none" /\ row[u].name = row[v].name => u = v
         /\ \A d \in Calls : call[d].name = row[v].name => d = v
<1>1. v # None /\ row[v].life # "none" /\ row[v].name # None /\ row[v].name \in Names
  BY NoneAssumption, StoreFacts DEF NameInv, TypeInv, RowInv
<1>2. v \in Calls => call[v].pc = "done"
  <2> SUFFICES ASSUME v \in Calls PROVE call[v].pc = "done"
    OBVIOUS
  <2>1. call[v].kind \in Makes /\ call[v].pc \in {"newdef", "done"}
    BY <1>1 DEF NameInv
  <2>2. call[v].kind \in mix.kinds
    BY <2>1 DEF TypeInv, KindInv
  <2>3. ~mix.overlap
    BY <2>1, <2>2, MixFacts DEF TypeInv
  <2> QED BY <2>3 DEF SerialInv
<1>3. \A u \in VMs : u = Old \/ u \in Calls
  BY DEF VMs
<1>4. NameOf(v) = row[v].name
  BY <1>1, <1>3 DEF NameOf, NameInv
<1>5. \A u \in VMs : row[u].life # "none" /\ row[u].name = row[v].name => u = v
  BY <1>1, <1>3 DEF NameInv
<1>6. \A d \in Calls : call[d].name = row[v].name => d = v
  BY <1>1, <1>3 DEF NameInv
<1> QED BY <1>1, <1>2, <1>4, <1>5, <1>6

\* A call that makes a machine has its name for itself.
LEMMA MakerFacts ==
  ASSUME SerialMixes, TypeInv, SerialInv, NameInv, DomInv, NEW c \in Calls,
         call[c].pc \in {"newvol", "newrow", "newdef", "source", "clonevol", "clonedef",
                         "clonerow", "imgvol", "imgdef", "imgrow"}
  PROVE  /\ call[c].name \in Names /\ call[c].name # None /\ c \in VMs /\ ~mix.overlap
         /\ call[c].kind \in Makes
         /\ \A v \in VMs : row[v].life # "none" /\ row[v].name = call[c].name => v = c
         /\ \A d \in Calls : call[d].vm # c
         /\ call[c].pc # "newdef" => row[c].life = "none"
         /\ \A d \in Calls : d # c => call[d].name # call[c].name
         /\ call[c].pc \notin {"clonerow", "imgrow"} => dom[call[c].name].uuid = None
         /\ call[c].name # OldName
<1>1. call[c].name \in Names /\ call[c].name # None /\ c \in VMs /\ c # Old
  BY ArgFacts, NoneAssumption, OldAssumption DEF TypeInv, VMs
<1>2. Fits(call[c].kind, call[c].pc) /\ call[c].kind \in mix.kinds
  BY DEF TypeInv, KindInv
<1>3. call[c].kind \in Makes
  <2>1. call[c].pc \in {"newvol", "newrow", "newdef"} => call[c].kind = "create"
    BY <1>2 DEF Fits
  <2>2. call[c].pc \in {"source", "clonevol", "clonedef", "clonerow"} => call[c].kind = "clone"
    BY <1>2 DEF Fits
  <2>3. call[c].pc \in {"imgvol", "imgdef", "imgrow"} => call[c].kind = "image"
    BY <1>2 DEF Fits
  <2> QED BY <2>1, <2>2, <2>3 DEF Makes
<1>4. ~mix.overlap
  BY <1>2, <1>3, MixFacts DEF TypeInv
<1>5. \A d \in Calls : call[d].vm # c
  BY <1>4 DEF SerialInv
<1>6. \A u \in VMs : u = Old \/ u \in Calls
  BY DEF VMs
<1>7. \A v \in VMs : row[v].life # "none" /\ row[v].name = call[c].name => v = c
  BY <1>1, <1>6 DEF NameInv
<1>8. \A d \in Calls : d # c => call[d].name # call[c].name
  BY <1>1 DEF NameInv
<1>9. call[c].pc # "newdef" => row[c].life = "none"
  BY DEF NameInv
<1>10. call[c].pc \notin {"clonerow", "imgrow"} => dom[call[c].name].uuid = None
  <2> SUFFICES ASSUME call[c].pc \notin {"clonerow", "imgrow"},
                      dom[call[c].name].uuid # None
               PROVE  FALSE
    OBVIOUS
  <2>1. dom[call[c].name].uuid \in VMs
    BY <1>1, StoreFacts DEF TypeInv
  <2>2. NameOf(dom[call[c].name].uuid) = call[c].name
    BY <1>1 DEF DomInv
  <2>3. dom[call[c].name].uuid = c
    BY <1>1, <1>6, <1>8, <2>1, <2>2 DEF NameOf, NameInv
  <2>4. call[c].pc = "done"
    BY <1>1, <2>3 DEF DomInv
  <2> QED BY <2>4
<1>11. call[c].name # OldName
  BY DEF NameInv
<1> QED BY <1>1, <1>3, <1>4, <1>5, <1>7, <1>8, <1>9, <1>10, <1>11

\* A step that changes neither rows nor domains, and leaves no place where they are about to.
LEMMA QuietMove ==
  ASSUME TypeInv, RowsInv, NEW c \in Calls, NEW p \in Pcs, Goto(c, p),
         row' = row, dom' = dom, mix' = mix, failures' = 0 => failures = 0,
         call[c].pc \notin {"idle", "done", "newdef", "clonerow", "imgrow", "finrow", "restored"},
         p \notin {"idle", "newdef", "clonerow", "imgrow", "finrow", "restored", "undefine",
                   "erasing"},
         p \in {"guard", "delvols", "delrow"} <=> call[c].pc \in {"guard", "delvols", "delrow"},
         p \in {"sysprep", "finundef"} =>
           \/ call[c].pc = "sysprep"
           \/ row[call[c].vm].life \in {"live", "gone"},
         p \in HandlerPcs => call[c].pc \in HandlerPcs
  PROVE  RowsInv'
<1>1. \A d \in Calls : /\ call'[d].kind = call[d].kind /\ call'[d].vm = call[d].vm
                       /\ call'[d].name = call[d].name
                       /\ d # c => call'[d].pc = call[d].pc
                       /\ call'[c].pc = p
  BY GotoFacts DEF TypeInv
<1>2. NameInv'
  BY <1>1 DEF RowsInv, NameInv
<1>3. \A n \in Names : dom[n].uuid # None => /\ dom[n].uuid = Old \/ dom[n].uuid \in Calls
                                            /\ dom[n].uuid # c
  BY StoreFacts DEF RowsInv, DomInv, TypeInv, VMs
<1>4. DomInv'
  BY <1>1, <1>3 DEF RowsInv, DomInv, NameOf
<1>5. LifeInv'
  <2>1. \A d \in Calls : (Handling(d))' => Handling(d)
    BY <1>1 DEF Handling
  <2> QED BY <1>1, <2>1 DEF RowsInv, LifeInv
<1>6. \A v \in VMs : Limbo(v) => Limbo(v)'
  BY <1>1 DEF Limbo
<1>7. MatchInv'
  BY <1>1, <1>6 DEF RowsInv, MatchInv
<1>8. ArchiveInv'
  BY <1>1 DEF RowsInv, ArchiveInv
<1> QED BY <1>2, <1>4, <1>5, <1>7, <1>8 DEF RowsInv

\* A step that none of this is about.
LEMMA SameRows ==
  ASSUME RowsInv, row' = row, dom' = dom, mix' = mix, call' = call, failures' = 0 => failures = 0
  PROVE  RowsInv'
<1>1. NameInv' /\ DomInv'
  BY DEF RowsInv, NameInv, DomInv, NameOf
<1>2. LifeInv'
  BY DEF RowsInv, LifeInv, Handling
<1>3. MatchInv' /\ ArchiveInv'
  BY DEF RowsInv, MatchInv, ArchiveInv, Limbo
<1> QED BY <1>1, <1>2, <1>3 DEF RowsInv

\* The name of a machine that a request is for has that machine's domain or none.
LEMMA OwnerDom ==
  ASSUME SerialMixes, TypeInv, SerialInv, NameInv, DomInv, NEW c \in Calls, NEW v \in VMs,
         call[c].vm = v
  PROVE  /\ dom[row[v].name].uuid \in {None, v}
         /\ \A n \in Names : dom[n].uuid = v => n = row[v].name
<1>1. /\ v \in Calls => call[v].pc = "done"
      /\ row[v].name \in Names /\ NameOf(v) = row[v].name
      /\ \A u \in VMs : row[u].life # "none" /\ row[u].name = row[v].name => u = v
      /\ \A d \in Calls : call[d].name = row[v].name => d = v
  BY OwnerFacts
<1>2. \A n \in Names : dom[n].uuid = v => n = row[v].name
  BY <1>1, NoneAssumption DEF DomInv
<1>3. dom[row[v].name].uuid # None => dom[row[v].name].uuid = v
  <2> DEFINE u == dom[row[v].name].uuid
  <2> SUFFICES ASSUME u # None PROVE u = v
    OBVIOUS
  <2>1. u \in VMs /\ (u = Old \/ u \in Calls)
    BY <1>1, StoreFacts DEF TypeInv, VMs
  <2>2. /\ NameOf(u) = row[v].name
        /\ row[u].life = "live" \/ (u \in Calls /\ call[u].pc \in {"clonerow", "imgrow"})
    BY <1>1 DEF DomInv
  <2>3. CASE u \in Calls /\ u # Old
    BY <1>1, <2>2, <2>3 DEF NameOf
  <2>4. CASE u = Old
    BY <1>1, <2>1, <2>2, <2>4 DEF NameOf, NameInv
  <2> QED BY <2>1, <2>3, <2>4
<1> QED BY <1>2, <1>3

\* Where machines are restored, no two of a deletion, a template and a handler past the guard
\* work on one machine.
LEMMA Apart ==
  ASSUME SerialMixes, TypeInv, SerialInv, NEW c \in Calls, NEW d \in Calls, c # d,
         call[c].vm = call[d].vm, call[c].vm # None, "restore" \in mix.kinds
  PROVE  /\ Handling(c) => ~Handling(d)
         /\ Handling(c) /\ call[c].pc # "found" => ~Tasked(d)
         /\ call[c].pc \in {"undefine", "guard", "delvols", "delrow"} =>
              /\ call[d].pc \notin {"undefine", "guard", "delvols", "delrow", "sysprep",
                                    "finundef", "finrow"}
              /\ Handling(d) => call[d].pc = "found"
         /\ call[c].pc \in {"sysprep", "finundef", "finrow"} =>
              /\ call[d].pc \notin {"undefine", "guard", "delvols", "delrow"}
              /\ Handling(d) => call[d].pc = "found"
<1>1. ~mix.overlap /\ ~({"delete", "finalize"} \subseteq mix.kinds)
  BY MixFacts DEF TypeInv
<1>2. /\ Handling(c) => ~Handling(d)
      /\ Handling(c) /\ call[c].pc # "found" => ~Tasked(d)
      /\ Handling(d) /\ call[d].pc # "found" => ~Tasked(c)
      /\ Tasked(c) /\ Tasked(d) => "finalize" \in {call[c].kind, call[d].kind}
  BY <1>1 DEF SerialInv
<1>3. \A e \in Calls :
        /\ call[e].pc \in {"undefine", "guard", "delvols", "delrow"} =>
             Tasked(e) /\ call[e].kind = "delete" /\ "delete" \in mix.kinds
        /\ call[e].pc \in {"sysprep", "finundef", "finrow"} =>
             Tasked(e) /\ call[e].kind = "finalize" /\ "finalize" \in mix.kinds
  BY DEF TypeInv, KindInv, Fits, Tasked, TaskPcs
<1> QED BY <1>1, <1>2, <1>3

\* A step that creates no row keeps the names.
LEMMA NameKept ==
  ASSUME NameInv, NEW c \in Calls,
         \A d \in Calls : /\ call'[d].kind = call[d].kind /\ call'[d].vm = call[d].vm
                          /\ call'[d].name = call[d].name
                          /\ d # c => call'[d].pc = call[d].pc,
         call[c].pc \notin {"newdef", "done"}, call'[c].pc # "newdef",
         \A u \in VMs : /\ row'[u].name = row[u].name
                        /\ row'[u].life = "none" <=> row[u].life = "none",
         \A d \in Calls : /\ call[d].pc = "newdef" => row'[d].life = row[d].life
                          /\ call[d].vm \in VMs \cup {None}
  PROVE  NameInv'
<1>1. \A u \in Calls : u \in VMs
  BY DEF VMs
<1>2. row'[Old].name = OldName /\ row'[Old].life # "none"
  BY DEF NameInv, VMs
<1>3. \A d \in Calls : row'[d].life # "none" =>
        /\ row'[d].name = call'[d].name /\ call'[d].kind \in Makes
        /\ call'[d].pc \in {"newdef", "done"}
  BY <1>1 DEF NameInv
<1>4. \A d \in Calls : call'[d].pc = "newdef" => row'[d].life = "live"
  BY <1>1 DEF NameInv
<1>5. \A d \in Calls : call'[d].vm # None => row'[call'[d].vm].life # "none"
  BY DEF NameInv
<1> QED BY <1>2, <1>3, <1>4, <1>5 DEF NameInv

\* A step that leaves the domains alone, and the rows of the machines that have one.
LEMMA DomKept ==
  ASSUME TypeInv, DomInv, NEW c \in Calls, dom' = dom,
         \A d \in Calls : /\ call'[d].vm = call[d].vm /\ call'[d].name = call[d].name
                          /\ d # c => call'[d].pc = call[d].pc,
         call[c].pc \notin {"clonerow", "imgrow", "done"},
         call'[c].pc \notin {"clonerow", "imgrow"},
         call'[c].pc \in {"guard", "delvols", "delrow", "finrow", "restored", "erasing"} =>
           call[c].vm # None /\ dom[row[call[c].vm].name].uuid = None,
         \A d \in Calls : call[d].vm # None => row'[call[d].vm].name = row[call[d].vm].name,
         \A n \in Names : dom[n].uuid # None => row'[dom[n].uuid].life = row[dom[n].uuid].life
  PROVE  DomInv'
<1>1. \A n \in Names : dom[n].uuid # None => /\ dom[n].uuid = Old \/ dom[n].uuid \in Calls
                                            /\ dom[n].uuid # c
  BY StoreFacts DEF DomInv, TypeInv, VMs
<1>2. \A n \in Names : dom[n].uuid # None => NameOf(dom[n].uuid)' = n
  BY <1>1 DEF DomInv, NameOf
<1>3. \A d \in Calls : call'[d].pc \in {"clonerow", "imgrow"} => dom[call'[d].name].uuid = d
  BY DEF DomInv
<1>4. \A d \in Calls :
        call'[d].pc \in {"guard", "delvols", "delrow", "finrow", "restored", "erasing"} =>
          dom[row'[call'[d].vm].name].uuid = None
  <2> SUFFICES ASSUME NEW d \in Calls,
                      call'[d].pc \in {"guard", "delvols", "delrow", "finrow", "restored", "erasing"}
               PROVE  dom[row'[call'[d].vm].name].uuid = None
    OBVIOUS
  <2>1. CASE d = c
    BY <2>1
  <2>2. CASE d # c
    <3>1. call[d].vm # None
      BY <2>2, ArgFacts, NoneAssumption DEF TypeInv
    <3> QED BY <2>2, <3>1 DEF DomInv
  <2> QED BY <2>1, <2>2
<1> QED BY <1>1, <1>2, <1>3, <1>4 DEF DomInv

\* A step that changes the life of one row at most keeps LifeInv if it does for that row.
LEMMA LifeKept ==
  ASSUME LifeInv, NEW c \in Calls, NEW v, call[c].vm = v, mix' = mix,
         \A d \in Calls : /\ call'[d].kind = call[d].kind /\ call'[d].vm = call[d].vm
                          /\ d # c => call'[d].pc = call[d].pc
                          /\ call[d].vm # v /\ call[d].vm # None =>
                               row'[call[d].vm].life = row[call[d].vm].life,
         \A d \in Calls : call[d].vm # None \/ call[d].pc \notin
           {"found", "free", "held", "unlisted", "restored", "purging", "purgeable",
            "undefining", "erasing", "undefine", "guard", "delvols", "delrow", "sysprep",
            "finundef", "finrow"},
         \A d \in Calls : call[d].vm = v =>
           /\ call'[d].pc \in HandlerPcs /\ call[d].kind = "purge" =>
                row'[v].life \in {"bin", "gone"}
           /\ call'[d].pc \in HandlerPcs /\ call[d].kind = "restore" =>
                row'[v].life = IF call'[d].pc = "restored" THEN "live" ELSE "bin"
           /\ "restore" \in mix.kinds =>
                /\ call'[d].pc \in {"undefine", "guard", "delvols", "delrow"} =>
                     row'[v].life = "live"
                /\ call'[d].pc \in {"sysprep", "finundef", "finrow"} =>
                     row'[v].life \in {"live", "gone"}
  PROVE  LifeInv'
<1>1. HandlerPcs = {"found", "free", "held", "unlisted", "restored", "purging", "purgeable",
                    "undefining", "erasing"}
  BY DEF HandlerPcs
<1>2. ASSUME NEW d \in Calls
      PROVE  /\ call'[d].pc \in HandlerPcs /\ call[d].kind = "purge" =>
                  row'[call[d].vm].life \in {"bin", "gone"}
             /\ call'[d].pc \in HandlerPcs /\ call[d].kind = "restore" =>
                  row'[call[d].vm].life = IF call'[d].pc = "restored" THEN "live" ELSE "bin"
             /\ "restore" \in mix.kinds =>
                  /\ call'[d].pc \in {"undefine", "guard", "delvols", "delrow"} =>
                       row'[call[d].vm].life = "live"
                  /\ call'[d].pc \in {"sysprep", "finundef", "finrow"} =>
                       row'[call[d].vm].life \in {"live", "gone"}
  <2>1. CASE call[d].vm = v
    BY <2>1
  <2>2. CASE call[d].vm # v
    BY <1>1, <2>2 DEF LifeInv, Handling
  <2> QED BY <2>1, <2>2
<1> QED BY <1>2 DEF LifeInv, Handling

\* A step that leaves the rows alone and makes no domain anew keeps DomInv.
LEMMA DomLess ==
  ASSUME TypeInv, DomInv, NEW c \in Calls, row' = row,
         \A d \in Calls : /\ call'[d].vm = call[d].vm /\ call'[d].name = call[d].name
                          /\ d # c => call'[d].pc = call[d].pc,
         call[c].pc \notin {"clonerow", "imgrow", "done"},
         call'[c].pc \notin {"clonerow", "imgrow"},
         \A n \in Names : dom'[n] = dom[n] \/ dom'[n].uuid = None,
         \A d \in Calls : call[d].pc \in {"clonerow", "imgrow"} =>
           dom'[call[d].name] = dom[call[d].name],
         call'[c].pc \in {"guard", "delvols", "delrow", "finrow", "restored", "erasing"} =>
           call[c].vm # None /\ dom'[row[call[c].vm].name].uuid = None
  PROVE  DomInv'
<1>1. \A n \in Names : dom'[n].uuid # None =>
        /\ dom'[n] = dom[n]
        /\ dom[n].uuid = Old \/ dom[n].uuid \in Calls
        /\ dom[n].uuid # c
  BY StoreFacts DEF DomInv, TypeInv, VMs
<1>2. \A n \in Names : dom'[n].uuid # None => NameOf(dom[n].uuid)' = n
  BY <1>1 DEF DomInv, NameOf
<1>3. \A n \in Names : dom'[n].uuid # None =>
        /\ NameOf(dom[n].uuid)' = n /\ dom'[n].disks # {}
        /\ \/ row'[dom'[n].uuid].life = "live"
           \/ dom'[n].uuid \in Calls /\ call'[dom'[n].uuid].pc \in {"clonerow", "imgrow"}
        /\ dom'[n].uuid \in Calls => call'[dom'[n].uuid].pc \in {"clonerow", "imgrow", "done"}
  <2> SUFFICES ASSUME NEW n \in Names, dom'[n].uuid # None
               PROVE  /\ NameOf(dom[n].uuid)' = n /\ dom'[n].disks # {}
                      /\ \/ row'[dom'[n].uuid].life = "live"
                         \/ /\ dom'[n].uuid \in Calls
                            /\ call'[dom'[n].uuid].pc \in {"clonerow", "imgrow"}
                      /\ dom'[n].uuid \in Calls =>
                           call'[dom'[n].uuid].pc \in {"clonerow", "imgrow", "done"}
    OBVIOUS
  <2> QED BY <1>1, <1>2 DEF DomInv
<1>4. \A d \in Calls : call'[d].pc \in {"clonerow", "imgrow"} => dom'[call'[d].name].uuid = d
  BY DEF DomInv
<1>5. \A d \in Calls :
        call'[d].pc \in {"guard", "delvols", "delrow", "finrow", "restored", "erasing"} =>
          dom'[row'[call'[d].vm].name].uuid = None
  <2> SUFFICES ASSUME NEW d \in Calls,
                      call'[d].pc \in {"guard", "delvols", "delrow", "finrow", "restored", "erasing"}
               PROVE  dom'[row'[call'[d].vm].name].uuid = None
    OBVIOUS
  <2>1. CASE d = c
    BY <2>1
  <2>2. CASE d # c
    <3>1. call[d].vm \in VMs /\ row[call[d].vm].name \in Names
      BY <2>2, ArgFacts DEF TypeInv
    <3>2. dom[row[call[d].vm].name].uuid = None
      BY <2>2 DEF DomInv
    <3> QED BY <3>1, <3>2
  <2> QED BY <2>1, <2>2
<1> QED BY <1>3, <1>4, <1>5 DEF DomInv

\* A step that changes no row keeps LifeInv unless it enters where LifeInv speaks.
LEMMA LifeQuiet ==
  ASSUME LifeInv, NEW c \in Calls, row' = row, mix' = mix,
         \A d \in Calls : /\ call'[d].kind = call[d].kind /\ call'[d].vm = call[d].vm
                          /\ d # c => call'[d].pc = call[d].pc,
         call'[c].pc \in HandlerPcs => call[c].pc \in HandlerPcs /\ call'[c].pc # "restored"
                                       /\ call[c].pc # "restored",
         call'[c].pc \in {"undefine", "guard", "delvols", "delrow"} =>
           \/ call[c].pc \in {"undefine", "guard", "delvols", "delrow"}
           \/ row[call[c].vm].life = "live",
         call'[c].pc \in {"sysprep", "finundef", "finrow"} =>
           call[c].pc \in {"sysprep", "finundef", "finrow"}
  PROVE  LifeInv'
BY DEF LifeInv, Handling

\* What a step of a call that makes a machine changes, whatever it changes: the row and the
\* domain of that call's name.
LEMMA MakerKept ==
  ASSUME SerialMixes, TypeInv, SerialInv, RowsInv, NEW c \in Calls, NEW p \in Pcs, Goto(c, p),
         mix' = mix, failures' = 0 => failures = 0,
         call[c].pc \in {"newrow", "newdef", "clonedef", "clonerow", "imgdef", "imgrow"},
         p \in {"newdef", "clonerow", "imgrow", "done"},
         \A u \in VMs : u # c => row'[u] = row[u],
         \A m \in Names : m # call[c].name => dom'[m] = dom[m],
         row'[c].life # "none" => row'[c].name = call[c].name /\ p \in {"newdef", "done"},
         p = "newdef" => row'[c].life = "live",
         row'[c].life = "bin" => failures' # 0,
         dom'[call[c].name].uuid # None =>
           /\ dom'[call[c].name].uuid = c /\ dom'[call[c].name].disks # {}
           /\ p # "newdef" /\ (row'[c].life = "live" \/ p # "done"),
         p \in {"clonerow", "imgrow"} => dom'[call[c].name].uuid = c,
         failures' = 0 /\ row'[c].life = "live" => dom'[call[c].name].uuid = c \/ p = "newdef"
  PROVE  RowsInv'
<1> DEFINE n == call[c].name
<1>1. /\ n \in Names /\ n # None /\ c \in VMs /\ ~mix.overlap /\ call[c].kind \in Makes
      /\ \A v \in VMs : row[v].life # "none" /\ row[v].name = n => v = c
      /\ \A d \in Calls : call[d].vm # c
      /\ \A d \in Calls : d # c => call[d].name # n
      /\ n # OldName
  BY MakerFacts DEF RowsInv
<1>2. \A d \in Calls : /\ call'[d].kind = call[d].kind /\ call'[d].vm = call[d].vm
                       /\ call'[d].name = call[d].name
                       /\ d # c => call'[d].pc = call[d].pc
                       /\ call'[c].pc = p
  BY GotoFacts DEF TypeInv
<1>3. /\ \A d \in Calls : call[d].vm \in VMs \cup {None} /\ d \in VMs
      /\ \A m \in Names : dom[m].uuid # None => dom[m].uuid \in VMs
      /\ \A u \in VMs : u = Old \/ u \in Calls
      /\ None \notin VMs /\ Old \notin Calls /\ Old \in VMs
  BY StoreFacts, NoneAssumption, OldAssumption DEF TypeInv, VType, CallType, VMs
<1>4. \A d \in Calls : call[d].vm # None => row'[call[d].vm] = row[call[d].vm]
  BY <1>1, <1>3
<1>5. NameInv'
  <2>1. row'[Old] = row[Old]
    BY <1>3
  <2>2. \A d \in Calls : d # c => row'[d] = row[d]
    BY <1>3
  <2> QED BY <1>1, <1>2, <1>4, <2>1, <2>2 DEF RowsInv, NameInv
<1>6. \A d \in Calls : call[d].vm # None => /\ row[call[d].vm].name # n
                                           /\ row[call[d].vm].life # "none"
  BY <1>1, <1>3 DEF RowsInv, NameInv
<1>7. \A m \in Names : dom'[m].uuid # None =>
        /\ IF dom'[m].uuid = Old THEN m = OldName ELSE call[dom'[m].uuid].name = m
        /\ dom'[m].disks # {}
        /\ \/ row'[dom'[m].uuid].life = "live"
           \/ dom'[m].uuid \in Calls /\ call'[dom'[m].uuid].pc \in {"clonerow", "imgrow"}
        /\ dom'[m].uuid \in Calls => call'[dom'[m].uuid].pc \in {"clonerow", "imgrow", "done"}
  <2> SUFFICES ASSUME NEW m \in Names, dom'[m].uuid # None
               PROVE  /\ IF dom'[m].uuid = Old THEN m = OldName ELSE call[dom'[m].uuid].name = m
                      /\ dom'[m].disks # {}
                      /\ \/ row'[dom'[m].uuid].life = "live"
                         \/ /\ dom'[m].uuid \in Calls
                            /\ call'[dom'[m].uuid].pc \in {"clonerow", "imgrow"}
                      /\ dom'[m].uuid \in Calls =>
                           call'[dom'[m].uuid].pc \in {"clonerow", "imgrow", "done"}
    OBVIOUS
  <2>1. CASE m = n
    BY <1>2, <1>3, <2>1
  <2>2. CASE m # n
    <3>1. dom'[m] = dom[m] /\ dom[m].uuid \in VMs
      BY <1>3, <2>2
    <3>2. IF dom[m].uuid = Old THEN m = OldName ELSE call[dom[m].uuid].name = m
      BY <3>1 DEF RowsInv, DomInv, NameOf
    <3>3. dom[m].uuid # c
      BY <1>3, <2>2, <3>2
    <3> QED BY <1>2, <1>3, <3>1, <3>2, <3>3 DEF RowsInv, DomInv
  <2> QED BY <2>1, <2>2
<1>8. \A d \in Calls : call'[d].pc \in {"clonerow", "imgrow"} => dom'[call'[d].name].uuid = d
  <2> SUFFICES ASSUME NEW d \in Calls, call'[d].pc \in {"clonerow", "imgrow"}
               PROVE  dom'[call'[d].name].uuid = d
    OBVIOUS
  <2>1. CASE d = c
    BY <1>2, <2>1
  <2>2. CASE d # c
    <3>1. call[d].name \in Names /\ call[d].name # n /\ dom[call[d].name].uuid = d
      BY <1>1, <1>2, <2>2, ArgFacts DEF TypeInv, RowsInv, DomInv
    <3> QED BY <1>2, <3>1
  <2> QED BY <2>1, <2>2
<1>9. \A d \in Calls :
        call'[d].pc \in {"guard", "delvols", "delrow", "finrow", "restored", "erasing"} =>
          dom'[row'[call'[d].vm].name].uuid = None
  <2> SUFFICES ASSUME NEW d \in Calls,
                      call'[d].pc \in {"guard", "delvols", "delrow", "finrow", "restored",
                                       "erasing"}
               PROVE  dom'[row'[call'[d].vm].name].uuid = None
    OBVIOUS
  <2>1. d # c /\ call[d].pc = call'[d].pc
    BY <1>2
  <2>2. call[d].vm \in VMs /\ row[call[d].vm].name \in Names
    BY <2>1, ArgFacts DEF TypeInv
  <2>3. dom[row[call[d].vm].name].uuid = None
    BY <2>1 DEF RowsInv, DomInv
  <2> QED BY <1>2, <1>3, <1>4, <1>6, <2>2, <2>3
<1>10. DomInv'
  BY <1>2, <1>3, <1>7, <1>8, <1>9 DEF DomInv, NameOf
<1>11. LifeInv'
  <2>1. \A d \in Calls : call'[d].pc \in HandlerPcs \cup
           {"undefine", "guard", "delvols", "delrow", "sysprep", "finundef", "finrow"}
           => d # c /\ call[d].vm # None
    <3> SUFFICES ASSUME NEW d \in Calls, call'[d].pc \in HandlerPcs \cup
                          {"undefine", "guard", "delvols", "delrow", "sysprep", "finundef", "finrow"}
                 PROVE  d # c /\ call[d].vm # None
      OBVIOUS
    <3>1. d # c /\ call'[d].pc = call[d].pc
      BY <1>2 DEF HandlerPcs
    <3> QED BY <1>3, <3>1, ArgFacts DEF TypeInv, HandlerPcs
  <2> QED BY <1>2, <1>4, <2>1 DEF RowsInv, LifeInv, Handling
<1>12. MatchInv'
  <2> SUFFICES ASSUME failures' = 0, NEW u \in VMs, row'[u].life = "live"
               PROVE  dom'[row'[u].name].uuid = u \/ (u \in Calls /\ call'[u].pc = "newdef")
                        \/ Limbo(u)'
    BY DEF MatchInv
  <2>1. CASE u = c
    BY <1>2, <2>1
  <2>2. CASE u # c
    <3>1. row'[u] = row[u] /\ row[u].name # n /\ row[u].name \in Names
      BY <1>1, <2>2, StoreFacts, NoneAssumption DEF TypeInv, RowInv
    <3>2. Limbo(u) => Limbo(u)'
      BY <1>2 DEF Limbo
    <3>3. u \in Calls /\ call[u].pc = "newdef" => call'[u].pc = "newdef"
      BY <1>2, <2>2
    <3> QED BY <3>1, <3>2, <3>3 DEF RowsInv, MatchInv
  <2> QED BY <2>1, <2>2
<1>13. ArchiveInv'
  <2> SUFFICES ASSUME failures' = 0, "restore" \in mix.kinds
               PROVE  /\ \A v \in VMs : row'[v].life = "bin" => row'[v].archive # {}
                      /\ \A d \in Calls :
                           call'[d].pc \in {"undefine", "guard", "delvols", "delrow", "restored"}
                             => row'[call'[d].vm].archive # {}
    BY DEF ArchiveInv
  <2>1. \A v \in VMs : row'[v].life = "bin" => v # c /\ row'[v] = row[v]
    OBVIOUS
  <2>2. \A d \in Calls :
          call'[d].pc \in {"undefine", "guard", "delvols", "delrow", "restored"}
            => d # c /\ call[d].pc = call'[d].pc /\ call[d].vm \in VMs
    <3> SUFFICES ASSUME NEW d \in Calls,
                        call'[d].pc \in {"undefine", "guard", "delvols", "delrow", "restored"}
                 PROVE  d # c /\ call[d].pc = call'[d].pc /\ call[d].vm \in VMs
      OBVIOUS
    <3>1. d # c /\ call'[d].pc = call[d].pc
      BY <1>2
    <3> QED BY <3>1, ArgFacts DEF TypeInv
  <2> QED BY <1>2, <1>3, <1>4, <2>1, <2>2 DEF RowsInv, ArchiveInv
<1> QED BY <1>5, <1>10, <1>11, <1>12, <1>13 DEF RowsInv

\* Define changes one domain only.
LEMMA DefineAt ==
  ASSUME VType, NEW n \in Names, NEW d, Define(n, d)
  PROVE  dom'[n] = d /\ \A m \in Names : m # n => dom'[m] = dom[m]
BY DEF VType, Define

\* The row of a deleted machine goes to the recycle bin, unless it is gone.
LEMMA DeleteRowKeeps ==
  ASSUME SerialMixes, TypeInv, SerialInv, RowsInv, NEW c \in Calls, DeleteRow(c)
  PROVE  RowsInv'
<1> DEFINE v == call[c].vm
<1>1. call[c].pc = "delrow" /\ mix' = mix /\ v \in VMs /\ row[v].name \in Names
  BY ArgFacts DEF DeleteRow, TypeInv
<1>2. PICK p \in {"done"} : Goto(c, p)
  BY DEF DeleteRow
<1>3. \A d \in Calls : /\ call'[d].kind = call[d].kind /\ call'[d].vm = call[d].vm
                       /\ call'[d].name = call[d].name
                       /\ d # c => call'[d].pc = call[d].pc
                       /\ call'[c].pc = p
  BY <1>2, GotoFacts, PcFacts DEF TypeInv
<1>4. /\ v \in Calls => call[v].pc = "done"
      /\ row[v].life # "none" /\ NameOf(v) = row[v].name
      /\ \A u \in VMs : row[u].life # "none" /\ row[u].name = row[v].name => u = v
      /\ \A d \in Calls : call[d].name = row[v].name => d = v
  BY <1>1, OwnerFacts DEF RowsInv
<1>5. /\ \A d \in Calls : call[d].vm \in VMs \cup {None} /\ d \in VMs
      /\ \A n \in Names : dom[n].uuid # None => dom[n].uuid \in VMs
      /\ \A u \in VMs : u = Old \/ u \in Calls
      /\ None \notin VMs /\ Old \notin Calls
  BY StoreFacts, NoneAssumption, OldAssumption DEF TypeInv, VType, CallType, VMs
<1>6. dom' = dom
  BY DEF DeleteRow
<1>7. \/ row' = row /\ failures' # 0 /\ p = "done"
      \/ row' = [row EXCEPT ![v].life = (IF row[v].life = "gone" THEN "gone" ELSE "bin")] /\ failures' = failures /\ p = "done"
  BY <1>1, <1>2, <1>3, FaultFacts DEF DeleteRow, TypeInv, VType, CallType, Goto
<1>8. /\ \A u \in VMs : /\ row'[u].name = row[u].name /\ row'[u].archive = row[u].archive
                        /\ u # v => row'[u].life = row[u].life
      /\ \/ row'[v].life = row[v].life /\ failures' # 0 /\ p = "done"
         \/ row'[v].life = (IF row[v].life = "gone" THEN "gone" ELSE "bin") /\ failures' = failures /\ p = "done"
  BY <1>1, <1>7, LifeFacts DEF TypeInv
<1>9. /\ dom[row[v].name].uuid = None
      /\ \A n \in Names : dom[n].uuid # v
  BY <1>1, <1>5, OwnerDom DEF RowsInv, DomInv
<1>10. NameInv'
  BY <1>1, <1>3, <1>4, <1>5, <1>8, NameKept DEF RowsInv
<1>11. DomInv'
  <2>1. /\ \A d \in Calls : call[d].vm # None => row'[call[d].vm].name = row[call[d].vm].name
        /\ \A n \in Names : dom[n].uuid # None =>
             row'[dom[n].uuid].life = row[dom[n].uuid].life
    BY <1>5, <1>8, <1>9
  <2>2. /\ call[c].pc \notin {"clonerow", "imgrow", "done"}
        /\ call'[c].pc \notin {"clonerow", "imgrow"}
    BY <1>1, <1>3
  <2>3. call[c].vm # None /\ dom[row[call[c].vm].name].uuid = None
    BY <1>1, <1>5, <1>9
  <2>4. TypeInv /\ DomInv /\ dom' = dom
    BY <1>6 DEF RowsInv
  <2> QED BY <1>3, <2>1, <2>2, <2>3, <2>4, DomKept
<1>12. \A d \in Calls : d # c /\ call[d].vm = v /\ "restore" \in mix.kinds =>
         /\ Handling(c) => ~Handling(d)
         /\ Handling(c) /\ call[c].pc # "found" => ~Tasked(d)
         /\ call[c].pc \in {"undefine", "guard", "delvols", "delrow"} =>
              /\ call[d].pc \notin {"undefine", "guard", "delvols", "delrow", "sysprep",
                                    "finundef", "finrow"}
              /\ Handling(d) => call[d].pc = "found"
         /\ call[c].pc \in {"sysprep", "finundef", "finrow"} =>
              /\ call[d].pc \notin {"undefine", "guard", "delvols", "delrow"}
              /\ Handling(d) => call[d].pc = "found"
  BY <1>1, <1>5, Apart
<1>13. \A d \in Calls : call[d].vm # None \/ call[d].pc \notin
           {"found", "free", "held", "unlisted", "restored", "purging", "purgeable",
            "undefining", "erasing", "undefine", "guard", "delvols", "delrow", "sysprep",
            "finundef", "finrow"}
  BY ArgFacts, <1>5 DEF TypeInv
<1>14. LifeInv'
  <2>1. \A d \in Calls : call[d].vm = v =>
           /\ call'[d].pc \in HandlerPcs /\ call[d].kind = "purge" =>
                row'[v].life \in {"bin", "gone"}
           /\ call'[d].pc \in HandlerPcs /\ call[d].kind = "restore" =>
                row'[v].life = IF call'[d].pc = "restored" THEN "live" ELSE "bin"
           /\ "restore" \in mix.kinds =>
                /\ call'[d].pc \in {"undefine", "guard", "delvols", "delrow"} =>
                     row'[v].life = "live"
                /\ call'[d].pc \in {"sysprep", "finundef", "finrow"} =>
                     row'[v].life \in {"live", "gone"}
    <3> SUFFICES ASSUME NEW d \in Calls, call[d].vm = v
                 PROVE  /\ call'[d].pc \in HandlerPcs /\ call[d].kind = "purge" =>
                             row'[v].life \in {"bin", "gone"}
                        /\ call'[d].pc \in HandlerPcs /\ call[d].kind = "restore" =>
                             row'[v].life = IF call'[d].pc = "restored" THEN "live" ELSE "bin"
                        /\ "restore" \in mix.kinds =>
                             /\ call'[d].pc \in {"undefine", "guard", "delvols", "delrow"} =>
                                  row'[v].life = "live"
                             /\ call'[d].pc \in {"sysprep", "finundef", "finrow"} =>
                                  row'[v].life \in {"live", "gone"}
      OBVIOUS
    <3>1. call[d].pc \in HandlerPcs /\ call[d].kind = "restore" => "restore" \in mix.kinds
      BY DEF TypeInv, KindInv, HandlerPcs
    <3>2. CASE d = c
      BY <1>1, <1>3, <1>8, <1>9, <3>1, <3>2 DEF RowsInv, LifeInv, HandlerPcs, Handling
    <3>3. CASE d # c
      BY <1>1, <1>3, <1>8, <1>9, <1>12, <3>1, <3>3 DEF RowsInv, LifeInv, Handling, Tasked, HandlerPcs, TaskPcs
    <3> QED BY <3>2, <3>3
  <2>2. \A d \in Calls : /\ call'[d].kind = call[d].kind /\ call'[d].vm = call[d].vm
                         /\ d # c => call'[d].pc = call[d].pc
                         /\ call[d].vm # v /\ call[d].vm # None =>
                              row'[call[d].vm].life = row[call[d].vm].life
    BY <1>3, <1>5, <1>8
  <2> QED BY <1>1, <1>13, <2>1, <2>2, LifeKept DEF RowsInv
<1>15. MatchInv'
  BY <1>1, <1>3, <1>4, <1>6, <1>8 DEF RowsInv, MatchInv, Limbo
<1>16. ArchiveInv'
  BY <1>1, <1>3, <1>5, <1>8, <1>9, <1>12, <1>13 DEF RowsInv, ArchiveInv
<1> QED BY <1>10, <1>11, <1>14, <1>15, <1>16 DEF RowsInv

\* The row of a machine that became a template goes.
LEMMA FinalizeRowKeeps ==
  ASSUME SerialMixes, TypeInv, SerialInv, RowsInv, NEW c \in Calls, FinalizeRow(c)
  PROVE  RowsInv'
<1> DEFINE v == call[c].vm
<1>1. call[c].pc = "finrow" /\ mix' = mix /\ v \in VMs /\ row[v].name \in Names
  BY ArgFacts DEF FinalizeRow, TypeInv
<1>2. PICK p \in {"register", "done"} : Goto(c, p)
  BY DEF FinalizeRow
<1>3. \A d \in Calls : /\ call'[d].kind = call[d].kind /\ call'[d].vm = call[d].vm
                       /\ call'[d].name = call[d].name
                       /\ d # c => call'[d].pc = call[d].pc
                       /\ call'[c].pc = p
  BY <1>2, GotoFacts, PcFacts DEF TypeInv
<1>4. /\ v \in Calls => call[v].pc = "done"
      /\ row[v].life # "none" /\ NameOf(v) = row[v].name
      /\ \A u \in VMs : row[u].life # "none" /\ row[u].name = row[v].name => u = v
      /\ \A d \in Calls : call[d].name = row[v].name => d = v
  BY <1>1, OwnerFacts DEF RowsInv
<1>5. /\ \A d \in Calls : call[d].vm \in VMs \cup {None} /\ d \in VMs
      /\ \A n \in Names : dom[n].uuid # None => dom[n].uuid \in VMs
      /\ \A u \in VMs : u = Old \/ u \in Calls
      /\ None \notin VMs /\ Old \notin Calls
  BY StoreFacts, NoneAssumption, OldAssumption DEF TypeInv, VType, CallType, VMs
<1>6. dom' = dom
  BY DEF FinalizeRow
<1>7. \/ row' = row /\ failures' # 0 /\ p = "done"
      \/ row' = [row EXCEPT ![v].life = "gone"] /\ failures' = failures /\ p = "register"
  BY <1>1, <1>2, <1>3, FaultFacts DEF FinalizeRow, TypeInv, VType, CallType, Goto
<1>8. /\ \A u \in VMs : /\ row'[u].name = row[u].name /\ row'[u].archive = row[u].archive
                        /\ u # v => row'[u].life = row[u].life
      /\ \/ row'[v].life = row[v].life /\ failures' # 0 /\ p = "done"
         \/ row'[v].life = "gone" /\ failures' = failures /\ p = "register"
  BY <1>1, <1>7, LifeFacts DEF TypeInv
<1>9. /\ dom[row[v].name].uuid = None
      /\ \A n \in Names : dom[n].uuid # v
  BY <1>1, <1>5, OwnerDom DEF RowsInv, DomInv
<1>10. NameInv'
  BY <1>1, <1>3, <1>4, <1>5, <1>8, NameKept DEF RowsInv
<1>11. DomInv'
  <2>1. /\ \A d \in Calls : call[d].vm # None => row'[call[d].vm].name = row[call[d].vm].name
        /\ \A n \in Names : dom[n].uuid # None =>
             row'[dom[n].uuid].life = row[dom[n].uuid].life
    BY <1>5, <1>8, <1>9
  <2>2. /\ call[c].pc \notin {"clonerow", "imgrow", "done"}
        /\ call'[c].pc \notin {"clonerow", "imgrow"}
    BY <1>1, <1>3
  <2>3. call[c].vm # None /\ dom[row[call[c].vm].name].uuid = None
    BY <1>1, <1>5, <1>9
  <2>4. TypeInv /\ DomInv /\ dom' = dom
    BY <1>6 DEF RowsInv
  <2> QED BY <1>3, <2>1, <2>2, <2>3, <2>4, DomKept
<1>12. \A d \in Calls : d # c /\ call[d].vm = v /\ "restore" \in mix.kinds =>
         /\ Handling(c) => ~Handling(d)
         /\ Handling(c) /\ call[c].pc # "found" => ~Tasked(d)
         /\ call[c].pc \in {"undefine", "guard", "delvols", "delrow"} =>
              /\ call[d].pc \notin {"undefine", "guard", "delvols", "delrow", "sysprep",
                                    "finundef", "finrow"}
              /\ Handling(d) => call[d].pc = "found"
         /\ call[c].pc \in {"sysprep", "finundef", "finrow"} =>
              /\ call[d].pc \notin {"undefine", "guard", "delvols", "delrow"}
              /\ Handling(d) => call[d].pc = "found"
  BY <1>1, <1>5, Apart
<1>13. \A d \in Calls : call[d].vm # None \/ call[d].pc \notin
           {"found", "free", "held", "unlisted", "restored", "purging", "purgeable",
            "undefining", "erasing", "undefine", "guard", "delvols", "delrow", "sysprep",
            "finundef", "finrow"}
  BY ArgFacts, <1>5 DEF TypeInv
<1>14. LifeInv'
  <2>1. \A d \in Calls : call[d].vm = v =>
           /\ call'[d].pc \in HandlerPcs /\ call[d].kind = "purge" =>
                row'[v].life \in {"bin", "gone"}
           /\ call'[d].pc \in HandlerPcs /\ call[d].kind = "restore" =>
                row'[v].life = IF call'[d].pc = "restored" THEN "live" ELSE "bin"
           /\ "restore" \in mix.kinds =>
                /\ call'[d].pc \in {"undefine", "guard", "delvols", "delrow"} =>
                     row'[v].life = "live"
                /\ call'[d].pc \in {"sysprep", "finundef", "finrow"} =>
                     row'[v].life \in {"live", "gone"}
    <3> SUFFICES ASSUME NEW d \in Calls, call[d].vm = v
                 PROVE  /\ call'[d].pc \in HandlerPcs /\ call[d].kind = "purge" =>
                             row'[v].life \in {"bin", "gone"}
                        /\ call'[d].pc \in HandlerPcs /\ call[d].kind = "restore" =>
                             row'[v].life = IF call'[d].pc = "restored" THEN "live" ELSE "bin"
                        /\ "restore" \in mix.kinds =>
                             /\ call'[d].pc \in {"undefine", "guard", "delvols", "delrow"} =>
                                  row'[v].life = "live"
                             /\ call'[d].pc \in {"sysprep", "finundef", "finrow"} =>
                                  row'[v].life \in {"live", "gone"}
      OBVIOUS
    <3>1. call[d].pc \in HandlerPcs /\ call[d].kind = "restore" => "restore" \in mix.kinds
      BY DEF TypeInv, KindInv, HandlerPcs
    <3>2. CASE d = c
      BY <1>1, <1>3, <1>8, <1>9, <3>1, <3>2 DEF RowsInv, LifeInv, HandlerPcs, Handling
    <3>3. CASE d # c
      BY <1>1, <1>3, <1>8, <1>9, <1>12, <3>1, <3>3 DEF RowsInv, LifeInv, Handling, Tasked, HandlerPcs, TaskPcs
    <3> QED BY <3>2, <3>3
  <2>2. \A d \in Calls : /\ call'[d].kind = call[d].kind /\ call'[d].vm = call[d].vm
                         /\ d # c => call'[d].pc = call[d].pc
                         /\ call[d].vm # v /\ call[d].vm # None =>
                              row'[call[d].vm].life = row[call[d].vm].life
    BY <1>3, <1>5, <1>8
  <2> QED BY <1>1, <1>13, <2>1, <2>2, LifeKept DEF RowsInv
<1>15. MatchInv'
  BY <1>1, <1>3, <1>4, <1>6, <1>8 DEF RowsInv, MatchInv, Limbo
<1>16. ArchiveInv'
  BY <1>1, <1>3, <1>5, <1>8, <1>9, <1>12, <1>13 DEF RowsInv, ArchiveInv
<1> QED BY <1>10, <1>11, <1>14, <1>15, <1>16 DEF RowsInv

\* The row of a purged machine goes.
LEMMA PurgeRowKeeps ==
  ASSUME SerialMixes, TypeInv, SerialInv, RowsInv, NEW c \in Calls, PurgeRow(c)
  PROVE  RowsInv'
<1> DEFINE v == call[c].vm
<1>1. call[c].pc = "erasing" /\ mix' = mix /\ v \in VMs /\ row[v].name \in Names
  BY ArgFacts DEF PurgeRow, TypeInv
<1>2. PICK p \in {"done"} : Goto(c, p)
  BY DEF PurgeRow
<1>3. \A d \in Calls : /\ call'[d].kind = call[d].kind /\ call'[d].vm = call[d].vm
                       /\ call'[d].name = call[d].name
                       /\ d # c => call'[d].pc = call[d].pc
                       /\ call'[c].pc = p
  BY <1>2, GotoFacts, PcFacts DEF TypeInv
<1>4. /\ v \in Calls => call[v].pc = "done"
      /\ row[v].life # "none" /\ NameOf(v) = row[v].name
      /\ \A u \in VMs : row[u].life # "none" /\ row[u].name = row[v].name => u = v
      /\ \A d \in Calls : call[d].name = row[v].name => d = v
  BY <1>1, OwnerFacts DEF RowsInv
<1>5. /\ \A d \in Calls : call[d].vm \in VMs \cup {None} /\ d \in VMs
      /\ \A n \in Names : dom[n].uuid # None => dom[n].uuid \in VMs
      /\ \A u \in VMs : u = Old \/ u \in Calls
      /\ None \notin VMs /\ Old \notin Calls
  BY StoreFacts, NoneAssumption, OldAssumption DEF TypeInv, VType, CallType, VMs
<1>6. dom' = dom
  BY DEF PurgeRow
<1>7. \/ row' = row /\ failures' # 0 /\ p = "done"
      \/ row' = [row EXCEPT ![v].life = "gone"] /\ failures' = failures /\ p = "done"
  BY <1>1, <1>2, <1>3, FaultFacts DEF PurgeRow, TypeInv, VType, CallType, Goto
<1>8. /\ \A u \in VMs : /\ row'[u].name = row[u].name /\ row'[u].archive = row[u].archive
                        /\ u # v => row'[u].life = row[u].life
      /\ \/ row'[v].life = row[v].life /\ failures' # 0 /\ p = "done"
         \/ row'[v].life = "gone" /\ failures' = failures /\ p = "done"
  BY <1>1, <1>7, LifeFacts DEF TypeInv
<1>9. /\ dom[row[v].name].uuid = None
      /\ \A n \in Names : dom[n].uuid # v
  BY <1>1, <1>5, OwnerDom DEF RowsInv, DomInv
<1>10. NameInv'
  BY <1>1, <1>3, <1>4, <1>5, <1>8, NameKept DEF RowsInv
<1>11. DomInv'
  <2>1. /\ \A d \in Calls : call[d].vm # None => row'[call[d].vm].name = row[call[d].vm].name
        /\ \A n \in Names : dom[n].uuid # None =>
             row'[dom[n].uuid].life = row[dom[n].uuid].life
    BY <1>5, <1>8, <1>9
  <2>2. /\ call[c].pc \notin {"clonerow", "imgrow", "done"}
        /\ call'[c].pc \notin {"clonerow", "imgrow"}
    BY <1>1, <1>3
  <2>3. call[c].vm # None /\ dom[row[call[c].vm].name].uuid = None
    BY <1>1, <1>5, <1>9
  <2>4. TypeInv /\ DomInv /\ dom' = dom
    BY <1>6 DEF RowsInv
  <2> QED BY <1>3, <2>1, <2>2, <2>3, <2>4, DomKept
<1>12. \A d \in Calls : d # c /\ call[d].vm = v /\ "restore" \in mix.kinds =>
         /\ Handling(c) => ~Handling(d)
         /\ Handling(c) /\ call[c].pc # "found" => ~Tasked(d)
         /\ call[c].pc \in {"undefine", "guard", "delvols", "delrow"} =>
              /\ call[d].pc \notin {"undefine", "guard", "delvols", "delrow", "sysprep",
                                    "finundef", "finrow"}
              /\ Handling(d) => call[d].pc = "found"
         /\ call[c].pc \in {"sysprep", "finundef", "finrow"} =>
              /\ call[d].pc \notin {"undefine", "guard", "delvols", "delrow"}
              /\ Handling(d) => call[d].pc = "found"
  BY <1>1, <1>5, Apart
<1>13. \A d \in Calls : call[d].vm # None \/ call[d].pc \notin
           {"found", "free", "held", "unlisted", "restored", "purging", "purgeable",
            "undefining", "erasing", "undefine", "guard", "delvols", "delrow", "sysprep",
            "finundef", "finrow"}
  BY ArgFacts, <1>5 DEF TypeInv
<1>14. LifeInv'
  <2>1. \A d \in Calls : call[d].vm = v =>
           /\ call'[d].pc \in HandlerPcs /\ call[d].kind = "purge" =>
                row'[v].life \in {"bin", "gone"}
           /\ call'[d].pc \in HandlerPcs /\ call[d].kind = "restore" =>
                row'[v].life = IF call'[d].pc = "restored" THEN "live" ELSE "bin"
           /\ "restore" \in mix.kinds =>
                /\ call'[d].pc \in {"undefine", "guard", "delvols", "delrow"} =>
                     row'[v].life = "live"
                /\ call'[d].pc \in {"sysprep", "finundef", "finrow"} =>
                     row'[v].life \in {"live", "gone"}
    <3> SUFFICES ASSUME NEW d \in Calls, call[d].vm = v
                 PROVE  /\ call'[d].pc \in HandlerPcs /\ call[d].kind = "purge" =>
                             row'[v].life \in {"bin", "gone"}
                        /\ call'[d].pc \in HandlerPcs /\ call[d].kind = "restore" =>
                             row'[v].life = IF call'[d].pc = "restored" THEN "live" ELSE "bin"
                        /\ "restore" \in mix.kinds =>
                             /\ call'[d].pc \in {"undefine", "guard", "delvols", "delrow"} =>
                                  row'[v].life = "live"
                             /\ call'[d].pc \in {"sysprep", "finundef", "finrow"} =>
                                  row'[v].life \in {"live", "gone"}
      OBVIOUS
    <3>1. call[d].pc \in HandlerPcs /\ call[d].kind = "restore" => "restore" \in mix.kinds
      BY DEF TypeInv, KindInv, HandlerPcs
    <3>2. CASE d = c
      BY <1>1, <1>3, <1>8, <1>9, <3>1, <3>2 DEF RowsInv, LifeInv, HandlerPcs, Handling
    <3>3. CASE d # c
      BY <1>1, <1>3, <1>8, <1>9, <1>12, <3>1, <3>3 DEF RowsInv, LifeInv, Handling, Tasked, HandlerPcs, TaskPcs
    <3> QED BY <3>2, <3>3
  <2>2. \A d \in Calls : /\ call'[d].kind = call[d].kind /\ call'[d].vm = call[d].vm
                         /\ d # c => call'[d].pc = call[d].pc
                         /\ call[d].vm # v /\ call[d].vm # None =>
                              row'[call[d].vm].life = row[call[d].vm].life
    BY <1>3, <1>5, <1>8
  <2> QED BY <1>1, <1>13, <2>1, <2>2, LifeKept DEF RowsInv
<1>15. MatchInv'
  BY <1>1, <1>3, <1>4, <1>6, <1>8 DEF RowsInv, MatchInv, Limbo
<1>16. ArchiveInv'
  BY <1>1, <1>3, <1>5, <1>8, <1>9, <1>12, <1>13 DEF RowsInv, ArchiveInv
<1> QED BY <1>10, <1>11, <1>14, <1>15, <1>16 DEF RowsInv

\* A restored row is live again, and in limbo until its domain is defined.
LEMMA RestoreRowKeeps ==
  ASSUME SerialMixes, TypeInv, SerialInv, RowsInv, NEW c \in Calls, RestoreRow(c)
  PROVE  RowsInv'
<1> DEFINE v == call[c].vm
<1>1. call[c].pc = "unlisted" /\ mix' = mix /\ v \in VMs /\ row[v].name \in Names
  BY ArgFacts DEF RestoreRow, TypeInv
<1>2. PICK p \in {"restored", "done"} : Goto(c, p)
  BY DEF RestoreRow
<1>3. \A d \in Calls : /\ call'[d].kind = call[d].kind /\ call'[d].vm = call[d].vm
                       /\ call'[d].name = call[d].name
                       /\ d # c => call'[d].pc = call[d].pc
                       /\ call'[c].pc = p
  BY <1>2, GotoFacts, PcFacts DEF TypeInv
<1>4. /\ v \in Calls => call[v].pc = "done"
      /\ row[v].life # "none" /\ NameOf(v) = row[v].name
      /\ \A u \in VMs : row[u].life # "none" /\ row[u].name = row[v].name => u = v
      /\ \A d \in Calls : call[d].name = row[v].name => d = v
  BY <1>1, OwnerFacts DEF RowsInv
<1>5. /\ \A d \in Calls : call[d].vm \in VMs \cup {None} /\ d \in VMs
      /\ \A n \in Names : dom[n].uuid # None => dom[n].uuid \in VMs
      /\ \A u \in VMs : u = Old \/ u \in Calls
      /\ None \notin VMs /\ Old \notin Calls
  BY StoreFacts, NoneAssumption, OldAssumption DEF TypeInv, VType, CallType, VMs
<1>6. dom' = dom
  BY DEF RestoreRow
<1>7. \/ row' = row /\ failures' # 0 /\ p = "done"
      \/ row' = [row EXCEPT ![v].life = (IF row[v].life = "gone" THEN "gone" ELSE "live")] /\ failures' = failures /\ p = "restored"
  BY <1>1, <1>2, <1>3, FaultFacts DEF RestoreRow, TypeInv, VType, CallType, Goto
<1>8. /\ \A u \in VMs : /\ row'[u].name = row[u].name /\ row'[u].archive = row[u].archive
                        /\ u # v => row'[u].life = row[u].life
      /\ \/ row'[v].life = row[v].life /\ failures' # 0 /\ p = "done"
         \/ row'[v].life = (IF row[v].life = "gone" THEN "gone" ELSE "live") /\ failures' = failures /\ p = "restored"
  BY <1>1, <1>7, LifeFacts DEF TypeInv
<1>9. /\ dom[row[v].name].uuid = None
      /\ \A n \in Names : dom[n].uuid # v
      /\ call[c].kind = "restore" /\ Handling(c) /\ row[v].life = "bin"
      /\ "restore" \in mix.kinds
  <2>1. call[c].kind = "restore" /\ Handling(c) /\ "restore" \in mix.kinds
    BY <1>1 DEF TypeInv, KindInv, Fits, Handling, HandlerPcs
  <2>2. row[v].life = "bin"
    BY <1>1, <2>1 DEF RowsInv, LifeInv
  <2> QED BY <1>1, <1>4, <1>5, <2>1, <2>2, OwnerDom DEF RowsInv, DomInv
<1>10. NameInv'
  BY <1>1, <1>3, <1>4, <1>5, <1>8, NameKept DEF RowsInv
<1>11. DomInv'
  <2>1. /\ \A d \in Calls : call[d].vm # None => row'[call[d].vm].name = row[call[d].vm].name
        /\ \A n \in Names : dom[n].uuid # None =>
             row'[dom[n].uuid].life = row[dom[n].uuid].life
    BY <1>5, <1>8, <1>9
  <2>2. /\ call[c].pc \notin {"clonerow", "imgrow", "done"}
        /\ call'[c].pc \notin {"clonerow", "imgrow"}
    BY <1>1, <1>3
  <2>3. call[c].vm # None /\ dom[row[call[c].vm].name].uuid = None
    BY <1>1, <1>5, <1>9
  <2>4. TypeInv /\ DomInv /\ dom' = dom
    BY <1>6 DEF RowsInv
  <2> QED BY <1>3, <2>1, <2>2, <2>3, <2>4, DomKept
<1>12. \A d \in Calls : d # c /\ call[d].vm = v /\ "restore" \in mix.kinds =>
         /\ Handling(c) => ~Handling(d)
         /\ Handling(c) /\ call[c].pc # "found" => ~Tasked(d)
         /\ call[c].pc \in {"undefine", "guard", "delvols", "delrow"} =>
              /\ call[d].pc \notin {"undefine", "guard", "delvols", "delrow", "sysprep",
                                    "finundef", "finrow"}
              /\ Handling(d) => call[d].pc = "found"
         /\ call[c].pc \in {"sysprep", "finundef", "finrow"} =>
              /\ call[d].pc \notin {"undefine", "guard", "delvols", "delrow"}
              /\ Handling(d) => call[d].pc = "found"
  BY <1>1, <1>5, Apart
<1>13. \A d \in Calls : call[d].vm # None \/ call[d].pc \notin
           {"found", "free", "held", "unlisted", "restored", "purging", "purgeable",
            "undefining", "erasing", "undefine", "guard", "delvols", "delrow", "sysprep",
            "finundef", "finrow"}
  BY ArgFacts, <1>5 DEF TypeInv
<1>14. LifeInv'
  <2>1. \A d \in Calls : call[d].vm = v =>
           /\ call'[d].pc \in HandlerPcs /\ call[d].kind = "purge" =>
                row'[v].life \in {"bin", "gone"}
           /\ call'[d].pc \in HandlerPcs /\ call[d].kind = "restore" =>
                row'[v].life = IF call'[d].pc = "restored" THEN "live" ELSE "bin"
           /\ "restore" \in mix.kinds =>
                /\ call'[d].pc \in {"undefine", "guard", "delvols", "delrow"} =>
                     row'[v].life = "live"
                /\ call'[d].pc \in {"sysprep", "finundef", "finrow"} =>
                     row'[v].life \in {"live", "gone"}
    <3> SUFFICES ASSUME NEW d \in Calls, call[d].vm = v
                 PROVE  /\ call'[d].pc \in HandlerPcs /\ call[d].kind = "purge" =>
                             row'[v].life \in {"bin", "gone"}
                        /\ call'[d].pc \in HandlerPcs /\ call[d].kind = "restore" =>
                             row'[v].life = IF call'[d].pc = "restored" THEN "live" ELSE "bin"
                        /\ "restore" \in mix.kinds =>
                             /\ call'[d].pc \in {"undefine", "guard", "delvols", "delrow"} =>
                                  row'[v].life = "live"
                             /\ call'[d].pc \in {"sysprep", "finundef", "finrow"} =>
                                  row'[v].life \in {"live", "gone"}
      OBVIOUS
    <3>1. call[d].pc \in HandlerPcs /\ call[d].kind = "restore" => "restore" \in mix.kinds
      BY DEF TypeInv, KindInv, HandlerPcs
    <3>2. CASE d = c
      BY <1>1, <1>3, <1>8, <1>9, <3>1, <3>2 DEF RowsInv, LifeInv, HandlerPcs, Handling
    <3>3. CASE d # c
      BY <1>1, <1>3, <1>8, <1>9, <1>12, <3>1, <3>3 DEF RowsInv, LifeInv, Handling, Tasked, HandlerPcs, TaskPcs
    <3> QED BY <3>2, <3>3
  <2>2. \A d \in Calls : /\ call'[d].kind = call[d].kind /\ call'[d].vm = call[d].vm
                         /\ d # c => call'[d].pc = call[d].pc
                         /\ call[d].vm # v /\ call[d].vm # None =>
                              row'[call[d].vm].life = row[call[d].vm].life
    BY <1>3, <1>5, <1>8
  <2> QED BY <1>1, <1>13, <2>1, <2>2, LifeKept DEF RowsInv
<1>15. MatchInv'
  BY <1>1, <1>3, <1>4, <1>6, <1>8 DEF RowsInv, MatchInv, Limbo
<1>16. ArchiveInv'
  BY <1>1, <1>3, <1>5, <1>8, <1>9, <1>12, <1>13 DEF RowsInv, ArchiveInv
<1> QED BY <1>10, <1>11, <1>14, <1>15, <1>16 DEF RowsInv

\* A purge undefines whatever domain the machine still has.
LEMMA PurgeUndefineKeeps ==
  ASSUME SerialMixes, TypeInv, SerialInv, RowsInv, NEW c \in Calls, PurgeUndefine(c)
  PROVE  RowsInv'
<1> DEFINE v == call[c].vm
<1>1. call[c].pc = "undefining" /\ mix' = mix /\ v \in VMs /\ row[v].name \in Names
  BY ArgFacts DEF PurgeUndefine, TypeInv
<1>2. PICK p \in {"erasing", "done"} : Goto(c, p)
  BY DEF PurgeUndefine
<1>3. \A d \in Calls : /\ call'[d].kind = call[d].kind /\ call'[d].vm = call[d].vm
                       /\ call'[d].name = call[d].name
                       /\ d # c => call'[d].pc = call[d].pc
                       /\ call'[c].pc = p
  BY <1>2, GotoFacts, PcFacts DEF TypeInv
<1>4. /\ v \in Calls => call[v].pc = "done"
      /\ row[v].life # "none" /\ NameOf(v) = row[v].name
      /\ \A u \in VMs : row[u].life # "none" /\ row[u].name = row[v].name => u = v
      /\ \A d \in Calls : call[d].name = row[v].name => d = v
  BY <1>1, OwnerFacts DEF RowsInv
<1>5. /\ \A d \in Calls : call[d].vm \in VMs \cup {None} /\ d \in VMs
      /\ \A n \in Names : dom[n].uuid # None => dom[n].uuid \in VMs
      /\ \A u \in VMs : u = Old \/ u \in Calls
      /\ None \notin VMs /\ Old \notin Calls
  BY StoreFacts, NoneAssumption, OldAssumption DEF TypeInv, VType, CallType, VMs
<1>6. row' = row /\ (failures' = 0 => failures = 0)
  BY FaultFacts DEF PurgeUndefine, TypeInv
<1>7. \/ /\ \A m \in Names : dom'[m] = IF m = row[v].name THEN NoDomain ELSE dom[m]
         /\ p = "erasing"
      \/ dom' = dom /\ p = "done"
  <2>1. \/ p = "erasing" /\ Define(row[v].name, NoDomain)
        \/ p = "done" /\ dom' = dom
    BY <1>2, <1>3 DEF PurgeUndefine, Define, Goto, TypeInv, VType, CallType
  <2> QED BY <1>1, <2>1, StoreFacts, DefineFacts DEF TypeInv
<1>8. row[v].life # "live"
  <2>1. call[c].kind = "purge" /\ Handling(c)
    BY <1>1 DEF TypeInv, KindInv, Fits, Handling, HandlerPcs
  <2> QED BY <1>1, <2>1 DEF RowsInv, LifeInv
<1>9. NoDomain.uuid = None
  BY DEF NoDomain
<1>10. NameInv'
  BY <1>1, <1>3, <1>5, <1>6, NameKept DEF RowsInv
<1>11. DomInv'
  <2>1. \A d \in Calls : call[d].pc \in {"clonerow", "imgrow"} =>
          dom'[call[d].name] = dom[call[d].name]
    <3> SUFFICES ASSUME NEW d \in Calls, call[d].pc \in {"clonerow", "imgrow"}
                 PROVE  dom'[call[d].name] = dom[call[d].name]
      OBVIOUS
    <3>1. call[d].name \in Names
      BY ArgFacts DEF TypeInv
    <3>2. call[d].name # row[v].name
      BY <1>4, <3>1, NoneAssumption
    <3> QED BY <1>7, <3>1, <3>2
  <2>2. \A m \in Names : dom'[m] = dom[m] \/ dom'[m].uuid = None
    BY <1>7, <1>9
  <2>3. call'[c].pc # "done" => call[c].vm # None /\ dom'[row[call[c].vm].name].uuid = None
    BY <1>1, <1>3, <1>5, <1>7, <1>9
  <2> QED BY <1>1, <1>3, <1>6, <2>1, <2>2, <2>3, DomLess DEF RowsInv
<1>12. LifeInv'
  BY <1>1, <1>3, <1>6, LifeQuiet DEF RowsInv, HandlerPcs
<1>13. MatchInv'
  <2> SUFFICES ASSUME failures = 0, NEW u \in VMs, row[u].life = "live", failures' = 0
               PROVE  dom'[row[u].name].uuid = u \/ (u \in Calls /\ call'[u].pc = "newdef")
                        \/ Limbo(u)'
    BY <1>6 DEF MatchInv
  <2>1. CASE Limbo(u)
    BY <1>1, <1>3, <2>1 DEF Limbo
  <2>2. CASE u \in Calls /\ call[u].pc = "newdef"
    BY <1>1, <1>3, <2>2
  <2>3. CASE dom[row[u].name].uuid = u
    <3>1. u # v => row[u].name # row[v].name
      BY <1>4
    <3>2. row[u].name \in Names
      BY StoreFacts, NoneAssumption DEF TypeInv, RowInv
    <3>3. CASE u # v
      BY <1>7, <2>3, <3>1, <3>2, <3>3
    <3>4. CASE u = v
      BY <1>8, <3>4
    <3> QED BY <3>3, <3>4
  <2> QED BY <1>6, <2>1, <2>2, <2>3 DEF RowsInv, MatchInv
<1>14. ArchiveInv'
  BY <1>1, <1>3, <1>6 DEF RowsInv, ArchiveInv
<1> QED BY <1>10, <1>11, <1>12, <1>13, <1>14 DEF RowsInv


\* A deletion undefines the domain of its machine.
LEMMA DeleteUndefineKeeps ==
  ASSUME SerialMixes, TypeInv, SerialInv, RowsInv, NEW c \in Calls, DeleteUndefine(c)
  PROVE  RowsInv'
<1> DEFINE v == call[c].vm
<1>1. call[c].pc = "undefine" /\ mix' = mix /\ v \in VMs /\ row[v].name \in Names
  BY ArgFacts DEF DeleteUndefine, TypeInv
<1>2. PICK p \in {"guard", "done"} : Goto(c, p)
  BY DEF DeleteUndefine
<1>3. \A d \in Calls : /\ call'[d].kind = call[d].kind /\ call'[d].vm = call[d].vm
                       /\ call'[d].name = call[d].name
                       /\ d # c => call'[d].pc = call[d].pc
                       /\ call'[c].pc = p
  BY <1>2, GotoFacts, PcFacts DEF TypeInv
<1>4. /\ v \in Calls => call[v].pc = "done"
      /\ row[v].life # "none" /\ NameOf(v) = row[v].name
      /\ \A u \in VMs : row[u].life # "none" /\ row[u].name = row[v].name => u = v
      /\ \A d \in Calls : call[d].name = row[v].name => d = v
  BY <1>1, OwnerFacts DEF RowsInv
<1>5. /\ \A d \in Calls : call[d].vm \in VMs \cup {None} /\ d \in VMs
      /\ \A n \in Names : dom[n].uuid # None => dom[n].uuid \in VMs
      /\ \A u \in VMs : u = Old \/ u \in Calls
      /\ None \notin VMs /\ Old \notin Calls
  BY StoreFacts, NoneAssumption, OldAssumption DEF TypeInv, VType, CallType, VMs
<1>6. row' = row /\ (failures' = 0 => failures = 0)
  BY FaultFacts DEF DeleteUndefine, TypeInv
<1>7. \/ /\ \A m \in Names : dom'[m] = IF m = row[v].name THEN NoDomain ELSE dom[m]
         /\ p = "guard"
      \/ dom' = dom /\ p = "done"
  <2>1. \/ p = "guard" /\ Define(row[v].name, NoDomain)
        \/ p = "done" /\ dom' = dom
    BY <1>2, <1>3 DEF DeleteUndefine, Define, Goto, TypeInv, VType, CallType
  <2> QED BY <1>1, <2>1, StoreFacts, DefineFacts DEF TypeInv
<1>8. p = "guard" => \E d \in Calls : call'[d].vm = v /\ call'[d].pc \in {"guard", "finrow"}
  BY <1>1, <1>3
<1>9. NoDomain.uuid = None
  BY DEF NoDomain
<1>10. NameInv'
  BY <1>1, <1>3, <1>5, <1>6, NameKept DEF RowsInv
<1>11. DomInv'
  <2>1. \A d \in Calls : call[d].pc \in {"clonerow", "imgrow"} =>
          dom'[call[d].name] = dom[call[d].name]
    <3> SUFFICES ASSUME NEW d \in Calls, call[d].pc \in {"clonerow", "imgrow"}
                 PROVE  dom'[call[d].name] = dom[call[d].name]
      OBVIOUS
    <3>1. call[d].name \in Names
      BY ArgFacts DEF TypeInv
    <3>2. call[d].name # row[v].name
      BY <1>4, <3>1, NoneAssumption
    <3> QED BY <1>7, <3>1, <3>2
  <2>2. \A m \in Names : dom'[m] = dom[m] \/ dom'[m].uuid = None
    BY <1>7, <1>9
  <2>3. call'[c].pc # "done" => call[c].vm # None /\ dom'[row[call[c].vm].name].uuid = None
    BY <1>1, <1>3, <1>5, <1>7, <1>9
  <2> QED BY <1>1, <1>3, <1>6, <2>1, <2>2, <2>3, DomLess DEF RowsInv
<1>12. LifeInv'
  BY <1>1, <1>3, <1>6, LifeQuiet DEF RowsInv, HandlerPcs
<1>13. MatchInv'
  <2> SUFFICES ASSUME failures = 0, NEW u \in VMs, row[u].life = "live", failures' = 0
               PROVE  dom'[row[u].name].uuid = u \/ (u \in Calls /\ call'[u].pc = "newdef")
                        \/ Limbo(u)'
    BY <1>6 DEF MatchInv
  <2>1. CASE Limbo(u)
    BY <1>1, <1>3, <2>1 DEF Limbo
  <2>2. CASE u \in Calls /\ call[u].pc = "newdef"
    BY <1>1, <1>3, <2>2
  <2>3. CASE dom[row[u].name].uuid = u
    <3>1. u # v => row[u].name # row[v].name
      BY <1>4
    <3>2. row[u].name \in Names
      BY StoreFacts, NoneAssumption DEF TypeInv, RowInv
    <3>3. CASE u # v
      BY <1>7, <2>3, <3>1, <3>2, <3>3
    <3>4. CASE u = v
      BY <1>7, <1>8, <2>3, <3>4 DEF Limbo
    <3> QED BY <3>3, <3>4
  <2> QED BY <1>6, <2>1, <2>2, <2>3 DEF RowsInv, MatchInv
<1>14. ArchiveInv'
  BY <1>1, <1>3, <1>6 DEF RowsInv, ArchiveInv
<1> QED BY <1>10, <1>11, <1>12, <1>13, <1>14 DEF RowsInv


\* A machine that becomes a template loses its domain.
LEMMA FinalizeUndefineKeeps ==
  ASSUME SerialMixes, TypeInv, SerialInv, RowsInv, NEW c \in Calls, FinalizeUndefine(c)
  PROVE  RowsInv'
<1> DEFINE v == call[c].vm
<1>1. call[c].pc = "finundef" /\ mix' = mix /\ v \in VMs /\ row[v].name \in Names
  BY ArgFacts DEF FinalizeUndefine, TypeInv
<1>2. PICK p \in {"finrow", "done"} : Goto(c, p)
  BY DEF FinalizeUndefine
<1>3. \A d \in Calls : /\ call'[d].kind = call[d].kind /\ call'[d].vm = call[d].vm
                       /\ call'[d].name = call[d].name
                       /\ d # c => call'[d].pc = call[d].pc
                       /\ call'[c].pc = p
  BY <1>2, GotoFacts, PcFacts DEF TypeInv
<1>4. /\ v \in Calls => call[v].pc = "done"
      /\ row[v].life # "none" /\ NameOf(v) = row[v].name
      /\ \A u \in VMs : row[u].life # "none" /\ row[u].name = row[v].name => u = v
      /\ \A d \in Calls : call[d].name = row[v].name => d = v
  BY <1>1, OwnerFacts DEF RowsInv
<1>5. /\ \A d \in Calls : call[d].vm \in VMs \cup {None} /\ d \in VMs
      /\ \A n \in Names : dom[n].uuid # None => dom[n].uuid \in VMs
      /\ \A u \in VMs : u = Old \/ u \in Calls
      /\ None \notin VMs /\ Old \notin Calls
  BY StoreFacts, NoneAssumption, OldAssumption DEF TypeInv, VType, CallType, VMs
<1>6. row' = row /\ (failures' = 0 => failures = 0)
  BY FaultFacts DEF FinalizeUndefine, TypeInv
<1>7. \/ /\ \A m \in Names : dom'[m] = IF m = row[v].name THEN NoDomain ELSE dom[m]
         /\ p = "finrow"
      \/ dom' = dom /\ p = "done"
  <2>1. \/ p = "finrow" /\ Define(row[v].name, NoDomain)
        \/ p = "done" /\ dom' = dom
    BY <1>2, <1>3 DEF FinalizeUndefine, Define, Goto, TypeInv, VType, CallType
  <2> QED BY <1>1, <2>1, StoreFacts, DefineFacts DEF TypeInv
<1>8. p = "finrow" => \E d \in Calls : call'[d].vm = v /\ call'[d].pc \in {"guard", "finrow"}
  BY <1>1, <1>3
<1>9. NoDomain.uuid = None
  BY DEF NoDomain
<1>10. NameInv'
  BY <1>1, <1>3, <1>5, <1>6, NameKept DEF RowsInv
<1>11. DomInv'
  <2>1. \A d \in Calls : call[d].pc \in {"clonerow", "imgrow"} =>
          dom'[call[d].name] = dom[call[d].name]
    <3> SUFFICES ASSUME NEW d \in Calls, call[d].pc \in {"clonerow", "imgrow"}
                 PROVE  dom'[call[d].name] = dom[call[d].name]
      OBVIOUS
    <3>1. call[d].name \in Names
      BY ArgFacts DEF TypeInv
    <3>2. call[d].name # row[v].name
      BY <1>4, <3>1, NoneAssumption
    <3> QED BY <1>7, <3>1, <3>2
  <2>2. \A m \in Names : dom'[m] = dom[m] \/ dom'[m].uuid = None
    BY <1>7, <1>9
  <2>3. call'[c].pc # "done" => call[c].vm # None /\ dom'[row[call[c].vm].name].uuid = None
    BY <1>1, <1>3, <1>5, <1>7, <1>9
  <2> QED BY <1>1, <1>3, <1>6, <2>1, <2>2, <2>3, DomLess DEF RowsInv
<1>12. LifeInv'
  BY <1>1, <1>3, <1>6, LifeQuiet DEF RowsInv, HandlerPcs
<1>13. MatchInv'
  <2> SUFFICES ASSUME failures = 0, NEW u \in VMs, row[u].life = "live", failures' = 0
               PROVE  dom'[row[u].name].uuid = u \/ (u \in Calls /\ call'[u].pc = "newdef")
                        \/ Limbo(u)'
    BY <1>6 DEF MatchInv
  <2>1. CASE Limbo(u)
    BY <1>1, <1>3, <2>1 DEF Limbo
  <2>2. CASE u \in Calls /\ call[u].pc = "newdef"
    BY <1>1, <1>3, <2>2
  <2>3. CASE dom[row[u].name].uuid = u
    <3>1. u # v => row[u].name # row[v].name
      BY <1>4
    <3>2. row[u].name \in Names
      BY StoreFacts, NoneAssumption DEF TypeInv, RowInv
    <3>3. CASE u # v
      BY <1>7, <2>3, <3>1, <3>2, <3>3
    <3>4. CASE u = v
      BY <1>7, <1>8, <2>3, <3>4 DEF Limbo
    <3> QED BY <3>3, <3>4
  <2> QED BY <1>6, <2>1, <2>2, <2>3 DEF RowsInv, MatchInv
<1>14. ArchiveInv'
  BY <1>1, <1>3, <1>6 DEF RowsInv, ArchiveInv
<1> QED BY <1>10, <1>11, <1>12, <1>13, <1>14 DEF RowsInv


\* A restored machine gets its domain.
LEMMA RestoreDomainKeeps ==
  ASSUME SerialMixes, TypeInv, SerialInv, RowsInv, NEW c \in Calls, RestoreDomain(c)
  PROVE  RowsInv'
<1> DEFINE v == call[c].vm
<1>1. call[c].pc = "restored" /\ mix' = mix /\ v \in VMs /\ row[v].name \in Names
  BY ArgFacts DEF RestoreDomain, TypeInv
<1>2. PICK p \in {"done"} : Goto(c, p)
  BY DEF RestoreDomain
<1>3. \A d \in Calls : /\ call'[d].kind = call[d].kind /\ call'[d].vm = call[d].vm
                       /\ call'[d].name = call[d].name
                       /\ d # c => call'[d].pc = call[d].pc
                       /\ call'[c].pc = p
  BY <1>2, GotoFacts, PcFacts DEF TypeInv
<1>4. /\ v \in Calls => call[v].pc = "done"
      /\ row[v].life # "none" /\ NameOf(v) = row[v].name
      /\ \A u \in VMs : row[u].life # "none" /\ row[u].name = row[v].name => u = v
      /\ \A d \in Calls : call[d].name = row[v].name => d = v
  BY <1>1, OwnerFacts DEF RowsInv
<1>5. /\ \A d \in Calls : call[d].vm \in VMs \cup {None} /\ d \in VMs
      /\ \A n \in Names : dom[n].uuid # None => dom[n].uuid \in VMs
      /\ \A u \in VMs : u = Old \/ u \in Calls
      /\ None \notin VMs /\ Old \notin Calls
  BY StoreFacts, NoneAssumption, OldAssumption DEF TypeInv, VType, CallType, VMs
<1>6. row' = row /\ (failures' = 0 => failures = 0) /\ dom[row[v].name].uuid = None
  BY <1>1, RestoreFacts, FaultFacts DEF RestoreDomain, RowsInv, DomInv, TypeInv
<1>7. /\ \A m \in Names : m # row[v].name => dom'[m] = dom[m]
      /\ \/ dom'[row[v].name].uuid = None /\ (failures' = 0 => row[v].archive = {})
         \/ dom'[row[v].name].uuid = v /\ dom'[row[v].name].disks # {}
  <2>1. PICK n \in Names : n = row[v].name
    BY <1>1
  <2>2. CASE dom' = dom /\ (failures' = failures /\ dom[n].uuid = None => row[v].archive = {})
    <3>1. failures' = 0 => failures' = failures
      BY <1>6
    <3> QED BY <1>6, <2>1, <2>2, <3>1
  <2>3. ASSUME NEW d \in SUBSET Volumes, d # {}, Define(n, [uuid |-> v, disks |-> d])
        PROVE  <1>7!:
    <3>1. PICK e \in DomType : e = [uuid |-> v, disks |-> d]
      BY <1>1 DEF DomType
    <3>2. dom' \in [Names -> DomType] /\ \A m \in Names : dom'[m] = IF m = n THEN e ELSE dom[m]
      BY <2>3, <3>1, DefineFacts DEF TypeInv
    <3> QED BY <2>1, <2>3, <3>1, <3>2
  <2>4. \/ dom' = dom /\ (failures' = failures /\ dom[n].uuid = None => row[v].archive = {})
        \/ \E d \in SUBSET Volumes : d # {} /\ Define(n, [uuid |-> v, disks |-> d])
    BY <1>1, <2>1, RestoreFacts DEF TypeInv
  <2> QED BY <2>2, <2>3, <2>4
<1>8. call[c].kind = "restore" /\ Handling(c) /\ "restore" \in mix.kinds
  BY <1>1 DEF TypeInv, KindInv, Fits, Handling, HandlerPcs
<1>9. /\ row[v].life = "live" /\ (failures = 0 => row[v].archive # {})
      /\ \A d \in Calls : d # c /\ call[d].vm = v => ~Handling(d) /\ ~Tasked(d)
  <2>1. row[v].life = "live" /\ (failures = 0 => row[v].archive # {})
    BY <1>1, <1>8 DEF RowsInv, LifeInv, ArchiveInv
  <2>2. \A d \in Calls : d # c /\ call[d].vm = v => ~Handling(d) /\ ~Tasked(d)
    BY <1>1, <1>5, <1>8, Apart
  <2> QED BY <2>1, <2>2
<1>10. NameInv'
  BY <1>1, <1>3, <1>5, <1>6, NameKept DEF RowsInv
<1>11. DomInv'
  <2>1. \A m \in Names : dom'[m].uuid # None =>
          /\ IF dom'[m].uuid = Old THEN m = OldName ELSE call'[dom'[m].uuid].name = m
          /\ dom'[m].disks # {}
          /\ \/ row[dom'[m].uuid].life = "live"
             \/ dom'[m].uuid \in Calls /\ call'[dom'[m].uuid].pc \in {"clonerow", "imgrow"}
          /\ dom'[m].uuid \in Calls => call'[dom'[m].uuid].pc \in {"clonerow", "imgrow", "done"}
    <3> SUFFICES ASSUME NEW m \in Names, dom'[m].uuid # None
                 PROVE  /\ IF dom'[m].uuid = Old THEN m = OldName ELSE call'[dom'[m].uuid].name = m
                        /\ dom'[m].disks # {}
                        /\ \/ row[dom'[m].uuid].life = "live"
                           \/ /\ dom'[m].uuid \in Calls
                              /\ call'[dom'[m].uuid].pc \in {"clonerow", "imgrow"}
                        /\ dom'[m].uuid \in Calls =>
                             call'[dom'[m].uuid].pc \in {"clonerow", "imgrow", "done"}
      OBVIOUS
    <3>1. CASE m = row[v].name
      <4>1. dom'[m].uuid = v /\ dom'[m].disks # {} /\ row[v].life = "live"
        BY <1>7, <1>9, <3>1
      <4>2. IF v = Old THEN m = OldName ELSE call[v].name = m
        BY <1>4, <3>1 DEF NameOf
      <4>3. /\ v \in Calls => call'[v].pc = "done"
            /\ v # Old => call'[v].name = call[v].name
        BY <1>1, <1>3, <1>4, <1>5
      <4> QED BY <4>1, <4>2, <4>3
    <3>2. CASE m # row[v].name
      <4>1. dom'[m] = dom[m] /\ dom[m].uuid # None
        BY <1>7, <3>2
      <4>2. /\ IF dom[m].uuid = Old THEN m = OldName ELSE call[dom[m].uuid].name = m
            /\ dom[m].disks # {}
            /\ \/ row[dom[m].uuid].life = "live"
               \/ dom[m].uuid \in Calls /\ call[dom[m].uuid].pc \in {"clonerow", "imgrow"}
            /\ dom[m].uuid \in Calls => call[dom[m].uuid].pc \in {"clonerow", "imgrow", "done"}
        BY <4>1 DEF RowsInv, DomInv, NameOf
      <4>3. /\ dom[m].uuid # c
            /\ dom[m].uuid = Old \/ dom[m].uuid \in Calls
        BY <1>1, <1>5, <4>1, <4>2
      <4>4. dom[m].uuid \in Calls => /\ call'[dom[m].uuid].pc = call[dom[m].uuid].pc
                                     /\ call'[dom[m].uuid].name = call[dom[m].uuid].name
        BY <1>3, <4>3
      <4> QED BY <4>1, <4>2, <4>3, <4>4
    <3> QED BY <3>1, <3>2
  <2>2. \A d \in Calls : call'[d].pc \in {"clonerow", "imgrow"} => dom'[call'[d].name].uuid = d
    <3> SUFFICES ASSUME NEW d \in Calls, call'[d].pc \in {"clonerow", "imgrow"}
                 PROVE  dom'[call'[d].name].uuid = d
      OBVIOUS
    <3>1. d # c /\ call[d].pc \in {"clonerow", "imgrow"}
      BY <1>1, <1>3
    <3>2. call[d].name \in Names /\ call[d].name # row[v].name
      BY <1>4, <3>1, ArgFacts DEF TypeInv
    <3>3. dom'[call[d].name] = dom[call[d].name] /\ call'[d].name = call[d].name
      BY <1>3, <1>7, <3>2
    <3>4. dom[call[d].name].uuid = d
      BY <3>1 DEF RowsInv, DomInv
    <3> QED BY <3>3, <3>4
  <2>3. \A d \in Calls :
          call'[d].pc \in {"guard", "delvols", "delrow", "finrow", "restored", "erasing"} =>
            dom'[row'[call'[d].vm].name].uuid = None
    <3> SUFFICES ASSUME NEW d \in Calls,
                        call'[d].pc \in {"guard", "delvols", "delrow", "finrow", "restored",
                                         "erasing"}
                 PROVE  dom'[row'[call'[d].vm].name].uuid = None
      OBVIOUS
    <3>1. d # c /\ call[d].pc = call'[d].pc
      BY <1>1, <1>3
    <3>2. call[d].vm \in VMs /\ row[call[d].vm].name \in Names
      BY <3>1, ArgFacts DEF TypeInv
    <3>3. call[d].vm # v
      BY <1>9, <3>1 DEF Handling, Tasked, HandlerPcs, TaskPcs
    <3>4. row[call[d].vm].life # "none"
      BY <1>5, <3>2 DEF RowsInv, NameInv
    <3>5. row[call[d].vm].name # row[v].name
      BY <1>4, <3>2, <3>3, <3>4
    <3>6. dom'[row[call[d].vm].name] = dom[row[call[d].vm].name]
      BY <1>7, <3>2, <3>5
    <3>7. dom[row[call[d].vm].name].uuid = None
      BY <3>1 DEF RowsInv, DomInv
    <3> QED BY <1>3, <1>6, <3>6, <3>7
  <2> QED BY <1>6, <2>1, <2>2, <2>3 DEF DomInv, NameOf
<1>12. LifeInv'
  BY <1>1, <1>3, <1>6, LifeQuiet DEF RowsInv, HandlerPcs
<1>13. MatchInv'
  <2> SUFFICES ASSUME failures = 0, failures' = 0, NEW u \in VMs, row[u].life = "live"
               PROVE  dom'[row[u].name].uuid = u \/ (u \in Calls /\ call'[u].pc = "newdef")
                        \/ Limbo(u)'
    BY <1>6 DEF MatchInv
  <2>1. CASE u = v
    BY <1>7, <1>9, <2>1
  <2>2. CASE u # v
    <3>1. row[u].name # row[v].name /\ row[u].name \in Names
      BY <1>4, <2>2, StoreFacts, NoneAssumption DEF TypeInv, RowInv
    <3>2. Limbo(u) => Limbo(u)'
      BY <1>3, <2>2 DEF Limbo
    <3>3. u \in Calls /\ call[u].pc = "newdef" => call'[u].pc = "newdef"
      BY <1>1, <1>3
    <3> QED BY <1>7, <3>1, <3>2, <3>3 DEF RowsInv, MatchInv
  <2> QED BY <2>1, <2>2
<1>14. ArchiveInv'
  BY <1>1, <1>3, <1>6 DEF RowsInv, ArchiveInv
<1> QED BY <1>10, <1>11, <1>12, <1>13, <1>14 DEF RowsInv


\* A deletion archives the definition of the domain it finds.
LEMMA DeleteReadKeeps ==
  ASSUME SerialMixes, TypeInv, SerialInv, RowsInv, NEW c \in Calls, DeleteRead(c)
  PROVE  RowsInv'
<1> DEFINE v == call[c].vm
<1>1. call[c].pc = "delread" /\ mix' = mix /\ v \in VMs /\ row[v].name \in Names
  BY ArgFacts DEF DeleteRead, TypeInv
<1>2. PICK p \in {"undefine", "done"} : Goto(c, p)
  BY DEF DeleteRead
<1>3. \A d \in Calls : /\ call'[d].kind = call[d].kind /\ call'[d].vm = call[d].vm
                       /\ call'[d].name = call[d].name
                       /\ d # c => call'[d].pc = call[d].pc
                       /\ call'[c].pc = p
  BY <1>2, GotoFacts, PcFacts DEF TypeInv
<1>4. /\ v \in Calls => call[v].pc = "done"
      /\ row[v].life # "none" /\ NameOf(v) = row[v].name
      /\ \A u \in VMs : row[u].life # "none" /\ row[u].name = row[v].name => u = v
      /\ \A d \in Calls : call[d].name = row[v].name => d = v
  BY <1>1, OwnerFacts DEF RowsInv
<1>5. /\ \A d \in Calls : call[d].vm \in VMs \cup {None} /\ d \in VMs
      /\ \A n \in Names : dom[n].uuid # None => dom[n].uuid \in VMs
      /\ \A u \in VMs : u = Old \/ u \in Calls
      /\ None \notin VMs /\ Old \notin Calls
  BY StoreFacts, NoneAssumption, OldAssumption DEF TypeInv, VType, CallType, VMs
<1>6. dom' = dom /\ (failures' = 0 => failures = 0)
  BY <1>1, DeleteReadFacts, FaultFacts DEF DeleteRead, TypeInv
<1>7. /\ \A u \in VMs : row'[u].name = row[u].name /\ row'[u].life = row[u].life
      /\ \A u \in VMs : row'[u].archive # row[u].archive =>
           u = v /\ dom[row[v].name].uuid # None /\ row'[u].archive = dom[row[v].name].disks
      /\ p = "undefine" => /\ row[v].life = "live"
                           /\ failures' = failures /\ dom[row[v].name].uuid # None =>
                                row'[v].archive = dom[row[v].name].disks
  <2>1. PICK n \in Names : n = row[v].name
    BY <1>1
  <2>2. \A q : Goto(c, q) => q = p
    BY <1>2 DEF Goto, TypeInv, VType, CallType
  <2> QED BY <1>1, <2>1, <2>2, DeleteReadFacts DEF TypeInv
<1>8. \A n \in Names : dom[n].uuid # None => dom[n].disks # {}
  BY DEF RowsInv, DomInv
<1>9. Tasked(c) /\ call[c].kind = "delete" /\ "delete" \in mix.kinds
  BY <1>1 DEF TypeInv, KindInv, Fits, Tasked, TaskPcs
<1>10. NameInv'
  BY <1>1, <1>3, <1>5, <1>7, NameKept DEF RowsInv
<1>11. DomInv'
  BY <1>1, <1>3, <1>5, <1>6, <1>7, DomKept, NoneAssumption DEF RowsInv
<1>12. LifeInv'
  <2>1. \A d \in Calls : call[d].vm # None => row'[call[d].vm].life = row[call[d].vm].life
    BY <1>5, <1>7
  <2>2. \A d \in Calls : call[d].vm # None \/ call[d].pc \notin
           {"found", "free", "held", "unlisted", "restored", "purging", "purgeable",
            "undefining", "erasing", "undefine", "guard", "delvols", "delrow", "sysprep",
            "finundef", "finrow"}
    BY ArgFacts, <1>5 DEF TypeInv
  <2> QED BY <1>1, <1>3, <1>7, <2>1, <2>2 DEF RowsInv, LifeInv, Handling, HandlerPcs
<1>13. MatchInv'
  BY <1>1, <1>3, <1>6, <1>7 DEF RowsInv, MatchInv, Limbo
<1>14. ArchiveInv'
  <2> SUFFICES ASSUME failures = 0, failures' = failures, "restore" \in mix.kinds PROVE ArchiveInv'
    BY <1>1, <1>6 DEF ArchiveInv
  <2>1. \A u \in VMs : row[u].archive # {} => row'[u].archive # {}
    BY <1>1, <1>7, <1>8
  <2>2. row[v].life = "live" => dom[row[v].name].uuid = v
    <3>1. ~Limbo(v)
      <4>1. ~mix.overlap /\ ~({"delete", "finalize"} \subseteq mix.kinds)
        BY MixFacts DEF TypeInv
      <4>2. \A d \in Calls : d # c /\ call[d].vm = v =>
              /\ Tasked(d) => "finalize" \in {call[c].kind, call[d].kind}
              /\ Handling(d) => call[d].pc = "found"
        BY <1>1, <1>5, <1>9, <4>1 DEF SerialInv
      <4>3. \A d \in Calls : call[d].pc # "idle" => call[d].kind \in mix.kinds
        BY DEF TypeInv, KindInv
      <4>4. \A d \in Calls : d # c /\ call[d].vm = v => ~Tasked(d)
        BY <1>9, <4>1, <4>2, <4>3 DEF Tasked, TaskPcs
      <4> QED BY <1>1, <4>2, <4>4 DEF Limbo, Handling, Tasked, HandlerPcs, TaskPcs
    <3> QED BY <1>1, <1>4, <3>1 DEF RowsInv, MatchInv
  <2>3. p = "undefine" => row'[v].archive # {}
    BY <1>1, <1>5, <1>7, <1>8, <2>2
  <2>4. \A d \in Calls : d # c => /\ call'[d].pc = call[d].pc /\ call'[d].vm = call[d].vm
                                  /\ call[d].vm \in VMs \/ call[d].vm = None
    BY <1>3, <1>5
  <2>5. \A d \in Calls : call[d].pc \in {"undefine", "guard", "delvols", "delrow", "restored"}
          => call[d].vm \in VMs
    BY ArgFacts DEF TypeInv
  <2> QED BY <1>1, <1>3, <1>7, <2>1, <2>3, <2>4, <2>5 DEF RowsInv, ArchiveInv
<1> QED BY <1>10, <1>11, <1>12, <1>13, <1>14 DEF RowsInv


\* A request arrives for a machine that exists, or with a name nobody has.
LEMMA ArriveKeeps ==
  ASSUME SerialMixes, TypeInv, RowsInv, NEW c \in Calls, Arrive(c)
  PROVE  RowsInv'
<1>1. call[c].pc = "idle" /\ UNCHANGED <<mix, row, dom, failures>>
  BY DEF Arrive
<1>2. PICK k \in mix.kinds, v \in VMs \cup {None}, n \in Names \cup {None} :
        /\ \A d \in Calls : d # c => call'[d] = call[d]
        /\ call'[c].pc = (IF k \in Locks THEN "found" ELSE "queued")
        /\ call'[c].kind = k /\ call'[c].vm = v /\ call'[c].name = n
        /\ v # None => row[v].life = (IF k \in {"restore", "purge"} THEN "bin" ELSE "live")
        /\ k \in {"restore", "purge"} => v # None
        /\ n # None => ~Used(n)
  <2>1. ~mix.reuse
    BY MixFacts DEF TypeInv
  <2>2. call \in [Calls -> CallType]
    BY DEF TypeInv, VType
  <2> QED BY <2>1, <2>2 DEF Arrive
<1>3. /\ n # None => n # OldName /\ \A d \in Calls : call[d].name # n
      /\ Old \in VMs /\ c \in VMs
  BY <1>2 DEF Used, RowsInv, NameInv, VMs
<1>4. OldName # None /\ row[c].life = "none"
  BY <1>1, <1>3, BoundAssumption, NoneAssumption DEF RowsInv, NameInv, Makes
<1>5. NameInv'
  BY <1>1, <1>2, <1>3, <1>4 DEF RowsInv, NameInv
<1>6. \A m \in Names : dom[m].uuid # None => /\ dom[m].uuid = Old \/ dom[m].uuid \in Calls
                                            /\ dom[m].uuid # c
  BY <1>1, StoreFacts DEF RowsInv, DomInv, TypeInv, VMs
<1>7. DomInv'
  BY <1>1, <1>2, <1>6 DEF RowsInv, DomInv, NameOf
<1>8. LifeInv'
  BY <1>1, <1>2, NoneAssumption DEF RowsInv, LifeInv, Handling, HandlerPcs, Locks
<1>9. \A u \in VMs : Limbo(u) => Limbo(u)'
  BY <1>1, <1>2 DEF Limbo
<1>10. MatchInv'
  BY <1>1, <1>2, <1>9 DEF RowsInv, MatchInv
<1>11. ArchiveInv'
  BY <1>1, <1>2 DEF RowsInv, ArchiveInv
<1> QED BY <1>5, <1>7, <1>8, <1>10, <1>11 DEF RowsInv

\* A new machine is entered in the table.
LEMMA CreateRowKeeps ==
  ASSUME SerialMixes, TypeInv, SerialInv, RowsInv, NEW c \in Calls, CreateRow(c)
  PROVE  RowsInv'
<1> DEFINE n == call[c].name
<1>1. call[c].pc = "newrow" /\ mix' = mix
  BY DEF CreateRow
<1>2. PICK p \in {"newdef", "done"} : Goto(c, p)
  BY DEF CreateRow
<1>3. call'[c].pc = p
  BY <1>2, GotoFacts, PcFacts DEF TypeInv
<1>4. n \in Names /\ c \in VMs
  BY <1>1, ArgFacts DEF TypeInv, VMs
<1>5. row[c].life = "none" /\ dom[n].uuid = None
  BY <1>1, MakerFacts DEF RowsInv
<1>6. /\ dom' = dom /\ (failures' = 0 => failures = 0)
      /\ \/ /\ p = "newdef" /\ \A u \in VMs : u # c => row'[u] = row[u]
            /\ row'[c].name = n /\ row'[c].life = "live"
         \/ p = "done" /\ row' = row
  <2>1. \/ p = "newdef" /\ ListRow(c, n)
        \/ p = "done" /\ row' = row
    BY <1>3 DEF CreateRow, Goto, TypeInv, VType, CallType
  <2>2. dom' = dom /\ (failures' = 0 => failures = 0)
    BY FaultFacts DEF CreateRow, TypeInv
  <2> QED BY <1>4, <2>1, <2>2, NewRowFacts DEF TypeInv
<1> QED BY <1>1, <1>2, <1>5, <1>6, PcFacts, MakerKept

\* A new machine gets its domain, or its row goes to the recycle bin.
LEMMA CreateDefineKeeps ==
  ASSUME SerialMixes, TypeInv, SerialInv, RowsInv, NEW c \in Calls, CreateDefine(c)
  PROVE  RowsInv'
<1> DEFINE n == call[c].name
<1>1. call[c].pc = "newdef" /\ mix' = mix
  BY DEF CreateDefine
<1>2. PICK p \in {"done"} : Goto(c, p)
  BY DEF CreateDefine
<1>3. call'[c].pc = p
  BY <1>2, GotoFacts, PcFacts DEF TypeInv
<1>4. n \in Names /\ c \in VMs
  BY <1>1, ArgFacts DEF TypeInv, VMs
<1>5. row[c].life = "live" /\ row[c].name = n /\ dom[n].uuid = None
  BY <1>1, MakerFacts DEF RowsInv, NameInv
<1>6. /\ \/ /\ row' = row /\ failures' = failures
            /\ Define(n, [uuid |-> c, disks |-> loc[c].disks])
         \/ /\ row' = [row EXCEPT ![c].life = "bin"] /\ dom' = dom /\ Failing
  BY <1>5 DEF CreateDefine
<1>7. \/ /\ row' = row /\ failures' = failures
         /\ \A m \in Names : m # n => dom'[m] = dom[m]
         /\ dom'[n].uuid = c /\ dom'[n].disks # {}
      \/ /\ \A u \in VMs : u # c => row'[u] = row[u]
         /\ row'[c].name = n /\ row'[c].life = "bin" /\ dom' = dom /\ failures' # 0
  <2>1. CASE row' = row /\ failures' = failures /\ Define(n, [uuid |-> c, disks |-> loc[c].disks])
    <3>1. loc[c].disks # {}
      BY <1>1 DEF TypeInv, GivenInv
    <3> HIDE DEF n
    <3> DEFINE d == [uuid |-> c, disks |-> loc[c].disks]
    <3>2. Define(n, d)
      BY <2>1
    <3>3. d.uuid = c /\ d.disks # {}
      BY <3>1
    <3> HIDE DEF d
    <3>4. dom'[n] = d /\ \A m \in Names : m # n => dom'[m] = dom[m]
      BY <1>4, <3>2, DefineAt DEF TypeInv
    <3> QED BY <2>1, <3>3, <3>4
  <2>2. CASE row' = [row EXCEPT ![c].life = "bin"] /\ dom' = dom /\ Failing
    <3>1. /\ \A u \in VMs : u # c => row'[u] = row[u]
          /\ row'[c].name = row[c].name /\ row'[c].life = "bin"
      BY <1>4, <2>2 DEF TypeInv, VType, RowType
    <3> QED BY <1>5, <2>2, <3>1, FaultFacts DEF TypeInv
  <2> QED BY <1>6, <2>1, <2>2
<1> QED BY <1>1, <1>2, <1>4, <1>5, <1>7, PcFacts, MakerKept

\* A clone is defined before it has a row.
LEMMA CloneDefineKeeps ==
  ASSUME SerialMixes, TypeInv, SerialInv, RowsInv, NEW c \in Calls, CloneDefine(c)
  PROVE  RowsInv'
<1> DEFINE n == call[c].name
<1>1. call[c].pc = "clonedef" /\ mix' = mix
  BY DEF CloneDefine
<1>2. PICK p \in {"clonerow", "done"} : Goto(c, p)
  BY DEF CloneDefine
<1>3. call'[c].pc = p
  BY <1>2, GotoFacts, PcFacts DEF TypeInv
<1>4. n \in Names /\ c \in VMs
  BY <1>1, ArgFacts DEF TypeInv, VMs
<1>5. row[c].life = "none" /\ dom[n].uuid = None
  BY <1>1, MakerFacts DEF RowsInv
<1>6. row' = row /\ (failures' = 0 => failures = 0)
  BY FaultFacts DEF CloneDefine, TypeInv
<1>7. \/ p = "clonerow" /\ Define(n, CloneSpec(c))
      \/ p = "done" /\ dom' = dom
  BY <1>3 DEF CloneDefine, Goto, TypeInv, VType, CallType
<1>8. /\ \A m \in Names : m # n => dom'[m] = dom[m]
      /\ \/ p = "clonerow" /\ dom'[n].uuid = c /\ dom'[n].disks # {}
         \/ p = "done" /\ dom'[n].uuid = None
  <2>1. CASE p = "clonerow" /\ Define(n, CloneSpec(c))
    <3> HIDE DEF n
    <3> DEFINE d == CloneSpec(c)
    <3>1. Define(n, d)
      BY <2>1
    <3>2. d.uuid = c /\ d.disks # {}
      BY DEF CloneSpec
    <3> HIDE DEF d
    <3>3. dom'[n] = d /\ \A m \in Names : m # n => dom'[m] = dom[m]
      BY <1>4, <3>1, DefineAt DEF TypeInv
    <3> QED BY <2>1, <3>2, <3>3
  <2>2. CASE p = "done" /\ dom' = dom
    BY <1>4, <1>5, <2>2
  <2> QED BY <1>7, <2>1, <2>2
<1> QED BY <1>1, <1>2, <1>5, <1>6, <1>8, PcFacts, MakerKept

\* A machine from a template is defined before it has a row.
LEMMA ImageDefineKeeps ==
  ASSUME SerialMixes, TypeInv, SerialInv, RowsInv, NEW c \in Calls, ImageDefine(c)
  PROVE  RowsInv'
<1> DEFINE n == call[c].name
<1>1. call[c].pc = "imgdef" /\ mix' = mix
  BY DEF ImageDefine
<1>2. PICK p \in {"imgrow", "done"} : Goto(c, p)
  BY DEF ImageDefine
<1>3. call'[c].pc = p
  BY <1>2, GotoFacts, PcFacts DEF TypeInv
<1>4. n \in Names /\ c \in VMs
  BY <1>1, ArgFacts DEF TypeInv, VMs
<1>5. row[c].life = "none" /\ dom[n].uuid = None
  BY <1>1, MakerFacts DEF RowsInv
<1>6. row' = row /\ (failures' = 0 => failures = 0)
  BY FaultFacts DEF ImageDefine, TypeInv
<1>7. \/ p = "imgrow" /\ Define(n, [uuid |-> c, disks |-> {<<n, "-sys">>}])
      \/ p = "done" /\ Define(n, NoDomain)
  BY <1>3 DEF ImageDefine, Goto, TypeInv, VType, CallType, Cleanup
<1>8. /\ \A m \in Names : m # n => dom'[m] = dom[m]
      /\ \/ p = "imgrow" /\ dom'[n].uuid = c /\ dom'[n].disks # {}
         \/ p = "done" /\ dom'[n].uuid = None
  <2>1. CASE p = "imgrow" /\ Define(n, [uuid |-> c, disks |-> {<<n, "-sys">>}])
    <3> HIDE DEF n
    <3> DEFINE d == [uuid |-> c, disks |-> {<<n, "-sys">>}]
    <3>1. Define(n, d)
      BY <2>1
    <3>2. d.uuid = c /\ d.disks # {}
      BY DEF d
    <3> HIDE DEF d
    <3>3. dom'[n] = d /\ \A m \in Names : m # n => dom'[m] = dom[m]
      BY <1>4, <3>1, DefineAt DEF TypeInv
    <3> QED BY <2>1, <3>2, <3>3
  <2>2. CASE p = "done" /\ Define(n, NoDomain)
    BY <1>4, <1>5, <2>2, DefineAt DEF TypeInv, NoDomain
  <2> QED BY <1>7, <2>1, <2>2
<1> QED BY <1>1, <1>2, <1>5, <1>6, <1>8, PcFacts, MakerKept

\* The row of a clone is written, or its domain goes.
LEMMA CloneRowKeeps ==
  ASSUME SerialMixes, TypeInv, SerialInv, RowsInv, NEW c \in Calls, CloneRow(c)
  PROVE  RowsInv'
<1> DEFINE n == call[c].name
<1>1. call[c].pc = "clonerow" /\ mix' = mix
  BY DEF CloneRow
<1>2. PICK p \in {"done"} : Goto(c, p)
  BY DEF CloneRow
<1>3. call'[c].pc = p
  BY <1>2, GotoFacts, PcFacts DEF TypeInv
<1>4. n \in Names /\ c \in VMs
  BY <1>1, ArgFacts DEF TypeInv, VMs
<1>5. row[c].life = "none" /\ dom[n].uuid = c /\ dom[n].disks # {}
  <2>1. row[c].life = "none"
    BY <1>1, MakerFacts DEF RowsInv
  <2>2. dom[n].uuid = c /\ c # None
    BY <1>1, <1>4, NoneAssumption DEF RowsInv, DomInv
  <2> QED BY <1>4, <2>1, <2>2 DEF RowsInv, DomInv
<1>6. \/ ListRow(c, n) /\ dom' = dom /\ failures' = failures
      \/ row' = row /\ Define(n, NoDomain) /\ Failing
  BY DEF CloneRow
<1>7. \/ /\ \A u \in VMs : u # c => row'[u] = row[u]
         /\ row'[c].name = n /\ row'[c].life = "live" /\ dom' = dom /\ failures' = failures
      \/ /\ row' = row /\ failures' # 0 /\ dom'[n].uuid = None
         /\ \A m \in Names : m # n => dom'[m] = dom[m]
  <2>1. CASE ListRow(c, n) /\ dom' = dom /\ failures' = failures
    BY <1>4, <2>1, NewRowFacts DEF TypeInv
  <2>2. CASE row' = row /\ Define(n, NoDomain) /\ Failing
    BY <1>4, <2>2, FaultFacts DEF Define, NoDomain, TypeInv, VType
  <2> QED BY <1>6, <2>1, <2>2
<1> QED BY <1>1, <1>2, <1>5, <1>7, PcFacts, MakerKept

\* The row of a machine from a template is written, or its domain goes.
LEMMA ImageRowKeeps ==
  ASSUME SerialMixes, TypeInv, SerialInv, RowsInv, NEW c \in Calls, ImageRow(c)
  PROVE  RowsInv'
<1> DEFINE n == call[c].name
<1>1. call[c].pc = "imgrow" /\ mix' = mix
  BY DEF ImageRow
<1>2. PICK p \in {"done"} : Goto(c, p)
  BY DEF ImageRow
<1>3. call'[c].pc = p
  BY <1>2, GotoFacts, PcFacts DEF TypeInv
<1>4. n \in Names /\ c \in VMs
  BY <1>1, ArgFacts DEF TypeInv, VMs
<1>5. row[c].life = "none" /\ dom[n].uuid = c /\ dom[n].disks # {}
  <2>1. row[c].life = "none"
    BY <1>1, MakerFacts DEF RowsInv
  <2>2. dom[n].uuid = c /\ c # None
    BY <1>1, <1>4, NoneAssumption DEF RowsInv, DomInv
  <2> QED BY <1>4, <2>1, <2>2 DEF RowsInv, DomInv
<1>6. \/ ListRow(c, n) /\ dom' = dom /\ failures' = failures
      \/ row' = row /\ Define(n, NoDomain) /\ Failing
  BY DEF ImageRow, Cleanup
<1>7. \/ /\ \A u \in VMs : u # c => row'[u] = row[u]
         /\ row'[c].name = n /\ row'[c].life = "live" /\ dom' = dom /\ failures' = failures
      \/ /\ row' = row /\ failures' # 0 /\ dom'[n].uuid = None
         /\ \A m \in Names : m # n => dom'[m] = dom[m]
  <2>1. CASE ListRow(c, n) /\ dom' = dom /\ failures' = failures
    BY <1>4, <2>1, NewRowFacts DEF TypeInv
  <2>2. CASE row' = row /\ Define(n, NoDomain) /\ Failing
    BY <1>4, <2>2, FaultFacts DEF Define, NoDomain, TypeInv, VType
  <2> QED BY <1>6, <2>1, <2>2
<1> QED BY <1>1, <1>2, <1>5, <1>7, PcFacts, MakerKept

\* Every step of the next-state relation keeps what is known of rows and domains.
LEMMA RowsStep == ASSUME SerialMixes, TypeInv, SerialInv, RowsInv, [Next]_vars PROVE RowsInv'
<1>1. ASSUME NEW c \in Calls, Arrive(c) PROVE RowsInv'
  BY <1>1, ArriveKeeps
<1>2. ASSUME NEW c \in Calls, GuardVMIdle(c) PROVE RowsInv'
  <2>1. PICK p \in {"done", "free"} : Goto(c, p)
    BY <1>2 DEF GuardVMIdle
  <2>2. /\ call[c].pc = "found" /\ mix' = mix /\ row' = row /\ dom' = dom
        /\ failures' = 0 => failures = 0
    BY <1>2 DEF GuardVMIdle
  <2> QED BY <2>1, <2>2, PcFacts, QuietMove DEF HandlerPcs
<1>3. ASSUME NEW c \in Calls, LockVM(c) PROVE RowsInv'
  <2>1. PICK p \in {"done", "held"} : Goto(c, p)
    BY <1>3 DEF LockVM
  <2>2. /\ call[c].pc = "free" /\ mix' = mix /\ row' = row /\ dom' = dom
        /\ failures' = 0 => failures = 0
    BY <1>3 DEF LockVM
  <2> QED BY <2>1, <2>2, PcFacts, QuietMove DEF HandlerPcs
<1>4. ASSUME NEW c \in Calls, SubmitTask(c) PROVE RowsInv'
  <2>1. PICK p \in {"queued"} : Goto(c, p)
    BY <1>4 DEF SubmitTask
  <2>2. /\ call[c].pc = "held" /\ mix' = mix /\ row' = row /\ dom' = dom
        /\ failures' = 0 => failures = 0
    BY <1>4 DEF SubmitTask
  <2> QED BY <2>1, <2>2, PcFacts, QuietMove DEF HandlerPcs
<1>5. ASSUME NEW c \in Calls, RebootDomain(c) PROVE RowsInv'
  <2>1. PICK p \in {"done"} : Goto(c, p)
    BY <1>5 DEF RebootDomain
  <2>2. /\ call[c].pc = "held" /\ mix' = mix /\ row' = row /\ dom' = dom
        /\ failures' = 0 => failures = 0
    BY <1>5 DEF RebootDomain
  <2> QED BY <2>1, <2>2, PcFacts, QuietMove DEF HandlerPcs
<1>6. ASSUME NEW c \in Calls, RestoreCheck(c) PROVE RowsInv'
  <2>1. PICK p \in {"done", "unlisted"} : Goto(c, p)
    BY <1>6 DEF RestoreCheck
  <2>2. /\ call[c].pc = "held" /\ mix' = mix /\ row' = row /\ dom' = dom
        /\ failures' = 0 => failures = 0
    BY <1>6 DEF RestoreCheck
  <2> QED BY <2>1, <2>2, PcFacts, QuietMove DEF HandlerPcs
<1>7. ASSUME NEW c \in Calls, RestoreRow(c) PROVE RowsInv'
  BY <1>7, RestoreRowKeeps
<1>8. ASSUME NEW c \in Calls, RestoreDomain(c) PROVE RowsInv'
  BY <1>8, RestoreDomainKeeps
<1>9. ASSUME NEW c \in Calls, PurgeStart(c) PROVE RowsInv'
  <2>1. PICK p \in {"undefining", "purging"} : Goto(c, p)
    BY <1>9 DEF PurgeStart
  <2>2. /\ call[c].pc = "held" /\ mix' = mix /\ row' = row /\ dom' = dom
        /\ failures' = 0 => failures = 0
    BY <1>9 DEF PurgeStart
  <2> QED BY <2>1, <2>2, PcFacts, QuietMove DEF HandlerPcs
<1>10. ASSUME NEW c \in Calls, PurgeCheck(c) PROVE RowsInv'
  <2>1. /\ row' = row /\ dom' = dom /\ mix' = mix /\ (failures' = 0 => failures = 0)
        /\ call[c].pc = "purging"
        /\ UNCHANGED call \/ \E p \in {"undefining", "purgeable"} : Goto(c, p)
    <3>1. /\ row' = row /\ dom' = dom /\ mix' = mix /\ call[c].pc = "purging"
          /\ UNCHANGED call \/ \E p \in {"undefining", "purgeable"} : Goto(c, p)
          /\ UNCHANGED failures \/ Failing
      BY <1>10 DEF PurgeCheck, Failing
    <3> QED BY <3>1, FaultFacts DEF TypeInv
  <2>2. CASE UNCHANGED call
    BY <2>1, <2>2, SameRows
  <2> QED BY <2>1, <2>2, PcFacts, QuietMove DEF HandlerPcs
<1>11. ASSUME NEW c \in Calls, PurgeRemove(c) PROVE RowsInv'
  <2>1. PICK p \in {"purging"} : Goto(c, p)
    BY <1>11 DEF PurgeRemove
  <2>2. /\ call[c].pc = "purgeable" /\ mix' = mix /\ row' = row /\ dom' = dom
        /\ failures' = 0 => failures = 0
    BY <1>11 DEF PurgeRemove
  <2> QED BY <2>1, <2>2, PcFacts, QuietMove DEF HandlerPcs
<1>12. ASSUME NEW c \in Calls, PurgeUndefine(c) PROVE RowsInv'
  BY <1>12, PurgeUndefineKeeps
<1>13. ASSUME NEW c \in Calls, PurgeRow(c) PROVE RowsInv'
  BY <1>13, PurgeRowKeeps
<1>14. ASSUME NEW c \in Calls, Begin(c) PROVE RowsInv'
  <2>1. /\ Goto(c, FirstStep(call[c].kind)) /\ call[c].pc = "queued"
        /\ UNCHANGED <<mix, row, dom, failures>>
    BY <1>14 DEF Begin
  <2>2. call[c].kind \in Submitted
    BY <2>1 DEF TypeInv, KindInv, Fits
  <2>3. FirstStep(call[c].kind) \in {"newvol", "source", "imgvol", "delread", "pool", "finread"}
    BY <2>2 DEF Submitted, FirstStep
  <2> QED BY <2>1, <2>3, PcFacts, QuietMove DEF HandlerPcs
<1>15. ASSUME NEW c \in Calls, CreateVols(c) PROVE RowsInv'
  <2>1. PICK p \in {"done", "newrow"} : Goto(c, p)
    BY <1>15, CreateVolsGoes
  <2>2. /\ call[c].pc = "newvol" /\ mix' = mix /\ row' = row /\ dom' = dom
        /\ failures' = 0 => failures = 0
    BY <1>15, CreateVolsFacts, FaultFacts DEF CreateVols, TypeInv
  <2> QED BY <2>1, <2>2, PcFacts, QuietMove DEF HandlerPcs
<1>16. ASSUME NEW c \in Calls, CreateRow(c) PROVE RowsInv'
  BY <1>16, CreateRowKeeps
<1>17. ASSUME NEW c \in Calls, CreateDefine(c) PROVE RowsInv'
  BY <1>17, CreateDefineKeeps
<1>18. ASSUME NEW c \in Calls, CloneSource(c) PROVE RowsInv'
  <2>1. PICK p \in {"clonevol", "done"} : Goto(c, p)
    BY <1>18 DEF CloneSource
  <2>2. /\ call[c].pc = "source" /\ mix' = mix /\ row' = row /\ dom' = dom
        /\ failures' = 0 => failures = 0
    BY <1>18 DEF CloneSource
  <2> QED BY <2>1, <2>2, PcFacts, QuietMove DEF HandlerPcs
<1>19. ASSUME NEW c \in Calls, CloneVolume(c) PROVE RowsInv'
  <2>1. PICK p \in {"clonedef", "done"} : Goto(c, p)
    BY <1>19 DEF CloneVolume, Link
  <2>2. /\ call[c].pc = "clonevol" /\ mix' = mix /\ row' = row /\ dom' = dom
        /\ failures' = 0 => failures = 0
    BY <1>19 DEF CloneVolume
  <2> QED BY <2>1, <2>2, PcFacts, QuietMove DEF HandlerPcs
<1>20. ASSUME NEW c \in Calls, CloneDefine(c) PROVE RowsInv'
  BY <1>20, CloneDefineKeeps
<1>21. ASSUME NEW c \in Calls, CloneRow(c) PROVE RowsInv'
  BY <1>21, CloneRowKeeps
<1>22. ASSUME NEW c \in Calls, ImageVolume(c) PROVE RowsInv'
  <2>1. PICK p \in {"imgdef", "done"} : Goto(c, p)
    BY <1>22 DEF ImageVolume, Link
  <2>2. /\ call[c].pc = "imgvol" /\ mix' = mix /\ row' = row /\ dom' = dom
        /\ failures' = 0 => failures = 0
    BY <1>22 DEF ImageVolume
  <2> QED BY <2>1, <2>2, PcFacts, QuietMove DEF HandlerPcs
<1>23. ASSUME NEW c \in Calls, ImageDefine(c) PROVE RowsInv'
  BY <1>23, ImageDefineKeeps
<1>24. ASSUME NEW c \in Calls, ImageRow(c) PROVE RowsInv'
  BY <1>24, ImageRowKeeps
<1>25. ASSUME NEW c \in Calls, DeleteRead(c) PROVE RowsInv'
  BY <1>25, DeleteReadKeeps
<1>26. ASSUME NEW c \in Calls, DeleteUndefine(c) PROVE RowsInv'
  BY <1>26, DeleteUndefineKeeps
<1>27. ASSUME NEW c \in Calls, DeleteGuard(c) PROVE RowsInv'
  <2>1. PICK p \in {"delvols"} : Goto(c, p)
    BY <1>27 DEF DeleteGuard
  <2>2. /\ call[c].pc = "guard" /\ mix' = mix /\ row' = row /\ dom' = dom
        /\ failures' = 0 => failures = 0
    BY <1>27, FaultFacts DEF DeleteGuard, TypeInv
  <2> QED BY <2>1, <2>2, PcFacts, QuietMove DEF HandlerPcs
<1>28. ASSUME NEW c \in Calls, DeleteVolumes(c) PROVE RowsInv'
  <2>1. PICK p \in {"delrow"} : Goto(c, p)
    BY <1>28 DEF DeleteVolumes
  <2>2. /\ call[c].pc = "delvols" /\ mix' = mix /\ row' = row /\ dom' = dom
        /\ failures' = 0 => failures = 0
    BY <1>28 DEF DeleteVolumes
  <2> QED BY <2>1, <2>2, PcFacts, QuietMove DEF HandlerPcs
<1>29. ASSUME NEW c \in Calls, DeleteRow(c) PROVE RowsInv'
  BY <1>29, DeleteRowKeeps
<1>30. ASSUME NEW c \in Calls, CleanupPool(c) PROVE RowsInv'
  <2>1. PICK p \in {"refs"} : Goto(c, p)
    BY <1>30 DEF CleanupPool
  <2>2. /\ call[c].pc = "pool" /\ mix' = mix /\ row' = row /\ dom' = dom
        /\ failures' = 0 => failures = 0
    BY <1>30 DEF CleanupPool, CleanupRead
  <2> QED BY <2>1, <2>2, PcFacts, QuietMove DEF HandlerPcs
<1>31. ASSUME NEW c \in Calls, CleanupRefs(c) PROVE RowsInv'
  <2>1. PICK p \in {"doms", "done"} : Goto(c, p)
    BY <1>31 DEF CleanupRefs, CleanupRead
  <2>2. /\ call[c].pc = "refs" /\ mix' = mix /\ row' = row /\ dom' = dom
        /\ failures' = 0 => failures = 0
    BY <1>31, FaultFacts DEF CleanupRefs, CleanupRead, TypeInv
  <2> QED BY <2>1, <2>2, PcFacts, QuietMove DEF HandlerPcs
<1>32. ASSUME NEW c \in Calls, CleanupDomains(c) PROVE RowsInv'
  <2>1. PICK p \in {"sweep", "done"} : Goto(c, p)
    BY <1>32 DEF CleanupDomains, CleanupRead
  <2>2. /\ call[c].pc = "doms" /\ mix' = mix /\ row' = row /\ dom' = dom
        /\ failures' = 0 => failures = 0
    BY <1>32, FaultFacts DEF CleanupDomains, CleanupRead, TypeInv
  <2> QED BY <2>1, <2>2, PcFacts, QuietMove DEF HandlerPcs
<1>33. ASSUME NEW c \in Calls, CleanupSweep(c) PROVE RowsInv'
  <2>1. PICK p \in {"done"} : Goto(c, p)
    BY <1>33 DEF CleanupSweep
  <2>2. /\ call[c].pc = "sweep" /\ mix' = mix /\ row' = row /\ dom' = dom
        /\ failures' = 0 => failures = 0
    BY <1>33 DEF CleanupSweep, CleanupRead
  <2> QED BY <2>1, <2>2, PcFacts, QuietMove DEF HandlerPcs
<1>34. ASSUME NEW c \in Calls, FinalizeRead(c) PROVE RowsInv'
  <2>1. PICK p \in {"sysprep", "done"} : Goto(c, p) /\ (p = "sysprep" => row[call[c].vm].life = "live")
    BY <1>34 DEF FinalizeRead
  <2>2. call[c].pc = "finread" /\ UNCHANGED <<mix, row, dom, failures>>
    BY <1>34 DEF FinalizeRead
  <2> QED BY <2>1, <2>2, PcFacts, QuietMove DEF HandlerPcs
<1>35. ASSUME NEW c \in Calls, Sysprep(c) PROVE RowsInv'
  <2>1. PICK p \in {"finundef", "done"} : Goto(c, p)
    BY <1>35 DEF Sysprep
  <2>2. /\ call[c].pc = "sysprep" /\ mix' = mix /\ row' = row /\ dom' = dom
        /\ failures' = 0 => failures = 0
    BY <1>35, FaultFacts DEF Sysprep, TypeInv
  <2> QED BY <2>1, <2>2, PcFacts, QuietMove DEF HandlerPcs
<1>36. ASSUME NEW c \in Calls, FinalizeUndefine(c) PROVE RowsInv'
  BY <1>36, FinalizeUndefineKeeps
<1>37. ASSUME NEW c \in Calls, FinalizeRow(c) PROVE RowsInv'
  BY <1>37, FinalizeRowKeeps
<1>38. ASSUME NEW c \in Calls, RegisterImage(c) PROVE RowsInv'
  <2>1. PICK p \in {"done"} : Goto(c, p)
    BY <1>38 DEF RegisterImage
  <2>2. /\ call[c].pc = "register" /\ mix' = mix /\ row' = row /\ dom' = dom
        /\ failures' = 0 => failures = 0
    BY <1>38, FaultFacts DEF RegisterImage, TypeInv
  <2> QED BY <2>1, <2>2, PcFacts, QuietMove DEF HandlerPcs
<1>39. CASE UNCHANGED vars
  BY <1>39, SameRows DEF vars
<1> QED
  BY <1>1, <1>2, <1>3, <1>4, <1>5, <1>6, <1>7, <1>8, <1>9, <1>10, <1>11, <1>12, <1>13, <1>14,
     <1>15, <1>16, <1>17, <1>18, <1>19, <1>20, <1>21, <1>22, <1>23, <1>24, <1>25, <1>26,
     <1>27, <1>28, <1>29, <1>30, <1>31, <1>32, <1>33, <1>34, <1>35, <1>36, <1>37, <1>38,
     <1>39 DEF Next, Handler, Executor

\* Once the calls are settled, the invariant says that rows and domains match.
LEMMA RowsSettled == ASSUME TypeInv, RowsInv PROVE RowsMatchDomains
<1> SUFFICES ASSUME Settled PROVE RowsMatchDomains
  BY DEF RowsMatchDomains
<1>1. \A c \in Calls : call[c].pc \notin HandlerPcs \cup TaskPcs
  BY DEF Settled, Handling, Tasked
<1>2. \A n \in Names : dom[n].uuid # None =>
        row[dom[n].uuid].life = "live" /\ row[dom[n].uuid].name = n
  <2> SUFFICES ASSUME NEW n \in Names, dom[n].uuid # None
               PROVE  row[dom[n].uuid].life = "live" /\ row[dom[n].uuid].name = n
    OBVIOUS
  <2>1. dom[n].uuid = Old \/ dom[n].uuid \in Calls
    BY StoreFacts DEF TypeInv, VMs
  <2>2. row[dom[n].uuid].life = "live"
    BY <1>1 DEF RowsInv, DomInv, TaskPcs
  <2> QED BY <2>1, <2>2 DEF RowsInv, DomInv, NameInv, NameOf
<1>3. failures = 0 => \A v \in VMs : row[v].life = "live" => dom[row[v].name].uuid = v
  BY <1>1 DEF RowsInv, MatchInv, Limbo, HandlerPcs, TaskPcs
<1> QED BY <1>2, <1>3 DEF RowsMatchDomains

\* The invariant holds at the start.
LEMMA RowsStart == ASSUME Init PROVE RowsInv
<1>1. /\ row[Old].name = OldName /\ row[Old].life = "live" /\ Old \in VMs
      /\ \A v \in VMs : v # Old => row[v].life = "none"
  BY DEF Init, NoRow, VMs
<1>2. /\ dom[OldName].uuid = Old /\ dom[OldName].disks = Disks(OldName, "")
      /\ \A n \in Names : n # OldName => dom[n].uuid = None
  BY BoundAssumption DEF Init, NoDomain
<1>3. \A c \in Calls : /\ call[c].pc = "idle" /\ call[c].name = None /\ call[c].vm = None
                       /\ c \in VMs /\ c # Old
  BY OldAssumption DEF Init, VMs
<1>4. OldName # None /\ Old # None /\ Disks(OldName, "") # {}
  BY BoundAssumption, NoneAssumption DEF Disks, VMs
<1>5. NameInv
  BY <1>1, <1>3, <1>4 DEF NameInv
<1>6. DomInv
  BY <1>1, <1>2, <1>3, <1>4, OldAssumption DEF DomInv, NameOf
<1>7. LifeInv
  BY <1>3 DEF LifeInv, Handling, HandlerPcs
<1>8. MatchInv
  BY <1>1, <1>2 DEF MatchInv
<1>9. ArchiveInv
  BY <1>1, <1>3 DEF ArchiveInv
<1> QED BY <1>5, <1>6, <1>7, <1>8, <1>9 DEF RowsInv

\* RowsMatchDomains: whatever the mix, the number of failures and of calls, when nothing is at
\* work every domain belongs to a live row of its name, and without failures every live row has
\* its domain, provided that requests that make, restore or finalize machines take turns.
THEOREM RowsMatch == ASSUME SerialMixes PROVE Spec => []RowsMatchDomains
<1>1. Init => RowsInv
  BY RowsStart
<1>2. TypeInv /\ SerialInv /\ RowsInv /\ [Next]_vars => RowsInv'
  BY RowsStep
<1>3. TypeInv /\ RowsInv => RowsMatchDomains
  BY RowsSettled
<1>4. Spec => []TypeInv
  BY TypeAlways
<1>5. Spec => []SerialInv
  BY SerialAlways
<1> QED BY <1>1, <1>2, <1>3, <1>4, <1>5, PTL DEF Spec

(***************************************************************************)
(* Volumes                                                                 *)
(***************************************************************************)
\* A volume of this name that is not the second disk of a machine.
Own(n, x) == x[1] = n /\ x[2] # "-d2"

\* The name of a machine that is made, whatever became of it since.
Known(n) == \E v \in VMs : /\ row[v].life # "none" /\ row[v].name = n
                           /\ v \in Calls => call[v].pc = "done"

\* Machines become templates and none is deleted.
Templates == "finalize" \in mix.kinds /\ "delete" \notin mix.kinds

\* Disks carry the name of their machine, in the definition and in the archive of the row.
NamedInv ==
  /\ \A n \in Names : \A x \in dom[n].disks : Own(n, x)
  /\ \A n \in Names : dom[n].uuid = None => dom[n].disks = {}
  /\ \A v \in VMs : \A x \in row[v].archive : Own(row[v].name, x)

\* A volume with a child exists, and its machine is made.
ChainInv == ParentKept /\ \A p \in Parents : Known(p[1])

\* The machine of a template is made, and has no domain again; where none is deleted its row
\* is gone for good.
ImageInv ==
  /\ images # {} => "finalize" \in mix.kinds
  /\ \A x \in images : Known(x[1]) /\ dom[x[1]].uuid = None
  /\ Templates => \A x \in images : \A v \in VMs :
       row[v].name = x[1] => row[v].life \in {"none", "gone"}

\* What a request has read, and what of it is still true.
HeldInv(c) ==
  LET n == row[call[c].vm].name IN
  /\ call[c].pc \in {"clonevol", "clonedef", "undefine", "guard", "delvols", "sysprep",
                     "finundef", "finrow", "register"} =>
       \A x \in loc[c].disks : Own(n, x)
  /\ call[c].pc \in {"purging", "purgeable"} => \A x \in loc[c].set : x[1] = n
  /\ call[c].pc = "purgeable" =>
       \A x \in loc[c].disks : x[1] = n /\ x \notin Parents /\ x \notin dom[n].disks
  /\ call[c].pc = "delvols" => \A x \in Parents : x[1] = n => x \in loc[c].set
  /\ call[c].pc \in {"doms", "sweep"} => \A x \in loc[c].set : x \notin Parents
  /\ call[c].pc = "sweep" => \A x \in loc[c].set : \A m \in Names : x \notin dom[m].disks
  /\ call[c].pc = "register" => dom[n].uuid = None
  /\ call[c].pc \in {"newrow", "newdef"} =>
       \A x \in loc[c].disks \cup loc[c].set : Own(call[c].name, x)
Reading == {"newrow", "newdef", "clonevol", "clonedef", "undefine", "guard", "delvols", "sysprep", "finundef",
            "finrow", "register", "purging", "purgeable", "doms", "sweep"}

\* Where machines become templates: what a handler or a task knows of the row it works on.
TurnFor(c) ==
  Templates =>
    /\ Handling(c) /\ call[c].kind = "purge" => row[call[c].vm].life = "bin"
    /\ call[c].pc \in {"sysprep", "finundef", "finrow"} =>
         row[call[c].vm].life \in {"live", "gone"}
    /\ call[c].pc = "register" => row[call[c].vm].life = "gone"

DisksInv == NamedInv /\ ChainInv /\ ImageInv /\ \A c \in Calls : HeldInv(c) /\ TurnFor(c)

\* No step removes what a domain mounts after it.
Unmounted == \A x \in vols \ vols' : \A n \in Names : x \notin dom'[n].disks

\* What a step of call c starts from, and what it leaves.
SoundBefore == /\ SerialMixes /\ DiskMixes /\ ~TwoDisks
               /\ TypeInv /\ SerialInv /\ RowsInv /\ DisksInv
Sound == DisksInv' /\ Unmounted

\* A step moves one call, and the others keep what they hold.
Moves(c, p) ==
  /\ mix' = mix /\ call[c].pc # "done" /\ call'[c].pc = p
  /\ \A d \in Calls : d # c \/ call[c].pc # "idle" =>
       call'[d].kind = call[d].kind /\ call'[d].vm = call[d].vm /\ call'[d].name = call[d].name
  /\ \A d \in Calls : d # c => call'[d].pc = call[d].pc /\ loc'[d] = loc[d]

\* Goto is such a move.
LEMMA MovesBy ==
  ASSUME VType, NEW c \in Calls, NEW p \in Pcs, Goto(c, p), mix' = mix,
         call[c].pc # "done", \A d \in Calls : d # c => loc'[d] = loc[d]
  PROVE  Moves(c, p)
BY GotoFacts DEF Moves

\* What DiskMixes says of the scenario.
LEMMA DiskMixFacts ==
  ASSUME DiskMixes, VType
  PROVE  /\ "cleanup" \in mix.kinds =>
              mix.kinds \cap {"create", "clone", "image", "restore"} = {}
         /\ {"delete", "finalize"} \subseteq mix.kinds =>
              "image" \notin mix.kinds /\ "image" \notin mix.sources
         /\ "file" \notin mix.sources
<1>1. /\ "cleanup" \in mix.kinds => mix.kinds \cap (Makes \cup {"restore"}) = {}
      /\ {"delete", "finalize"} \subseteq mix.kinds => "image" \notin mix.kinds \cup mix.sources
      /\ "file" \notin mix.sources
  BY DEF DiskMixes, VType
<1> QED BY <1>1 DEF Makes

\* Where a request is tells its kind, and that the scenario has it.
LEMMA PlaceFacts ==
  ASSUME TypeInv, NEW c \in Calls
  PROVE  /\ call[c].pc \in {"newvol", "newrow", "newdef"} => "create" \in mix.kinds
         /\ call[c].pc \in {"source", "clonevol", "clonedef", "clonerow"} =>
              call[c].kind = "clone" /\ "clone" \in mix.kinds /\ Tasked(c)
         /\ call[c].pc \in {"imgvol", "imgdef", "imgrow"} => "image" \in mix.kinds
         /\ call[c].pc \in {"unlisted", "restored"} =>
              call[c].kind = "restore" /\ "restore" \in mix.kinds /\ Handling(c)
         /\ call[c].pc \in {"purging", "purgeable", "undefining", "erasing"} =>
              call[c].kind = "purge" /\ Handling(c)
         /\ call[c].pc \in {"delread", "undefine", "guard", "delvols", "delrow"} =>
              call[c].kind = "delete" /\ "delete" \in mix.kinds /\ Tasked(c)
         /\ call[c].pc \in {"pool", "refs", "doms", "sweep"} => "cleanup" \in mix.kinds
         /\ call[c].pc \in {"finread", "sysprep", "finundef", "finrow", "register"} =>
              call[c].kind = "finalize" /\ "finalize" \in mix.kinds /\ Tasked(c)
<1>1. Fits(call[c].kind, call[c].pc) /\ (call[c].pc # "idle" => call[c].kind \in mix.kinds)
  BY DEF TypeInv, KindInv
<1>2. /\ call[c].pc \in {"newvol", "newrow", "newdef"} => call[c].kind = "create"
      /\ call[c].pc \in {"source", "clonevol", "clonedef", "clonerow"} => call[c].kind = "clone"
      /\ call[c].pc \in {"imgvol", "imgdef", "imgrow"} => call[c].kind = "image"
      /\ call[c].pc \in {"unlisted", "restored"} => call[c].kind = "restore"
      /\ call[c].pc \in {"purging", "purgeable", "undefining", "erasing"} => call[c].kind = "purge"
      /\ call[c].pc \in {"delread", "undefine", "guard", "delvols", "delrow"} =>
           call[c].kind = "delete"
      /\ call[c].pc \in {"pool", "refs", "doms", "sweep"} => call[c].kind = "cleanup"
      /\ call[c].pc \in {"finread", "sysprep", "finundef", "finrow", "register"} =>
           call[c].kind = "finalize"
  BY <1>1 DEF Fits
<1> QED BY <1>1, <1>2 DEF Handling, Tasked, HandlerPcs, TaskPcs

\* A name stays known.
LEMMA KnownStays ==
  ASSUME NEW c \in Calls, NEW p, Moves(c, p),
         \A v \in VMs : row[v].life # "none" => row'[v].life # "none" /\ row'[v].name = row[v].name,
         NEW n, Known(n)
  PROVE  Known(n)'
<1>1. PICK v \in VMs : /\ row[v].life # "none" /\ row[v].name = n
                       /\ v \in Calls => call[v].pc = "done"
  BY DEF Known
<1>2. v \in Calls => call'[v].pc = "done"
  BY <1>1 DEF Moves
<1> QED BY <1>1, <1>2 DEF Known

\* Children only go.
LEMMA FewerParents ==
  ASSUME vols' \subseteq vols, backing' = backing
  PROVE  Parents' \subseteq Parents
BY DEF Parents

\* What another request holds stays true, as long as what is new among parents and domains
\* is not its machine's.
LEMMA HeldStays ==
  ASSUME NEW c \in Calls, NEW p, Moves(c, p), NEW d \in Calls, d # c, HeldInv(d), NamedInv',
         TypeInv, call[d].vm # None => row'[call[d].vm].name = row[call[d].vm].name,
         \A x \in Parents' : x \notin Parents =>
           /\ call[d].pc \in {"purgeable", "delvols"} => x[1] # row[call[d].vm].name
           /\ call[d].pc \notin {"doms", "sweep"},
         \A n \in Names : dom'[n] # dom[n] /\ dom'[n].uuid # None =>
           /\ call[d].pc \in {"purgeable", "register"} => n # row[call[d].vm].name
           /\ call[d].pc # "sweep"
  PROVE  HeldInv(d)'
<1> DEFINE n == row[call[d].vm].name
<1>1. /\ call'[d].pc = call[d].pc /\ call'[d].vm = call[d].vm /\ loc'[d] = loc[d]
      /\ call'[d].name = call[d].name
  BY DEF Moves
<1>2. call[d].pc \in Reading \ {"doms", "sweep", "newrow", "newdef"} => row'[call'[d].vm].name = n
  BY <1>1, ArgFacts, NoneAssumption DEF TypeInv, Reading
<1>3. call[d].pc \in {"purgeable", "register"} => n \in Names
  BY ArgFacts DEF TypeInv
<1>4. \A m \in Names : dom'[m].uuid = None => dom'[m].disks = {}
  BY DEF NamedInv
<1>5. call[d].pc = "purgeable" =>
        \A x \in loc[d].disks : x[1] = n /\ x \notin Parents' /\ x \notin dom'[n].disks
  <2> SUFFICES ASSUME call[d].pc = "purgeable", NEW x \in loc[d].disks
               PROVE  x[1] = n /\ x \notin Parents' /\ x \notin dom'[n].disks
    OBVIOUS
  <2>1. x[1] = n /\ x \notin Parents /\ x \notin dom[n].disks
    BY DEF HeldInv
  <2>2. dom'[n] = dom[n] \/ dom'[n].uuid = None
    BY <1>3
  <2>3. x \notin dom'[n].disks
    BY <1>3, <1>4, <2>1, <2>2
  <2> QED BY <2>1, <2>3
<1>6. call[d].pc = "delvols" => \A x \in Parents' : x[1] = n => x \in loc[d].set
  BY DEF HeldInv
<1>7. call[d].pc \in {"doms", "sweep"} => \A x \in loc[d].set : x \notin Parents'
  BY DEF HeldInv
<1>8. call[d].pc = "sweep" => \A x \in loc[d].set : \A m \in Names : x \notin dom'[m].disks
  <2> SUFFICES ASSUME call[d].pc = "sweep", NEW x \in loc[d].set, NEW m \in Names
               PROVE  x \notin dom'[m].disks
    OBVIOUS
  <2>1. dom'[m] = dom[m] \/ dom'[m].uuid = None
    OBVIOUS
  <2> QED BY <1>4, <2>1 DEF HeldInv
<1>9. call[d].pc = "register" => dom'[n].uuid = None
  BY <1>3 DEF HeldInv
<1>10. /\ call[d].pc \in {"clonevol", "clonedef", "undefine", "guard", "delvols", "sysprep",
                          "finundef", "finrow", "register"} =>
            \A x \in loc[d].disks : Own(n, x)
       /\ call[d].pc \in {"purging", "purgeable"} => \A x \in loc[d].set : x[1] = n
       /\ call[d].pc \in {"newrow", "newdef"} =>
            \A x \in loc[d].disks \cup loc[d].set : Own(call[d].name, x)
  BY DEF HeldInv
<1> HIDE DEF n
<1> QED BY <1>1, <1>2, <1>5, <1>6, <1>7, <1>8, <1>9, <1>10 DEF HeldInv, Own, Reading

\* A request that has read nothing, or what it read is behind it.
LEMMA HeldFree ==
  ASSUME NEW c \in Calls, NEW p, Moves(c, p), p \notin Reading
  PROVE  HeldInv(c)'
BY DEF HeldInv, Moves, Reading

\* What a request knows of the row it works on.
LEMMA TurnStays ==
  ASSUME TypeInv, NEW c \in Calls, NEW p, Moves(c, p), NEW d \in Calls, TurnFor(d),
         Templates /\ call[d].vm # None => row'[call[d].vm].life = row[call[d].vm].life,
         d = c => /\ call[c].pc # "idle"
                  /\ p \in HandlerPcs => call[c].pc \in HandlerPcs
                  /\ p \in {"sysprep", "finundef", "finrow"} =>
                       \/ call[c].pc \in {"sysprep", "finundef", "finrow"}
                       \/ call[c].pc = "finread" /\ row[call[c].vm].life = "live"
                  /\ p # "register"
  PROVE  TurnFor(d)'
<1>1. /\ call'[d].vm = call[d].vm /\ call'[d].kind = call[d].kind
      /\ d # c => call'[d].pc = call[d].pc
      /\ d = c => call'[d].pc = p
      /\ Templates' <=> Templates
  BY DEF Moves, Templates
<1>2. /\ call[d].pc \in HandlerPcs => call[d].vm # None
      /\ call[d].pc \in {"sysprep", "finundef", "finrow", "register", "finread"} =>
           call[d].vm # None
  BY ArgFacts, NoneAssumption DEF TypeInv, HandlerPcs
<1> QED BY <1>1, <1>2 DEF TurnFor, Handling

\* A step that changes neither rows nor domains nor templates, and removes no volume that has
\* a child or is mounted.
LEMMA Fewer ==
  ASSUME SoundBefore, NEW c \in Calls, NEW p, Moves(c, p),
         row' = row, dom' = dom, images' = images, backing' = backing, vols' \subseteq vols,
         \A x \in vols \ vols' : x \notin Parents' /\ \A n \in Names : x \notin dom[n].disks,
         HeldInv(c)', TurnFor(c)'
  PROVE  Sound
<1>1. Parents' \subseteq Parents
  BY FewerParents
<1>2. \A n : Known(n) => Known(n)'
  BY KnownStays
<1>3. mix' = mix /\ (Templates' <=> Templates)
  BY DEF Moves, Templates
<1>4. NamedInv'
  BY DEF SoundBefore, DisksInv, NamedInv, Own
<1>5. ParentKept'
  <2> SUFFICES ASSUME NEW x \in vols', backing[x] # None PROVE backing[x] \in vols'
    BY DEF ParentKept
  <2>1. backing[x] \in Parents'
    BY DEF Parents
  <2>2. backing[x] \in vols
    BY DEF SoundBefore, DisksInv, ChainInv, ParentKept
  <2> QED BY <2>1, <2>2
<1>6. ChainInv'
  BY <1>1, <1>2, <1>5 DEF SoundBefore, DisksInv, ChainInv
<1>7. ImageInv'
  BY <1>2, <1>3 DEF SoundBefore, DisksInv, ImageInv
<1>8. \A d \in Calls : HeldInv(d)' /\ TurnFor(d)'
  <2> SUFFICES ASSUME NEW d \in Calls, d # c PROVE HeldInv(d)' /\ TurnFor(d)'
    OBVIOUS
  <2>1. HeldInv(d)'
    BY <1>1, <1>4, HeldStays DEF SoundBefore, DisksInv
  <2>2. TurnFor(d)'
    BY TurnStays DEF SoundBefore, DisksInv
  <2> QED BY <2>1, <2>2
<1> QED BY <1>4, <1>6, <1>7, <1>8 DEF Sound, DisksInv, Unmounted

\* A step that touches none of the stores.
LEMMA Still ==
  ASSUME SoundBefore, NEW c \in Calls, NEW p, Moves(c, p),
         UNCHANGED <<row, dom, images, backing, vols>>, HeldInv(c)', TurnFor(c)'
  PROVE  Sound
BY Fewer

\* Nothing happens.
LEMMA Idle ==
  ASSUME DisksInv, UNCHANGED <<mix, row, dom, vols, backing, images, call, loc>>
  PROVE  Sound
<1>1. NamedInv' /\ ImageInv' /\ ChainInv'
  BY DEF DisksInv, NamedInv, ImageInv, ChainInv, ParentKept, Parents, Known, Own, Templates
<1>2. \A d \in Calls : HeldInv(d)' /\ TurnFor(d)'
  BY DEF DisksInv, HeldInv, TurnFor, Handling, Templates, Parents, Own
<1> QED BY <1>1, <1>2 DEF Sound, DisksInv, Unmounted

\* A request that arrives has read nothing but a row.
LEMMA ArriveSound == ASSUME SoundBefore, NEW c \in Calls, Arrive(c) PROVE Sound
<1>1. PICK k \in mix.kinds, v \in VMs \cup {None} :
        /\ \A d \in Calls : d # c => call'[d] = call[d]
        /\ call'[c].pc = (IF k \in Locks THEN "found" ELSE "queued")
        /\ call'[c].kind = k /\ call'[c].vm = v
        /\ k \in {"create", "image", "cleanup"} <=> v = None
        /\ v # None => row[v].life = IF k \in {"restore", "purge"} THEN "bin" ELSE "live"
  BY ArriveFacts DEF SoundBefore, TypeInv
<1>2. PICK p \in {"found", "queued"} : p = IF k \in Locks THEN "found" ELSE "queued"
  OBVIOUS
<1>3. call[c].pc = "idle" /\ UNCHANGED <<mix, row, dom, images, backing, vols, loc>>
  BY DEF Arrive
<1>4. Moves(c, p)
  BY <1>1, <1>2, <1>3 DEF Moves
<1>5. HeldInv(c)'
  BY <1>4, HeldFree DEF Reading
<1>6. TurnFor(c)'
  BY <1>1, <1>2, <1>3 DEF TurnFor, Handling
<1> QED BY <1>3, <1>4, <1>5, <1>6, Still

\* Steps of handlers that touch none of the stores.
LEMMA HandlerStill ==
  ASSUME SoundBefore, NEW c \in Calls, NEW p \in Pcs \ Reading, Goto(c, p),
         UNCHANGED <<mix, row, dom, images, backing, vols>>,
         \A d \in Calls : d # c => loc'[d] = loc[d],
         call[c].pc \notin {"idle", "done"}, p \in HandlerPcs => call[c].pc \in HandlerPcs
  PROVE  Sound
<1>1. Moves(c, p)
  BY MovesBy DEF SoundBefore, TypeInv
<1>2. HeldInv(c)'
  BY <1>1, HeldFree
<1>3. p \notin {"sysprep", "finundef", "finrow", "register"}
  BY DEF Reading
<1>4. TurnFor(c)'
  BY <1>1, <1>3, TurnStays DEF SoundBefore, DisksInv
<1> QED BY <1>1, <1>2, <1>4, Still

\* Guards, locks and the way into the queue and out of it.
LEMMA GateSound ==
  ASSUME SoundBefore, NEW c \in Calls,
         \/ GuardVMIdle(c) \/ LockVM(c) \/ SubmitTask(c) \/ RebootDomain(c) \/ RestoreCheck(c)
         \/ Begin(c)
  PROVE  Sound
<1>1. CASE ~Begin(c)
  <2>1. PICK p \in {"done", "free", "held", "queued", "unlisted"} : Goto(c, p)
    BY <1>1 DEF GuardVMIdle, LockVM, SubmitTask, RebootDomain, RestoreCheck
  <2>2. /\ UNCHANGED <<mix, row, dom, images, backing, vols, loc>>
        /\ call[c].pc \in {"found", "free", "held"}
    BY <1>1 DEF GuardVMIdle, LockVM, SubmitTask, RebootDomain, RestoreCheck
  <2>3. p \in Pcs \ Reading
    BY PcFacts DEF Reading
  <2> QED BY <2>1, <2>2, <2>3, HandlerStill DEF HandlerPcs
<1>2. CASE Begin(c)
  <2>1. /\ Goto(c, FirstStep(call[c].kind)) /\ call[c].pc = "queued"
        /\ UNCHANGED <<mix, row, dom, images, backing, vols, loc>>
    BY <1>2 DEF Begin
  <2>2. call[c].kind \in Submitted
    BY <2>1 DEF SoundBefore, TypeInv, KindInv, Fits
  <2>3. PICK p \in {"newvol", "source", "imgvol", "delread", "pool", "finread"} :
          p = FirstStep(call[c].kind)
    BY <2>2 DEF Submitted, FirstStep
  <2>4. p \in Pcs \ Reading /\ p \notin HandlerPcs
    BY PcFacts DEF Reading, HandlerPcs
  <2> QED BY <2>1, <2>3, <2>4, HandlerStill
<1> QED BY <1>1, <1>2

\* A purge lists the files of its machine, or goes straight for the domain.
LEMMA PurgeStartSound == ASSUME SoundBefore, NEW c \in Calls, PurgeStart(c) PROVE Sound
<1>1. /\ call[c].pc = "held" /\ UNCHANGED <<mix, row, dom, images, backing, vols>>
      /\ \A d \in Calls : d # c => loc'[d] = loc[d]
  BY DEF PurgeStart, SoundBefore, TypeInv, VType
<1>2. CASE Goto(c, "undefining")
  BY <1>1, <1>2, PcFacts, HandlerStill DEF Reading, HandlerPcs
<1>3. CASE /\ Goto(c, "purging")
           /\ loc' = [loc EXCEPT ![c].set =
                {x \in Volumes : x[1] = row[call[c].vm].name /\ x[2] # "-d2"}]
  <2>1. Moves(c, "purging")
    BY <1>1, <1>3, PcFacts, MovesBy DEF SoundBefore, TypeInv
  <2>2. loc'[c].set = {x \in Volumes : x[1] = row[call[c].vm].name /\ x[2] # "-d2"}
    BY <1>3 DEF SoundBefore, TypeInv, VType, LocType
  <2>3. HeldInv(c)'
    BY <1>1, <2>1, <2>2 DEF HeldInv, Moves
  <2>4. TurnFor(c)'
    BY <1>1, <2>1, TurnStays DEF SoundBefore, DisksInv, HandlerPcs
  <2> QED BY <1>1, <2>1, <2>3, <2>4, Still
<1> QED BY <1>2, <1>3 DEF PurgeStart

\* A purge looks at one file of its machine: it has neither child nor domain, or it is kept.
LEMMA PurgeCheckSound == ASSUME SoundBefore, NEW c \in Calls, PurgeCheck(c) PROVE Sound
<1>1. /\ call[c].pc = "purging" /\ UNCHANGED <<mix, row, dom, images, backing, vols>>
      /\ HeldInv(c)
  BY DEF PurgeCheck, SoundBefore, DisksInv
<1>2. /\ \A x \in loc[c].set : x[1] = row[call[c].vm].name
      /\ row[call[c].vm].name \in Names /\ loc[c] \in LocType
  BY <1>1, ArgFacts DEF HeldInv, SoundBefore, TypeInv, VType
<1>3. CASE Goto(c, "undefining") /\ UNCHANGED loc
  BY <1>1, <1>3, PcFacts, HandlerStill DEF Reading, HandlerPcs
<1>4. ASSUME NEW x \in loc[c].set \cap vols, x \notin images \cup Parents \cup Mounted,
             Goto(c, "purgeable"), loc' = [loc EXCEPT ![c].disks = {x}, ![c].set = @ \ {x}]
      PROVE  Sound
  <2>1. loc'[c].disks = {x} /\ loc'[c].set = loc[c].set \ {x}
        /\ \A d \in Calls : d # c => loc'[d] = loc[d]
    BY <1>2, <1>4 DEF SoundBefore, TypeInv, VType, LocType
  <2>2. Moves(c, "purgeable")
    BY <1>1, <1>4, <2>1, PcFacts, MovesBy DEF SoundBefore, TypeInv
  <2>3. \A m \in Names : x \notin dom[m].disks
    BY <1>4 DEF Mounted
  <2>4. Parents' = Parents
    BY <1>1 DEF Parents
  <2>5. HeldInv(c)'
    <3>1. /\ x[1] = row[call[c].vm].name /\ x \notin Parents'
          /\ x \notin dom[row[call[c].vm].name].disks
          /\ \A y \in loc'[c].set : y[1] = row[call[c].vm].name
      BY <1>2, <1>4, <2>1, <2>3, <2>4
    <3>2. call'[c].pc = "purgeable" /\ call'[c].vm = call[c].vm
      BY <1>1, <2>2 DEF Moves
    <3> QED BY <1>1, <2>1, <3>1, <3>2 DEF HeldInv
  <2>6. TurnFor(c)'
    BY <1>1, <2>2, TurnStays DEF SoundBefore, DisksInv, HandlerPcs
  <2> QED BY <1>1, <2>2, <2>5, <2>6, Still
<1>5. ASSUME NEW x \in loc[c].set, UNCHANGED call, loc' = [loc EXCEPT ![c].set = @ \ {x}]
      PROVE  Sound
  <2>1. loc'[c].set \subseteq loc[c].set /\ \A d \in Calls : d # c => loc'[d] = loc[d]
    BY <1>2, <1>5 DEF SoundBefore, TypeInv, VType, LocType
  <2>2. Moves(c, "purging")
    BY <1>1, <1>5, <2>1 DEF Moves
  <2>3. HeldInv(c)'
    BY <1>1, <1>2, <2>1, <2>2 DEF HeldInv, Moves
  <2>4. TurnFor(c)'
    BY <1>1, <2>2, TurnStays DEF SoundBefore, DisksInv, HandlerPcs
  <2> QED BY <1>1, <2>2, <2>3, <2>4, Still
<1> QED BY <1>3, <1>4, <1>5 DEF PurgeCheck

\* What a purge removes has no child and no domain since it looked.
LEMMA PurgeRemoveSound == ASSUME SoundBefore, NEW c \in Calls, PurgeRemove(c) PROVE Sound
<1>1. /\ call[c].pc = "purgeable" /\ UNCHANGED <<mix, row, dom, images, backing, loc>>
      /\ Goto(c, "purging") /\ vols' = vols \ loc[c].disks /\ HeldInv(c) /\ NamedInv
  BY DEF PurgeRemove, SoundBefore, DisksInv
<1>2. Moves(c, "purging")
  BY <1>1, PcFacts, MovesBy DEF SoundBefore, TypeInv
<1>3. \A x \in vols \ vols' : x \notin Parents /\ \A m \in Names : x \notin dom[m].disks
  <2> SUFFICES ASSUME NEW x \in loc[c].disks
               PROVE  x \notin Parents /\ \A m \in Names : x \notin dom[m].disks
    BY <1>1
  <2>1. x[1] = row[call[c].vm].name /\ x \notin Parents /\ x \notin dom[row[call[c].vm].name].disks
    BY <1>1 DEF HeldInv
  <2> QED BY <1>1, <2>1 DEF NamedInv, Own
<1>4. Parents' \subseteq Parents
  BY <1>1, FewerParents
<1>5. HeldInv(c)'
  BY <1>1, <1>2 DEF HeldInv, Moves
<1>6. TurnFor(c)'
  BY <1>1, <1>2, TurnStays DEF SoundBefore, DisksInv, HandlerPcs
<1> QED BY <1>1, <1>2, <1>3, <1>4, <1>5, <1>6, Fewer

\* A clone reads the definition of its source.
LEMMA CloneSourceSound == ASSUME SoundBefore, NEW c \in Calls, CloneSource(c) PROVE Sound
<1>1. /\ call[c].pc = "source" /\ UNCHANGED <<mix, row, dom, images, backing, vols>>
      /\ row[call[c].vm].name \in Names /\ NamedInv
  BY ArgFacts DEF CloneSource, SoundBefore, DisksInv, TypeInv
<1>2. CASE Goto(c, "done") /\ UNCHANGED loc
  BY <1>1, <1>2, PcFacts, HandlerStill DEF Reading, HandlerPcs
<1>3. CASE Goto(c, "clonevol") /\ loc' = [loc EXCEPT ![c].disks = dom[row[call[c].vm].name].disks]
  <2>1. /\ loc'[c].disks = dom[row[call[c].vm].name].disks
        /\ \A d \in Calls : d # c => loc'[d] = loc[d]
    BY <1>3 DEF SoundBefore, TypeInv, VType, LocType
  <2>2. Moves(c, "clonevol")
    BY <1>1, <1>3, <2>1, PcFacts, MovesBy DEF SoundBefore, TypeInv
  <2>3. HeldInv(c)'
    BY <1>1, <2>1, <2>2 DEF HeldInv, Moves, NamedInv, Own
  <2>4. TurnFor(c)'
    BY <1>1, <2>2, TurnStays DEF SoundBefore, DisksInv, HandlerPcs
  <2> QED BY <1>1, <2>2, <2>3, <2>4, Still
<1> QED BY <1>2, <1>3 DEF CloneSource

\* A deletion keeps what has a child when its guard looks.
LEMMA DeleteGuardSound == ASSUME SoundBefore, NEW c \in Calls, DeleteGuard(c) PROVE Sound
<1>1. /\ call[c].pc = "guard" /\ UNCHANGED <<mix, row, dom, images, backing, vols>>
      /\ Goto(c, "delvols") /\ HeldInv(c)
  BY DEF DeleteGuard, SoundBefore, DisksInv
<1>2. Parents \subseteq Volumes /\ Parents' = Parents
  <2>1. backing \in [Volumes -> Volumes \cup {None}] /\ vols \subseteq Volumes
    BY DEF SoundBefore, TypeInv, VType
  <2> QED BY <1>1, <2>1 DEF Parents
<1>3. PICK s \in {KeepReason, Volumes} : loc' = [loc EXCEPT ![c].set = s]
  BY DEF DeleteGuard
<1>4. /\ loc'[c].set = s /\ loc'[c].disks = loc[c].disks
      /\ \A d \in Calls : d # c => loc'[d] = loc[d]
  BY <1>3 DEF SoundBefore, TypeInv, VType, LocType
<1>5. Moves(c, "delvols")
  BY <1>1, <1>4, PcFacts, MovesBy DEF SoundBefore, TypeInv
<1>6. Parents \subseteq loc'[c].set
  BY <1>2, <1>4 DEF KeepReason
<1>7. HeldInv(c)'
  BY <1>1, <1>2, <1>4, <1>5, <1>6 DEF HeldInv, Moves, Own
<1>8. TurnFor(c)'
  BY <1>1, <1>5, TurnStays DEF SoundBefore, DisksInv, HandlerPcs
<1> QED BY <1>1, <1>5, <1>7, <1>8, Still

\* Nothing that a deletion removes is mounted, its domain is gone; what has a child it keeps.
LEMMA DeleteVolumesSound == ASSUME SoundBefore, NEW c \in Calls, DeleteVolumes(c) PROVE Sound
<1> DEFINE n == row[call[c].vm].name
<1>1. /\ call[c].pc = "delvols" /\ UNCHANGED <<mix, row, dom, images, backing, loc>>
      /\ Goto(c, "delrow") /\ HeldInv(c) /\ NamedInv /\ n \in Names
  BY ArgFacts DEF DeleteVolumes, SoundBefore, DisksInv, TypeInv
<1>2. vols' = vols \ ((loc[c].disks \cup {<<n, "">>, <<n, "-diska">>, <<n, "-sys">>}) \ loc[c].set)
  BY DEF DeleteVolumes
<1>3. Moves(c, "delrow")
  BY <1>1, PcFacts, MovesBy DEF SoundBefore, TypeInv
<1>4. dom[n].uuid = None
  BY <1>1 DEF SoundBefore, RowsInv, DomInv
<1>5. \A x \in vols \ vols' : x \notin Parents /\ \A m \in Names : x \notin dom[m].disks
  <2> SUFFICES ASSUME NEW x \in vols \ vols'
               PROVE  x \notin Parents /\ \A m \in Names : x \notin dom[m].disks
    OBVIOUS
  <2>1. /\ x \notin loc[c].set
        /\ x \in loc[c].disks \/ x \in {<<n, "">>, <<n, "-diska">>, <<n, "-sys">>}
    BY <1>2
  <2>2. \A y \in loc[c].disks : y[1] = n
    BY <1>1 DEF HeldInv, Own
  <2>3. x[1] = n
    <3>1. CASE x \in loc[c].disks
      BY <2>2, <3>1
    <3>2. ASSUME NEW s, x = <<n, s>> PROVE x[1] = n
      BY <3>2
    <3> QED BY <2>1, <3>1, <3>2
  <2>4. x \notin Parents
    BY <1>1, <2>1, <2>3 DEF HeldInv
  <2>5. dom[n].disks = {}
    BY <1>1, <1>4 DEF NamedInv
  <2>6. \A m \in Names : x \notin dom[m].disks
    BY <1>1, <2>3, <2>5 DEF NamedInv, Own
  <2> QED BY <2>4, <2>6
<1>6. vols' \subseteq vols
  BY <1>2
<1>7. Parents' \subseteq Parents
  BY <1>1, <1>6, FewerParents
<1>8. HeldInv(c)'
  BY <1>3, HeldFree DEF Reading
<1>9. TurnFor(c)'
  BY <1>1, <1>3, TurnStays DEF SoundBefore, DisksInv, HandlerPcs
<1> QED BY <1>1, <1>3, <1>5, <1>6, <1>7, <1>8, <1>9, Fewer

\* A clean-up takes out of its list what has a child, then what is mounted.
LEMMA CleanupReadSound ==
  ASSUME SoundBefore, NEW c \in Calls, CleanupPool(c) \/ CleanupRefs(c) \/ CleanupDomains(c)
  PROVE  Sound
<1>1. /\ call[c].pc \in {"pool", "refs", "doms"}
      /\ UNCHANGED <<mix, row, dom, images, backing, vols>> /\ HeldInv(c)
  BY DEF CleanupPool, CleanupRefs, CleanupDomains, CleanupRead, SoundBefore, DisksInv
<1>2. CASE Goto(c, "done") /\ UNCHANGED loc
  BY <1>1, <1>2, PcFacts, HandlerStill DEF Reading, HandlerPcs
<1>3. ASSUME NEW p \in {"refs", "doms", "sweep"}, Goto(c, p),
             NEW s, loc' = [loc EXCEPT ![c].set = s],
             p = "doms" => \A x \in s : x \notin Parents,
             p = "sweep" => \A x \in s : x \notin Parents /\ x \notin Mounted
      PROVE  Sound
  <2>1. loc'[c].set = s /\ \A d \in Calls : d # c => loc'[d] = loc[d]
    BY <1>3 DEF SoundBefore, TypeInv, VType, LocType
  <2>2. Moves(c, p)
    BY <1>1, <1>3, <2>1, PcFacts, MovesBy DEF SoundBefore, TypeInv
  <2>3. Parents' = Parents
    BY <1>1 DEF Parents
  <2>4. p = "sweep" => \A x \in s : \A m \in Names : x \notin dom[m].disks
    BY <1>3 DEF Mounted
  <2>5. HeldInv(c)'
    BY <1>1, <1>3, <2>1, <2>2, <2>3, <2>4 DEF HeldInv, Moves
  <2>6. TurnFor(c)'
    BY <1>1, <1>3, <2>2, TurnStays DEF SoundBefore, DisksInv, HandlerPcs
  <2> QED BY <1>1, <2>2, <2>5, <2>6, Still
<1>4. CASE CleanupPool(c)
  BY <1>3, <1>4 DEF CleanupPool
<1>5. CASE CleanupRefs(c)
  <2>1. CASE Goto(c, "doms") /\ loc' = [loc EXCEPT ![c].set = @ \ Parents]
    <3>1. PICK s : s = loc[c].set \ Parents
      OBVIOUS
    <3>2. loc' = [loc EXCEPT ![c].set = s]
      BY <2>1, <3>1
    <3>3. \A x \in s : x \notin Parents
      BY <3>1
    <3>4. Goto(c, "doms")
      BY <2>1
    <3> QED BY <1>3, <3>2, <3>3, <3>4
  <2> QED BY <1>2, <1>5, <2>1 DEF CleanupRefs, CleanupRead
<1>6. CASE CleanupDomains(c)
  <2>1. CASE Goto(c, "sweep") /\ loc' = [loc EXCEPT ![c].set = @ \ Mounted]
    <3>1. PICK s : s = loc[c].set \ Mounted
      OBVIOUS
    <3>2. loc' = [loc EXCEPT ![c].set = s]
      BY <2>1, <3>1
    <3>3. \A x \in loc[c].set : x \notin Parents
      BY <1>1, <1>6 DEF CleanupDomains, CleanupRead, HeldInv
    <3>4. \A x \in s : x \notin Parents /\ x \notin Mounted
      BY <3>1, <3>3
    <3>5. Goto(c, "sweep")
      BY <2>1
    <3> QED BY <1>3, <3>2, <3>4, <3>5
  <2> QED BY <1>2, <1>6, <2>1 DEF CleanupDomains, CleanupRead
<1> QED BY <1>4, <1>5, <1>6

\* What a clean-up removes has neither child nor domain, and none since it looked.
LEMMA CleanupSweepSound == ASSUME SoundBefore, NEW c \in Calls, CleanupSweep(c) PROVE Sound
<1>1. /\ call[c].pc = "sweep" /\ UNCHANGED <<mix, row, dom, images, backing, loc>>
      /\ Goto(c, "done") /\ HeldInv(c) /\ vols' = vols \ (loc[c].set \ images)
  BY DEF CleanupSweep, SoundBefore, DisksInv
<1>2. Moves(c, "done")
  BY <1>1, PcFacts, MovesBy DEF SoundBefore, TypeInv
<1>3. \A x \in loc[c].set : x \notin Parents /\ \A m \in Names : x \notin dom[m].disks
  BY <1>1 DEF HeldInv
<1>4. vols' \subseteq vols /\ \A x \in vols \ vols' : x \in loc[c].set
  BY <1>1
<1>5. Parents' \subseteq Parents
  BY <1>1, <1>4, FewerParents
<1>6. HeldInv(c)'
  BY <1>2, HeldFree DEF Reading
<1>7. TurnFor(c)'
  BY <1>1, <1>2, TurnStays DEF SoundBefore, DisksInv, HandlerPcs
<1> QED BY <1>1, <1>2, <1>3, <1>4, <1>5, <1>6, <1>7, Fewer

\* The task that finalizes a machine reads its disk.
LEMMA FinalizeReadSound == ASSUME SoundBefore, NEW c \in Calls, FinalizeRead(c) PROVE Sound
<1>1. /\ call[c].pc = "finread" /\ UNCHANGED <<mix, row, dom, images, backing, vols>>
      /\ row[call[c].vm].name \in Names /\ NamedInv
  BY ArgFacts DEF FinalizeRead, SoundBefore, DisksInv, TypeInv
<1>2. CASE Goto(c, "done") /\ UNCHANGED loc
  BY <1>1, <1>2, PcFacts, HandlerStill DEF Reading, HandlerPcs
<1>3. CASE /\ Goto(c, "sysprep") /\ row[call[c].vm].life = "live"
           /\ loc' = [loc EXCEPT ![c].disks = dom[row[call[c].vm].name].disks]
  <2>1. /\ loc'[c].disks = dom[row[call[c].vm].name].disks
        /\ \A d \in Calls : d # c => loc'[d] = loc[d]
    BY <1>3 DEF SoundBefore, TypeInv, VType, LocType
  <2>2. Moves(c, "sysprep")
    BY <1>1, <1>3, <2>1, PcFacts, MovesBy DEF SoundBefore, TypeInv
  <2>3. HeldInv(c)'
    BY <1>1, <2>1, <2>2 DEF HeldInv, Moves, NamedInv, Own
  <2>4. TurnFor(c)'
    BY <1>1, <1>3, <2>2, TurnStays DEF SoundBefore, DisksInv, HandlerPcs
  <2> QED BY <1>1, <2>2, <2>3, <2>4, Still
<1> QED BY <1>2, <1>3 DEF FinalizeRead

\* virt-sysprep rewrites the disk in place.
LEMMA SysprepSound == ASSUME SoundBefore, NEW c \in Calls, Sysprep(c) PROVE Sound
<1>1. /\ call[c].pc = "sysprep" /\ UNCHANGED <<mix, row, dom, images, backing, vols, loc>>
      /\ HeldInv(c)
  BY DEF Sysprep, SoundBefore, DisksInv
<1>2. CASE Goto(c, "done")
  BY <1>1, <1>2, PcFacts, HandlerStill DEF Reading, HandlerPcs
<1>3. CASE Goto(c, "finundef")
  <2>1. Moves(c, "finundef")
    BY <1>1, <1>3, PcFacts, MovesBy DEF SoundBefore, TypeInv
  <2>2. HeldInv(c)'
    BY <1>1, <2>1 DEF HeldInv, Moves, Own
  <2>3. TurnFor(c)'
    BY <1>1, <2>1, TurnStays DEF SoundBefore, DisksInv, HandlerPcs
  <2> QED BY <1>1, <2>1, <2>2, <2>3, Still
<1> QED BY <1>2, <1>3 DEF Sysprep

\* A step that only adds volumes, whose parents exist and are of machines that are made.
LEMMA More ==
  ASSUME SoundBefore, NEW c \in Calls, NEW p, Moves(c, p), row' = row, dom' = dom,
         images' = images,
         \A y \in vols : y \in vols' /\ backing'[y] = backing[y],
         \A y \in vols' : y \notin vols /\ backing'[y] # None =>
           /\ backing'[y] \in vols /\ Known(backing'[y][1])
           /\ \A d \in Calls : d # c =>
                /\ call[d].pc \in {"purgeable", "delvols"} =>
                     backing'[y][1] # row[call[d].vm].name
                /\ call[d].pc \notin {"doms", "sweep"},
         HeldInv(c)', TurnFor(c)'
  PROVE  Sound
<1>1. \A q \in Parents' :
        q \in Parents \/ \E y \in vols' : y \notin vols /\ q = backing'[y] /\ q # None
  BY DEF Parents
<1>2. \A n : Known(n) => Known(n)'
  BY KnownStays
<1>3. mix' = mix /\ (Templates' <=> Templates)
  BY DEF Moves, Templates
<1>4. NamedInv'
  BY DEF SoundBefore, DisksInv, NamedInv, Own
<1>5. ParentKept'
  <2> SUFFICES ASSUME NEW x \in vols', backing'[x] # None PROVE backing'[x] \in vols'
    BY DEF ParentKept
  <2>1. CASE x \in vols
    BY <2>1 DEF SoundBefore, DisksInv, ChainInv, ParentKept
  <2>2. CASE x \notin vols
    BY <2>2
  <2> QED BY <2>1, <2>2
<1>6. ChainInv'
  <2> SUFFICES ASSUME NEW q \in Parents' PROVE Known(q[1])'
    BY <1>5 DEF ChainInv
  <2>1. CASE q \in Parents
    BY <1>2, <2>1 DEF SoundBefore, DisksInv, ChainInv
  <2>2. CASE q \notin Parents
    <3>1. PICK y \in vols' : y \notin vols /\ q = backing'[y] /\ q # None
      BY <1>1, <2>2
    <3> QED BY <1>2, <3>1
  <2> QED BY <2>1, <2>2
<1>7. ImageInv'
  BY <1>2, <1>3 DEF SoundBefore, DisksInv, ImageInv
<1>8. \A d \in Calls : HeldInv(d)' /\ TurnFor(d)'
  <2> SUFFICES ASSUME NEW d \in Calls, d # c PROVE HeldInv(d)' /\ TurnFor(d)'
    OBVIOUS
  <2>1. \A x \in Parents' : x \notin Parents =>
          /\ call[d].pc \in {"purgeable", "delvols"} => x[1] # row[call[d].vm].name
          /\ call[d].pc \notin {"doms", "sweep"}
    <3> SUFFICES ASSUME NEW x \in Parents', x \notin Parents
                 PROVE  /\ call[d].pc \in {"purgeable", "delvols"} => x[1] # row[call[d].vm].name
                        /\ call[d].pc \notin {"doms", "sweep"}
      OBVIOUS
    <3>1. PICK y \in vols' : y \notin vols /\ x = backing'[y] /\ x # None
      BY <1>1
    <3> QED BY <3>1
  <2>2. HeldInv(d)'
    BY <1>4, <2>1, HeldStays DEF SoundBefore, DisksInv
  <2>3. TurnFor(d)'
    BY TurnStays DEF SoundBefore, DisksInv
  <2> QED BY <2>2, <2>3
<1>9. vols \ vols' = {}
  OBVIOUS
<1> QED BY <1>4, <1>6, <1>7, <1>8, <1>9 DEF Sound, DisksInv, Unmounted

\* A task that makes a machine and comes to a place where it has nothing in its hands.
LEMMA MakerHolds ==
  ASSUME SoundBefore, NEW c \in Calls, NEW p \in {"clonerow", "imgdef", "imgrow", "done"}, Moves(c, p),
         call[c].pc # "idle",
         Templates /\ call[c].vm # None => row'[call[c].vm].life = row[call[c].vm].life
  PROVE  HeldInv(c)' /\ TurnFor(c)'
<1>1. HeldInv(c)'
  BY HeldFree DEF Reading
<1>2. TurnFor(c)'
  BY TurnStays DEF SoundBefore, DisksInv, HandlerPcs
<1> QED BY <1>1, <1>2

\* A new link to a parent that is nobody's to remove.
LEMMA LinkSound ==
  ASSUME SoundBefore, NEW c \in Calls, NEW next \in {"newrow", "clonedef", "imgdef"}, NEW parents,
         NEW child \in Volumes,
         Link(c, parents, child, next), UNCHANGED <<mix, row, dom, images>>,
         \A d \in Calls : d # c => loc'[d] = loc[d],
         call[c].pc \notin {"idle", "done"},
         \A q \in parents :
           /\ Known(q[1])
           /\ \A d \in Calls : d # c =>
                /\ call[d].pc \in {"purgeable", "delvols"} => q[1] # row[call[d].vm].name
                /\ call[d].pc \notin {"doms", "sweep"},
         next = "clonedef" => \A x \in loc'[c].disks : Own(row[call[c].vm].name, x),
         next = "newrow" => \A x \in loc'[c].disks \cup loc'[c].set : Own(call[c].name, x)
  PROVE  Sound
<1>1. CASE Goto(c, "done") /\ UNCHANGED <<vols, backing>>
  BY <1>1, PcFacts, HandlerStill DEF Reading, HandlerPcs
<1>2. ASSUME NEW q \in parents, parents \subseteq vols, child \notin vols, Goto(c, next),
             vols' = vols \cup {child}, backing' = [backing EXCEPT ![child] = q]
      PROVE  Sound
  <2>1. Moves(c, next)
    BY <1>2, PcFacts, MovesBy DEF SoundBefore, TypeInv
  <2>2. HeldInv(c)'
    BY <2>1 DEF HeldInv, Moves, Own
  <2>3. TurnFor(c)'
    BY <2>1, TurnStays DEF SoundBefore, DisksInv, HandlerPcs
  <2>4. vols \subseteq Volumes /\ backing \in [Volumes -> Volumes \cup {None}]
    BY DEF SoundBefore, TypeInv, VType
  <2>5. \A y \in vols : y \in vols' /\ backing'[y] = backing[y]
    BY <1>2, <2>4
  <2>6. \A y \in vols' : y \notin vols => backing'[y] = q
    BY <1>2, <2>4
  <2>7. q \in vols
    BY <1>2
  <2> QED BY <1>2, <2>1, <2>2, <2>3, <2>5, <2>6, <2>7, More
<1> QED BY <1>1, <1>2 DEF Link

\* A template's machine is gone, hence neither deleted nor purged while disks are linked to it.
LEMMA TemplateKept ==
  ASSUME SoundBefore, NEW c \in Calls, NEW i \in images,
         call[c].pc = "imgvol" \/ (call[c].pc = "newvol" /\ "image" \in mix.sources)
  PROVE  /\ Known(i[1])
         /\ \A d \in Calls : /\ call[d].pc \in {"purgeable", "delvols"} => i[1] # row[call[d].vm].name
                             /\ call[d].pc \notin {"doms", "sweep"}
<1>1. ImageInv
  BY DEF SoundBefore, DisksInv
<1>2. Known(i[1]) /\ "finalize" \in mix.kinds
  BY <1>1 DEF ImageInv
<1>3. Templates /\ "cleanup" \notin mix.kinds
  BY <1>2, PlaceFacts, DiskMixFacts DEF SoundBefore, TypeInv, Templates
<1>4. ASSUME NEW d \in Calls
      PROVE  /\ call[d].pc \in {"purgeable", "delvols"} => i[1] # row[call[d].vm].name
             /\ call[d].pc \notin {"doms", "sweep", "delvols"}
  <2>1. call[d].pc \notin {"doms", "sweep", "delvols"}
    BY <1>3, PlaceFacts DEF SoundBefore, Templates
  <2>2. ASSUME call[d].pc = "purgeable" PROVE i[1] # row[call[d].vm].name
    <3>1. call[d].vm \in VMs /\ Handling(d) /\ call[d].kind = "purge"
      BY <2>2, ArgFacts, PlaceFacts DEF SoundBefore, TypeInv
    <3>2. row[call[d].vm].life = "bin"
      BY <1>3, <3>1 DEF SoundBefore, DisksInv, TurnFor
    <3> QED BY <1>1, <1>3, <3>1, <3>2 DEF ImageInv
  <2> QED BY <2>1, <2>2
<1> QED BY <1>2, <1>4

\* The only disk of a new machine.
LEMMA FirstDisk ==
  ASSUME ~TwoDisks, NEW n
  PROVE  Disks(n, "") = {<<n, "">>} /\ Own(n, <<n, "">>) /\ \A x \in Disks(n, "") : Own(n, x)
<1>1. Disks(n, "") = {<<n, "">>}
  BY DEF Disks
<1>2. <<n, "">>[1] = n /\ <<n, "">>[2] = ""
  OBVIOUS
<1>3. Own(n, <<n, "">>)
  BY <1>2 DEF Own
<1> QED BY <1>1, <1>3

\* The disk of a new machine is new, or a link to a template that nobody removes.
LEMMA CreateVolsSound == ASSUME SoundBefore, NEW c \in Calls, CreateVols(c) PROVE Sound
<1>1. /\ call[c].pc = "newvol" /\ UNCHANGED <<mix, row, dom, images>>
      /\ call[c].name \in Names
  BY ArgFacts DEF CreateVols, SoundBefore, TypeInv
<1>2. \A d \in Calls : d # c => loc'[d] = loc[d]
  BY CreateVolsFacts DEF SoundBefore, TypeInv
<1>3. PICK child \in Volumes : /\ child = <<call[c].name, "">> /\ Own(call[c].name, child)
                               /\ Disks(call[c].name, "") = {child}
  BY <1>1, DiskFacts, FirstDisk DEF SoundBefore
<1>4. ASSUME loc' = [loc EXCEPT ![c] = [disks |-> {child}, set |-> {child}]]
      PROVE  \A x \in loc'[c].disks \cup loc'[c].set : Own(call[c].name, x)
  BY <1>3, <1>4 DEF SoundBefore, TypeInv, VType
<1>5. CASE Goto(c, "done") /\ UNCHANGED <<vols, backing>>
  BY <1>1, <1>2, <1>5, PcFacts, HandlerStill DEF Reading, HandlerPcs
<1>6. ASSUME child \notin vols, Goto(c, "newrow"), vols' = vols \cup {child},
             backing' = [x \in Volumes |-> IF x \in {child} THEN None ELSE backing[x]],
             loc' = [loc EXCEPT ![c] = [disks |-> {child}, set |-> {child}]]
      PROVE  Sound
  <2>1. Moves(c, "newrow")
    BY <1>1, <1>2, <1>6, PcFacts, MovesBy DEF SoundBefore, TypeInv
  <2>2. HeldInv(c)'
    BY <1>1, <1>4, <1>6, <2>1 DEF HeldInv, Moves, Own
  <2>3. TurnFor(c)'
    BY <1>1, <2>1, TurnStays DEF SoundBefore, DisksInv, HandlerPcs
  <2>4. vols \subseteq Volumes
    BY DEF SoundBefore, TypeInv, VType
  <2>5. \A y \in vols : y \in vols' /\ backing'[y] = backing[y]
    BY <1>6, <2>4
  <2>6. \A y \in vols' : y \notin vols => backing'[y] = None
    BY <1>6, <2>4
  <2> QED BY <1>1, <2>1, <2>2, <2>3, <2>5, <2>6, More
<1>7. CASE NewVolume(c)
  BY <1>3, <1>5, <1>6, <1>7 DEF NewVolume, GivenDisks
<1>8. CASE OverlayVolume(c)
  <2>1. PICK i \in images : Link(c, {i}, child, "newrow")
    BY <1>3, <1>8 DEF OverlayVolume
  <2>2. loc' = [loc EXCEPT ![c] = [disks |-> {child}, set |-> {child}]]
    BY <1>3, <1>8 DEF OverlayVolume
  <2>3. /\ Known(i[1])
        /\ \A d \in Calls : /\ call[d].pc \in {"purgeable", "delvols"} => i[1] # row[call[d].vm].name
                            /\ call[d].pc \notin {"doms", "sweep"}
    BY <1>1, <1>8, TemplateKept DEF OverlayVolume
  <2>4. \A x \in loc'[c].disks \cup loc'[c].set : Own(call[c].name, x)
    BY <1>4, <2>2
  <2> QED BY <1>1, <1>2, <2>1, <2>3, <2>4, LinkSound
<1>9. CASE ExistingFile(c)
  BY <1>9, DiskMixFacts DEF ExistingFile, SoundBefore, TypeInv
<1> QED BY <1>7, <1>8, <1>9 DEF CreateVols

\* The source of a clone is not the machine of a deletion or a purge.
LEMMA CloneVolumeSound == ASSUME SoundBefore, NEW c \in Calls, CloneVolume(c) PROVE Sound
<1> DEFINE u == call[c].vm
<1>1. /\ call[c].pc = "clonevol" /\ UNCHANGED <<mix, row, dom, images, loc>>
      /\ call[c].name \in Names /\ u \in VMs /\ row[u].name \in Names
      /\ Link(c, SystemDisk(loc[c].disks), <<call[c].name, "-diska">>, "clonedef")
      /\ HeldInv(c)
  BY ArgFacts DEF CloneVolume, SoundBefore, TypeInv, DisksInv
<1>2. <<call[c].name, "-diska">> \in Volumes
  BY <1>1, DiskFacts
<1>3. /\ "clone" \in mix.kinds /\ call[c].kind = "clone" /\ Tasked(c)
      /\ ~mix.overlap /\ "cleanup" \notin mix.kinds
  BY <1>1, PlaceFacts, MixFacts, DiskMixFacts DEF SoundBefore, TypeInv, Makes
<1>4. /\ u \in Calls => call[u].pc = "done"
      /\ row[u].life # "none"
      /\ \A w \in VMs : row[w].life # "none" /\ row[w].name = row[u].name => w = u
  BY <1>1, OwnerFacts DEF SoundBefore, RowsInv
<1>5. ASSUME NEW d \in Calls, d # c
      PROVE  /\ call[d].pc \in {"purgeable", "delvols"} => row[u].name # row[call[d].vm].name
             /\ call[d].pc \notin {"doms", "sweep"}
  <2>1. call[d].pc \notin {"doms", "sweep"}
    BY <1>3, PlaceFacts DEF SoundBefore
  <2>2. ASSUME call[d].pc \in {"purgeable", "delvols"}, row[u].name = row[call[d].vm].name
        PROVE  FALSE
    <3>1. call[d].vm \in VMs /\ row[call[d].vm].life # "none"
      BY <2>2, ArgFacts, NoneAssumption DEF SoundBefore, TypeInv, RowsInv, NameInv
    <3>2. call[d].vm = u /\ u # None
      BY <1>1, <1>4, <2>2, <3>1, NoneAssumption
    <3>3. \/ Handling(d) /\ call[d].pc # "found"
          \/ call[d].kind = "delete" /\ Tasked(d)
      BY <2>2, PlaceFacts DEF SoundBefore
    <3> QED BY <1>3, <1>5, <3>2, <3>3 DEF SoundBefore, SerialInv
  <2> QED BY <2>1, <2>2
<1>6. \A q \in SystemDisk(loc[c].disks) : q[1] = row[u].name
  BY <1>1 DEF SystemDisk, HeldInv, Own
<1>7. Known(row[u].name)
  BY <1>1, <1>4 DEF Known
<1>8. \A x \in loc[c].disks : Own(row[u].name, x)
  BY <1>1 DEF HeldInv
<1> QED BY <1>1, <1>2, <1>5, <1>6, <1>7, <1>8, LinkSound

\* A template's machine is gone, hence neither deleted nor purged.
LEMMA ImageVolumeSound == ASSUME SoundBefore, NEW c \in Calls, ImageVolume(c) PROVE Sound
<1>1. PICK i \in images :
        /\ call[c].pc = "imgvol" /\ UNCHANGED <<mix, row, dom, images, loc>>
        /\ call[c].name \in Names
        /\ Link(c, {i}, <<call[c].name, "-sys">>, "imgdef")
  BY ArgFacts DEF ImageVolume, SoundBefore, TypeInv
<1>2. <<call[c].name, "-sys">> \in Volumes
  BY <1>1, DiskFacts
<1>3. /\ Known(i[1])
      /\ \A d \in Calls : /\ call[d].pc \in {"purgeable", "delvols"} => i[1] # row[call[d].vm].name
                          /\ call[d].pc \notin {"doms", "sweep"}
  BY <1>1, TemplateKept
<1> QED BY <1>1, <1>2, <1>3, LinkSound

\* A step that changes domains, and perhaps removes volumes that have neither child nor, then,
\* a domain: what it defines is of a name that no other request and no template holds.
LEMMA Domains ==
  ASSUME SoundBefore, NEW c \in Calls, NEW p, Moves(c, p),
         row' = row, images' = images, backing' = backing, vols' \subseteq vols,
         \A x \in vols \ vols' : x \notin Parents' /\ \A m \in Names : x \notin dom'[m].disks,
         \A m \in Names :
           \/ dom'[m] = dom[m]
           \/ dom'[m].uuid = None /\ dom'[m].disks = {}
           \/ /\ dom'[m].uuid # None
              /\ \A x \in dom'[m].disks : Own(m, x)
              /\ \A x \in images : x[1] # m
              /\ \A d \in Calls : d # c =>
                   /\ call[d].pc \in {"purgeable", "register"} => m # row[call[d].vm].name
                   /\ call[d].pc # "sweep",
         HeldInv(c)', TurnFor(c)'
  PROVE  Sound
<1>1. Parents' \subseteq Parents
  BY FewerParents
<1>2. \A n : Known(n) => Known(n)'
  BY KnownStays
<1>3. mix' = mix /\ (Templates' <=> Templates)
  BY DEF Moves, Templates
<1>4. NamedInv'
  <2>1. \A m \in Names : \A x \in dom[m].disks : Own(m, x)
    BY DEF SoundBefore, DisksInv, NamedInv
  <2>2. \A m \in Names : dom[m].uuid = None => dom[m].disks = {}
    BY DEF SoundBefore, DisksInv, NamedInv
  <2>3. \A m \in Names : \A x \in dom'[m].disks : Own(m, x)
    BY <2>1
  <2>4. \A m \in Names : dom'[m].uuid = None => dom'[m].disks = {}
    BY <2>2
  <2>5. \A v \in VMs : \A x \in row[v].archive : Own(row[v].name, x)
    BY DEF SoundBefore, DisksInv, NamedInv
  <2> QED BY <2>3, <2>4, <2>5 DEF NamedInv, Own
<1>5. ParentKept'
  <2> SUFFICES ASSUME NEW x \in vols', backing[x] # None PROVE backing[x] \in vols'
    BY DEF ParentKept
  <2>1. backing[x] \in Parents'
    BY DEF Parents
  <2>2. backing[x] \in vols
    BY DEF SoundBefore, DisksInv, ChainInv, ParentKept
  <2> QED BY <2>1, <2>2
<1>6. ChainInv'
  BY <1>1, <1>2, <1>5 DEF SoundBefore, DisksInv, ChainInv
<1>7. ImageInv'
  <2>1. \A x \in images : Known(x[1]) /\ dom[x[1]].uuid = None /\ x[1] \in Names
    BY DEF SoundBefore, TypeInv, VType, Volumes, DisksInv, ImageInv
  <2>2. \A x \in images : dom'[x[1]].uuid = None
    BY <2>1
  <2> QED BY <1>2, <1>3, <2>1, <2>2 DEF SoundBefore, DisksInv, ImageInv
<1>8. \A d \in Calls : HeldInv(d)' /\ TurnFor(d)'
  <2> SUFFICES ASSUME NEW d \in Calls, d # c PROVE HeldInv(d)' /\ TurnFor(d)'
    OBVIOUS
  <2>1. \A m \in Names : dom'[m] # dom[m] /\ dom'[m].uuid # None =>
          /\ call[d].pc \in {"purgeable", "register"} => m # row[call[d].vm].name
          /\ call[d].pc # "sweep"
    OBVIOUS
  <2>2. HeldInv(d)'
    BY <1>1, <1>4, <2>1, HeldStays DEF SoundBefore, DisksInv
  <2>3. TurnFor(d)'
    BY TurnStays DEF SoundBefore, DisksInv
  <2> QED BY <2>2, <2>3
<1> QED BY <1>4, <1>6, <1>7, <1>8 DEF Sound, DisksInv, Unmounted

\* One domain goes.
LEMMA Undefined ==
  ASSUME SoundBefore, NEW c \in Calls, NEW p, Moves(c, p), NEW n \in Names, Define(n, NoDomain),
         UNCHANGED <<row, images, backing, vols>>, HeldInv(c)', TurnFor(c)'
  PROVE  Sound
<1>1. \A m \in Names : dom'[m] = dom[m] \/ (dom'[m].uuid = None /\ dom'[m].disks = {})
  BY DEF Define, NoDomain, SoundBefore, TypeInv, VType
<1> QED BY <1>1, Domains

\* A purge takes the domain of its machine away.
LEMMA PurgeUndefineSound == ASSUME SoundBefore, NEW c \in Calls, PurgeUndefine(c) PROVE Sound
<1>1. /\ call[c].pc = "undefining" /\ UNCHANGED <<mix, row, vols, backing, images, loc>>
      /\ row[call[c].vm].name \in Names
  BY ArgFacts DEF PurgeUndefine, SoundBefore, TypeInv
<1>2. CASE Goto(c, "done") /\ UNCHANGED dom
  BY <1>1, <1>2, PcFacts, HandlerStill DEF Reading, HandlerPcs
<1>3. CASE Goto(c, "erasing") /\ Define(row[call[c].vm].name, NoDomain)
  <2>1. Moves(c, "erasing")
    BY <1>1, <1>3, PcFacts, MovesBy DEF SoundBefore, TypeInv
  <2>2. HeldInv(c)'
    BY <2>1, HeldFree DEF Reading
  <2>3. TurnFor(c)'
    BY <1>1, <2>1, TurnStays DEF SoundBefore, DisksInv, HandlerPcs
  <2> QED BY <1>1, <1>3, <2>1, <2>2, <2>3, Undefined
<1> QED BY <1>2, <1>3 DEF PurgeUndefine, Define

\* So does a deletion, which keeps the disks it has read in mind,
LEMMA DeleteUndefineSound == ASSUME SoundBefore, NEW c \in Calls, DeleteUndefine(c) PROVE Sound
<1>1. /\ call[c].pc = "undefine" /\ UNCHANGED <<mix, row, vols, backing, images, loc>>
      /\ row[call[c].vm].name \in Names /\ HeldInv(c)
  BY ArgFacts DEF DeleteUndefine, SoundBefore, DisksInv, TypeInv
<1>2. CASE Goto(c, "done") /\ UNCHANGED dom
  BY <1>1, <1>2, PcFacts, HandlerStill DEF Reading, HandlerPcs
<1>3. CASE Goto(c, "guard") /\ Define(row[call[c].vm].name, NoDomain)
  <2>1. Moves(c, "guard")
    BY <1>1, <1>3, PcFacts, MovesBy DEF SoundBefore, TypeInv
  <2>2. HeldInv(c)'
    BY <1>1, <2>1 DEF HeldInv, Moves, Own
  <2>3. TurnFor(c)'
    BY <1>1, <2>1, TurnStays DEF SoundBefore, DisksInv, HandlerPcs
  <2> QED BY <1>1, <1>3, <2>1, <2>2, <2>3, Undefined
<1> QED BY <1>2, <1>3 DEF DeleteUndefine

\* and the task that makes a template.
LEMMA FinalizeUndefineSound ==
  ASSUME SoundBefore, NEW c \in Calls, FinalizeUndefine(c) PROVE Sound
<1>1. /\ call[c].pc = "finundef" /\ UNCHANGED <<mix, row, vols, backing, images, loc>>
      /\ row[call[c].vm].name \in Names /\ HeldInv(c)
  BY ArgFacts DEF FinalizeUndefine, SoundBefore, DisksInv, TypeInv
<1>2. CASE Goto(c, "done") /\ UNCHANGED dom
  BY <1>1, <1>2, PcFacts, HandlerStill DEF Reading, HandlerPcs
<1>3. CASE Goto(c, "finrow") /\ Define(row[call[c].vm].name, NoDomain)
  <2>1. Moves(c, "finrow")
    BY <1>1, <1>3, PcFacts, MovesBy DEF SoundBefore, TypeInv
  <2>2. HeldInv(c)'
    BY <1>1, <2>1 DEF HeldInv, Moves, Own
  <2>3. TurnFor(c)'
    BY <1>1, <2>1, TurnStays DEF SoundBefore, DisksInv, HandlerPcs
  <2> QED BY <1>1, <1>3, <2>1, <2>2, <2>3, Undefined
<1> QED BY <1>2, <1>3 DEF FinalizeUndefine

\* The name of a call that makes a machine is no other request's, no template's and no
\* parent's.
LEMMA MakerAside ==
  ASSUME SoundBefore, NEW c \in Calls,
         call[c].pc \in {"newvol", "newrow", "newdef", "source", "clonevol", "clonedef",
                         "clonerow", "imgvol", "imgdef", "imgrow"}
  PROVE  /\ call[c].name \in Names /\ c \in VMs /\ ~Known(call[c].name)
         /\ \A x \in images : x[1] # call[c].name
         /\ \A x \in Parents : x[1] # call[c].name
         /\ \A v \in VMs : row[v].life # "none" /\ row[v].name = call[c].name => v = c
         /\ \A d \in Calls : call[d].vm # c
         /\ \A d \in Calls : call[d].vm # None => call[c].name # row[call[d].vm].name
         /\ \A d \in Calls : call[d].pc # "sweep"
<1>1. /\ call[c].name \in Names /\ c \in VMs /\ call[c].kind \in Makes
      /\ \A v \in VMs : row[v].life # "none" /\ row[v].name = call[c].name => v = c
      /\ \A d \in Calls : call[d].vm # c
  BY MakerFacts DEF SoundBefore, RowsInv
<1>2. ~Known(call[c].name)
  BY <1>1 DEF Known
<1>3. /\ \A x \in images : x[1] # call[c].name
      /\ \A x \in Parents : x[1] # call[c].name
  BY <1>2 DEF SoundBefore, DisksInv, ImageInv, ChainInv
<1>4. ASSUME NEW d \in Calls, call[d].vm # None PROVE call[c].name # row[call[d].vm].name
  <2>1. call[d].vm \in VMs /\ row[call[d].vm].life # "none" /\ call[d].vm # c
    BY <1>1, <1>4 DEF SoundBefore, TypeInv, VType, CallType, RowsInv, NameInv
  <2> QED BY <1>1, <2>1
<1>5. mix.kinds \cap {"create", "clone", "image"} # {}
  BY PlaceFacts DEF SoundBefore
<1>6. "cleanup" \notin mix.kinds
  BY <1>5, DiskMixFacts DEF SoundBefore, TypeInv
<1>7. \A d \in Calls : call[d].pc # "sweep"
  BY <1>6, PlaceFacts DEF SoundBefore
<1> QED BY <1>1, <1>2, <1>3, <1>4, <1>7

\* A machine under construction gets its domain, or what there is of it goes again.
LEMMA MakerSound ==
  ASSUME SoundBefore, NEW c \in Calls, NEW p \in {"clonerow", "imgrow", "done"}, Goto(c, p),
         call[c].pc \in {"newrow", "newdef", "clonedef", "clonerow", "imgdef", "imgrow"},
         UNCHANGED <<mix, row, images, backing, loc>>, vols' \subseteq vols,
         \A x \in vols \ vols' : x[1] = call[c].name /\ dom'[call[c].name].disks = {},
         \A m \in Names : m # call[c].name => dom'[m] = dom[m],
         \/ dom'[call[c].name] = dom[call[c].name]
         \/ dom'[call[c].name] = NoDomain
         \/ /\ dom'[call[c].name].uuid = c
            /\ \A x \in dom'[call[c].name].disks : Own(call[c].name, x)
  PROVE  Sound
<1> DEFINE n == call[c].name
<1>1. /\ n \in Names /\ c \in VMs /\ \A x \in images : x[1] # n
      /\ \A x \in Parents : x[1] # n
      /\ \A d \in Calls : call[d].vm # None => n # row[call[d].vm].name
      /\ \A d \in Calls : call[d].pc # "sweep"
  BY MakerAside
<1>2. Moves(c, p)
  BY PcFacts, MovesBy DEF SoundBefore, TypeInv
<1>3. HeldInv(c)' /\ TurnFor(c)'
  BY <1>2, MakerHolds
<1>4. Parents' \subseteq Parents
  BY FewerParents
<1>5. \A x \in vols \ vols' : x \notin Parents' /\ \A m \in Names : x \notin dom'[m].disks
  <2> SUFFICES ASSUME NEW x \in vols \ vols'
               PROVE  x \notin Parents' /\ \A m \in Names : x \notin dom'[m].disks
    OBVIOUS
  <2>1. x[1] = n /\ dom'[n].disks = {}
    OBVIOUS
  <2>2. \A m \in Names : \A y \in dom[m].disks : y[1] = m
    BY DEF SoundBefore, DisksInv, NamedInv, Own
  <2> QED BY <1>1, <1>4, <2>1, <2>2
<1>6. \A d \in Calls : call[d].pc \in {"purgeable", "register"} => n # row[call[d].vm].name
  BY <1>1, ArgFacts, NoneAssumption DEF SoundBefore, TypeInv
<1>7. \A m \in Names :
        \/ dom'[m] = dom[m]
        \/ dom'[m].uuid = None /\ dom'[m].disks = {}
        \/ /\ m = n /\ dom'[m].uuid # None
           /\ \A x \in dom'[m].disks : Own(m, x)
  BY <1>1, NoneAssumption DEF NoDomain
<1> HIDE DEF n
<1>8. \A m \in Names :
        \/ dom'[m] = dom[m]
        \/ dom'[m].uuid = None /\ dom'[m].disks = {}
        \/ /\ dom'[m].uuid # None
           /\ \A x \in dom'[m].disks : Own(m, x)
           /\ \A x \in images : x[1] # m
           /\ \A d \in Calls : d # c =>
                /\ call[d].pc \in {"purgeable", "register"} => m # row[call[d].vm].name
                /\ call[d].pc # "sweep"
  BY <1>1, <1>6, <1>7
<1> QED BY <1>2, <1>3, <1>5, <1>8, Domains

\* A step that changes rows, and perhaps removes volumes that have neither child nor domain.
LEMMA Rows ==
  ASSUME SoundBefore, NEW c \in Calls, NEW p, Moves(c, p),
         dom' = dom, images' = images, backing' = backing, vols' \subseteq vols,
         \A x \in vols \ vols' : x \notin Parents' /\ \A m \in Names : x \notin dom[m].disks,
         \A v \in VMs : row[v].life # "none" => row'[v].life # "none" /\ row'[v].name = row[v].name,
         \A v \in VMs : \A x \in row'[v].archive : Own(row'[v].name, x),
         \A d \in Calls : call[d].vm # None => row'[call[d].vm].name = row[call[d].vm].name,
         Templates => \A x \in images : \A v \in VMs :
           row'[v].name = x[1] => row'[v].life \in {"none", "gone"},
         \A d \in Calls : TurnFor(d)', HeldInv(c)'
  PROVE  Sound
<1>1. Parents' \subseteq Parents
  BY FewerParents
<1>2. \A n : Known(n) => Known(n)'
  BY KnownStays
<1>3. mix' = mix /\ (Templates' <=> Templates)
  BY DEF Moves, Templates
<1>4. NamedInv'
  BY DEF SoundBefore, DisksInv, NamedInv, Own
<1>5. ParentKept'
  <2> SUFFICES ASSUME NEW x \in vols', backing[x] # None PROVE backing[x] \in vols'
    BY DEF ParentKept
  <2>1. backing[x] \in Parents'
    BY DEF Parents
  <2>2. backing[x] \in vols
    BY DEF SoundBefore, DisksInv, ChainInv, ParentKept
  <2> QED BY <2>1, <2>2
<1>6. ChainInv'
  BY <1>1, <1>2, <1>5 DEF SoundBefore, DisksInv, ChainInv
<1>7. ImageInv'
  BY <1>2, <1>3 DEF SoundBefore, DisksInv, ImageInv
<1>8. \A d \in Calls : HeldInv(d)'
  <2> SUFFICES ASSUME NEW d \in Calls, d # c PROVE HeldInv(d)'
    OBVIOUS
  <2>1. HeldInv(d)
    BY DEF SoundBefore, DisksInv
  <2> QED BY <1>1, <1>4, <2>1, HeldStays DEF SoundBefore
<1> QED BY <1>4, <1>6, <1>7, <1>8 DEF Sound, DisksInv, Unmounted

\* A new machine gets its row.
LEMMA NewRowSound ==
  ASSUME SoundBefore, NEW c \in Calls, NEW p \in {"newdef", "done"}, Goto(c, p),
         call[c].pc \in {"newrow", "clonerow", "imgrow"}, p = "newdef" => call[c].pc = "newrow",
         ListRow(c, call[c].name),
         UNCHANGED <<mix, dom, vols, images, backing, loc>>
  PROVE  Sound
<1>1. /\ call[c].name \in Names /\ c \in VMs /\ \A x \in images : x[1] # call[c].name
      /\ \A d \in Calls : call[d].vm # c
  BY MakerAside
<1>2. /\ \A u \in VMs : u # c => row'[u] = row[u]
      /\ row'[c].name = call[c].name /\ row'[c].life = "live" /\ row'[c].archive = {}
  BY <1>1, NewRowFacts DEF SoundBefore, TypeInv
<1>3. row[c].life = "none"
  BY DEF SoundBefore, RowsInv, NameInv
<1>4. Moves(c, p)
  BY PcFacts, MovesBy DEF SoundBefore, TypeInv
<1>5. \A d \in Calls : call[d].vm # None => row'[call[d].vm] = row[call[d].vm]
  BY <1>1, <1>2 DEF SoundBefore, TypeInv, VType, CallType
<1>6. HeldInv(c)'
  <2>1. CASE p = "done"
    BY <1>4, <2>1, HeldFree DEF Reading
  <2>2. CASE p = "newdef"
    <3>1. call[c].pc = "newrow" /\ HeldInv(c)
      BY <2>2 DEF SoundBefore, DisksInv
    <3> QED BY <1>4, <2>2, <3>1 DEF HeldInv, Moves, Own
  <2> QED BY <2>1, <2>2
<1>7. ASSUME NEW d \in Calls PROVE TurnFor(d)'
  BY <1>4, <1>5, TurnStays DEF SoundBefore, DisksInv, HandlerPcs
<1>8. \A v \in VMs : \A x \in row'[v].archive : Own(row'[v].name, x)
  <2>1. \A v \in VMs : \A x \in row[v].archive : Own(row[v].name, x)
    BY DEF SoundBefore, DisksInv, NamedInv
  <2> QED BY <1>2, <2>1
<1>9. Templates => \A x \in images : \A v \in VMs :
        row'[v].name = x[1] => row'[v].life \in {"none", "gone"}
  <2>1. Templates => \A x \in images : \A v \in VMs :
          row[v].name = x[1] => row[v].life \in {"none", "gone"}
    BY DEF SoundBefore, DisksInv, ImageInv
  <2> QED BY <1>1, <1>2, <2>1
<1>10. \A v \in VMs : row[v].life # "none" => row'[v].life # "none" /\ row'[v].name = row[v].name
  BY <1>2, <1>3
<1>11. vols \ vols' = {}
  OBVIOUS
<1> QED BY <1>4, <1>5, <1>6, <1>7, <1>8, <1>9, <1>10, <1>11, Rows

\* The row of one machine changes its life.
LEMMA LifeSound ==
  ASSUME SoundBefore, NEW c \in Calls, NEW p, Moves(c, p), NEW v \in VMs,
         NEW l \in {"live", "bin", "gone"}, row' = [row EXCEPT ![v].life = l],
         dom' = dom, images' = images, backing' = backing, vols' \subseteq vols,
         \A x \in vols \ vols' : x \notin Parents' /\ \A m \in Names : x \notin dom[m].disks,
         Templates /\ l # "gone" => \A x \in images : row[v].name # x[1],
         \A d \in Calls : TurnFor(d)', HeldInv(c)'
  PROVE  Sound
<1>1. /\ \A u \in VMs : row'[u].name = row[u].name /\ row'[u].archive = row[u].archive
      /\ \A u \in VMs : row'[u].life = IF u = v THEN l ELSE row[u].life
  <2>1. PICK k \in {"none", "live", "bin", "gone"} : k = l
    OBVIOUS
  <2>2. row' = [row EXCEPT ![v].life = k] /\ row \in [VMs -> RowType]
    BY <2>1 DEF SoundBefore, TypeInv, VType
  <2>3. /\ \A u \in VMs : row'[u].name = row[u].name /\ row'[u].archive = row[u].archive
        /\ \A u \in VMs : row'[u].life = IF u = v THEN k ELSE row[u].life
    BY <2>2 DEF RowType
  <2> QED BY <2>1, <2>3
<1>2. \A d \in Calls : call[d].vm # None => row'[call[d].vm].name = row[call[d].vm].name
  BY <1>1 DEF SoundBefore, TypeInv, VType, CallType
<1>3. \A u \in VMs : \A x \in row'[u].archive : Own(row'[u].name, x)
  <2>1. \A u \in VMs : \A x \in row[u].archive : Own(row[u].name, x)
    BY DEF SoundBefore, DisksInv, NamedInv
  <2> QED BY <1>1, <2>1
<1>4. Templates => \A x \in images : \A u \in VMs :
        row'[u].name = x[1] => row'[u].life \in {"none", "gone"}
  <2>1. Templates => \A x \in images : \A u \in VMs :
          row[u].name = x[1] => row[u].life \in {"none", "gone"}
    BY DEF SoundBefore, DisksInv, ImageInv
  <2> QED BY <1>1, <2>1
<1>5. \A u \in VMs : row[u].life # "none" => row'[u].life # "none" /\ row'[u].name = row[u].name
  BY <1>1
<1> QED BY <1>2, <1>3, <1>4, <1>5, Rows

\* Two requests for one machine where none overlaps and machines become templates.
LEMMA TurnsApart ==
  ASSUME SoundBefore, Templates \/ "restore" \in mix.kinds, NEW c \in Calls, NEW d \in Calls, c # d,
         call[c].vm = call[d].vm, call[c].vm # None
  PROVE  /\ Handling(c) => ~Handling(d)
         /\ Handling(c) /\ call[c].pc # "found" => ~Tasked(d)
         /\ Handling(d) /\ call[d].pc # "found" => ~Tasked(c)
<1>1. ~mix.overlap
  BY MixFacts DEF SoundBefore, TypeInv, Templates
<1> QED BY <1>1 DEF SoundBefore, SerialInv

\* A row that cannot be written takes the disks of the new machine with it.
LEMMA CreateRowSound == ASSUME SoundBefore, NEW c \in Calls, CreateRow(c) PROVE Sound
<1> DEFINE n == call[c].name
<1>1. call[c].pc = "newrow" /\ UNCHANGED <<mix, dom, backing, images, lock, loc>>
  BY DEF CreateRow
<1>2. CASE Goto(c, "newdef") /\ ListRow(c, n) /\ UNCHANGED vols
  BY <1>1, <1>2, NewRowSound
<1>3. CASE Goto(c, "done") /\ UNCHANGED row /\ vols' = vols \ loc[c].set
  <2>1. dom[n].uuid = None
    BY <1>1, MakerFacts DEF SoundBefore, RowsInv
  <2>2. n \in Names
    BY <1>1, MakerAside
  <2>3. dom[n].disks = {}
    BY <2>1, <2>2 DEF SoundBefore, DisksInv, NamedInv
  <2>4. \A x \in loc[c].set : x[1] = n
    BY <1>1 DEF SoundBefore, DisksInv, HeldInv, Own
  <2>5. vols' \subseteq vols /\ \A x \in vols \ vols' : x[1] = n
    BY <1>3, <2>4
  <2> QED BY <1>1, <1>3, <2>3, <2>5, MakerSound
<1> QED BY <1>2, <1>3 DEF CreateRow

\* A new machine gets its domain, or goes to the recycle bin without its disks.
LEMMA CreateDefineSound == ASSUME SoundBefore, NEW c \in Calls, CreateDefine(c) PROVE Sound
<1> DEFINE n == call[c].name
<1>1. /\ call[c].pc = "newdef" /\ UNCHANGED <<mix, backing, images, lock, loc>>
      /\ Goto(c, "done")
  BY DEF CreateDefine
<1>2. /\ n \in Names /\ c \in VMs /\ \A x \in images : x[1] # n
      /\ \A x \in Parents : x[1] # n
      /\ \A d \in Calls : call[d].vm # c
  BY <1>1, MakerAside
<1>3. PICK D : D = loc[c].disks /\ \A x \in D : Own(n, x)
  BY <1>1 DEF SoundBefore, DisksInv, HeldInv
<1>6. \A x \in loc[c].set : x[1] = n
  BY <1>1 DEF SoundBefore, DisksInv, HeldInv, Own
<1>4. CASE Define(n, [uuid |-> c, disks |-> loc[c].disks]) /\ UNCHANGED <<row, vols>>
  <2>1. /\ \A m \in Names : m # n => dom'[m] = dom[m]
        /\ dom'[n] = [uuid |-> c, disks |-> D]
    BY <1>2, <1>3, <1>4 DEF Define, SoundBefore, TypeInv, VType
  <2>3. dom'[n].uuid = c /\ dom'[n].disks = D
    BY <2>1
  <2>2. \A x \in dom'[n].disks : Own(n, x)
    <3> HIDE DEF n
    <3> QED BY <1>3, <2>3
  <2>4. vols \ vols' = {} /\ vols' \subseteq vols
    BY <1>4
  <2> QED BY <1>1, <1>4, <2>1, <2>2, <2>3, <2>4, MakerSound
<1>5. CASE /\ row' = [row EXCEPT ![c].life = "bin"]
           /\ vols' = vols \ loc[c].set /\ UNCHANGED dom
  <2>1. dom[n].uuid = None
    BY <1>1, MakerFacts DEF SoundBefore, RowsInv
  <2>2. dom[n].disks = {} /\ \A m \in Names : \A y \in dom[m].disks : y[1] = m
    BY <1>2, <2>1 DEF SoundBefore, DisksInv, NamedInv, Own
  <2>3. vols' \subseteq vols /\ \A x \in vols \ vols' : x[1] = n
    BY <1>5, <1>6
  <2>4. Parents' \subseteq Parents
    BY <1>1, <2>3, FewerParents
  <2>5. \A x \in vols \ vols' : x \notin Parents' /\ \A m \in Names : x \notin dom[m].disks
    BY <1>2, <2>2, <2>3, <2>4
  <2>6. Moves(c, "done")
    BY <1>1, PcFacts, MovesBy DEF SoundBefore, TypeInv
  <2>7. HeldInv(c)'
    BY <2>6, HeldFree DEF Reading
  <2>8. \A u \in VMs : u # c => row'[u].life = row[u].life
    BY <1>2, <1>5 DEF SoundBefore, TypeInv, VType
  <2>9. ASSUME NEW d \in Calls PROVE TurnFor(d)'
    <3>1. call[d].vm # None => row'[call[d].vm].life = row[call[d].vm].life
      BY <1>2, <2>8 DEF SoundBefore, TypeInv, VType, CallType
    <3> QED BY <1>1, <2>6, <3>1, TurnStays DEF SoundBefore, DisksInv, HandlerPcs
  <2>10. row[c].name = n
    BY <1>1 DEF SoundBefore, RowsInv, NameInv
  <2>11. \A x \in images : row[c].name # x[1]
    BY <1>2, <2>10
  <2> QED BY <1>1, <1>2, <1>5, <2>3, <2>5, <2>6, <2>7, <2>9, <2>11, LifeSound
<1> QED BY <1>4, <1>5 DEF CreateDefine

\* A clone has its own system disk, and there is no other to copy.
LEMMA CloneDefineSound == ASSUME SoundBefore, NEW c \in Calls, CloneDefine(c) PROVE Sound
<1> DEFINE n == call[c].name
<1>1. /\ call[c].pc = "clonedef" /\ UNCHANGED <<mix, row, vols, backing, images, loc>>
      /\ HeldInv(c)
  BY DEF CloneDefine, SoundBefore, DisksInv
<1>2. CASE Goto(c, "done") /\ UNCHANGED dom
  BY <1>1, <1>2, PcFacts, HandlerStill DEF Reading, HandlerPcs
<1>3. CASE Goto(c, "clonerow") /\ Define(n, CloneSpec(c))
  <2>1. n \in Names /\ c \in VMs
    BY <1>1, MakerAside
  <2>2. \A x \in loc[c].disks : x[2] # "-d2"
    BY <1>1 DEF HeldInv, Own
  <2>3. CloneSpec(c).uuid = c /\ CloneSpec(c).disks = {<<n, "-diska">>}
    BY <2>2 DEF CloneSpec, SystemDisk
  <2>4. /\ \A m \in Names : m # n => dom'[m] = dom[m]
        /\ dom'[n] = CloneSpec(c)
    BY <1>3, <2>1 DEF Define, SoundBefore, TypeInv, VType
  <2>5. dom'[n].uuid = c /\ \A x \in dom'[n].disks : Own(n, x)
    BY <2>3, <2>4 DEF Own
  <2>6. vols \ vols' = {} /\ vols' \subseteq vols
    BY <1>1
  <2> QED BY <1>1, <1>3, <2>4, <2>5, <2>6, MakerSound
<1> QED BY <1>2, <1>3 DEF CloneDefine

\* A clone whose row cannot be written loses domain and disks.
LEMMA CloneRowSound == ASSUME SoundBefore, NEW c \in Calls, CloneRow(c) PROVE Sound
<1> DEFINE n == call[c].name
<1>1. /\ call[c].pc = "clonerow" /\ UNCHANGED <<mix, backing, images, loc>> /\ Goto(c, "done")
  BY DEF CloneRow
<1>2. CASE ListRow(c, n) /\ UNCHANGED <<dom, vols>>
  BY <1>1, <1>2, NewRowSound
<1>3. CASE UNCHANGED row /\ vols' = vols \ dom[n].disks /\ Define(n, NoDomain)
  <2>1. n \in Names
    BY <1>1, MakerAside
  <2>2. /\ \A m \in Names : m # n => dom'[m] = dom[m]
        /\ dom'[n] = NoDomain
    BY <1>3, <2>1 DEF Define, SoundBefore, TypeInv, VType
  <2>3. dom'[n].disks = {}
    BY <2>2 DEF NoDomain
  <2>4. \A x \in dom[n].disks : x[1] = n
    BY <2>1 DEF SoundBefore, DisksInv, NamedInv, Own
  <2>5. vols' \subseteq vols /\ \A x \in vols \ vols' : x[1] = n
    BY <1>3, <2>4
  <2> QED BY <1>1, <1>3, <2>2, <2>3, <2>5, MakerSound
<1> QED BY <1>2, <1>3 DEF CloneRow

\* The roll-back of a machine made from a template.
LEMMA CleanupSound ==
  ASSUME SoundBefore, NEW c \in Calls, call[c].pc \in {"imgdef", "imgrow"}, Goto(c, "done"),
         UNCHANGED <<mix, row, backing, images, loc>>, Cleanup(call[c].name)
  PROVE  Sound
<1> DEFINE n == call[c].name
<1>1. n \in Names
  BY MakerAside
<1>2. /\ \A m \in Names : m # n => dom'[m] = dom[m]
      /\ dom'[n] = NoDomain
  BY <1>1 DEF Cleanup, Define, SoundBefore, TypeInv, VType
<1>3. dom'[n].disks = {}
  BY <1>2 DEF NoDomain
<1>4. vols' \subseteq vols /\ \A x \in vols \ vols' : x[1] = n
  BY DEF Cleanup
<1> QED BY <1>2, <1>3, <1>4, MakerSound

\* A machine made from a template gets its domain, or is rolled back.
LEMMA ImageDefineSound == ASSUME SoundBefore, NEW c \in Calls, ImageDefine(c) PROVE Sound
<1> DEFINE n == call[c].name
<1>1. call[c].pc = "imgdef" /\ UNCHANGED <<mix, row, backing, images, loc>>
  BY DEF ImageDefine
<1>2. CASE /\ Goto(c, "imgrow") /\ Define(n, [uuid |-> c, disks |-> {<<n, "-sys">>}])
           /\ UNCHANGED vols
  <2>1. n \in Names
    BY <1>1, MakerAside
  <2>2. /\ \A m \in Names : m # n => dom'[m] = dom[m]
        /\ dom'[n] = [uuid |-> c, disks |-> {<<n, "-sys">>}]
    BY <1>2, <2>1 DEF Define, SoundBefore, TypeInv, VType
  <2>3. dom'[n].uuid = c /\ \A x \in dom'[n].disks : Own(n, x)
    BY <2>2 DEF Own
  <2>4. vols \ vols' = {} /\ vols' \subseteq vols
    BY <1>2
  <2> QED BY <1>1, <1>2, <2>2, <2>3, <2>4, MakerSound
<1>3. CASE Goto(c, "done") /\ Cleanup(n)
  BY <1>1, <1>3, CleanupSound
<1> QED BY <1>2, <1>3 DEF ImageDefine

\* The same for its row.
LEMMA ImageRowSound == ASSUME SoundBefore, NEW c \in Calls, ImageRow(c) PROVE Sound
<1>1. /\ call[c].pc = "imgrow" /\ UNCHANGED <<mix, backing, images, loc>> /\ Goto(c, "done")
  BY DEF ImageRow
<1>2. CASE ListRow(c, call[c].name) /\ UNCHANGED <<dom, vols>>
  BY <1>1, <1>2, NewRowSound
<1>3. CASE Cleanup(call[c].name) /\ UNCHANGED row
  BY <1>1, <1>3, CleanupSound
<1> QED BY <1>2, <1>3 DEF ImageRow

\* Past its guard a handler has its machine for itself, where machines become templates.
LEMMA TurnOthers ==
  ASSUME SoundBefore, NEW c \in Calls, NEW p, Moves(c, p), call[c].vm # None,
         Handling(c), call[c].pc # "found",
         \A u \in VMs : u # call[c].vm => row'[u].life = row[u].life,
         NEW d \in Calls, d # c
  PROVE  TurnFor(d)'
<1>1. CASE call[d].vm # call[c].vm
  <2>1. call[d].vm # None => row'[call[d].vm].life = row[call[d].vm].life
    BY <1>1 DEF SoundBefore, TypeInv, VType, CallType
  <2> QED BY <2>1, TurnStays DEF SoundBefore, DisksInv
<1>2. CASE call[d].vm = call[c].vm /\ Templates
  <2>1. ~Handling(d) /\ ~Tasked(d)
    BY <1>2, TurnsApart
  <2>2. call[d].pc \notin HandlerPcs \cup {"sysprep", "finundef", "finrow", "register"}
    BY <2>1 DEF Handling, Tasked, TaskPcs
  <2>3. call'[d].pc = call[d].pc
    BY DEF Moves
  <2> QED BY <2>2, <2>3 DEF TurnFor, Handling
<1>3. CASE ~Templates
  BY <1>3 DEF TurnFor, Templates, Moves
<1> QED BY <1>1, <1>2, <1>3

\* A restored row is not a template's.
LEMMA RestoreRowSound == ASSUME SoundBefore, NEW c \in Calls, RestoreRow(c) PROVE Sound
<1> DEFINE v == call[c].vm
<1>1. /\ call[c].pc = "unlisted" /\ UNCHANGED <<mix, dom, vols, backing, images, loc>>
      /\ v \in VMs /\ v # None
  BY ArgFacts, NoneAssumption DEF RestoreRow, SoundBefore, TypeInv
<1>2. call[c].kind = "restore" /\ Handling(c) /\ row[v].life = "bin"
  BY <1>1, PlaceFacts DEF SoundBefore, RowsInv, LifeInv
<1>3. CASE Goto(c, "done") /\ UNCHANGED row
  BY <1>1, <1>3, PcFacts, HandlerStill DEF Reading, HandlerPcs
<1>4. CASE /\ Goto(c, "restored")
           /\ row' = [row EXCEPT ![v].life = IF @ = "gone" THEN @ ELSE "live"]
  <2>1. Moves(c, "restored")
    BY <1>1, <1>4, PcFacts, MovesBy DEF SoundBefore, TypeInv
  <2>2. PICK l \in {"live"} : l = IF row[v].life = "gone" THEN row[v].life ELSE "live"
    BY <1>2
  <2>3. row' = [row EXCEPT ![v].life = l]
    BY <1>1, <1>4, <2>2 DEF SoundBefore, TypeInv, VType
  <2>4. \A u \in VMs : u # v => row'[u].life = row[u].life
    BY <1>1, <2>3 DEF SoundBefore, TypeInv, VType
  <2>5. HeldInv(c)'
    BY <2>1, HeldFree DEF Reading
  <2>6. TurnFor(c)'
    BY <1>1, <1>2, <2>1 DEF TurnFor, Moves
  <2>7. ASSUME NEW d \in Calls PROVE TurnFor(d)'
    BY <1>1, <1>2, <2>1, <2>4, <2>6, TurnOthers
  <2>8. Templates => \A x \in images : row[v].name # x[1]
    BY <1>1, <1>2 DEF SoundBefore, DisksInv, ImageInv
  <2>9. vols \ vols' = {} /\ vols' \subseteq vols
    BY <1>1
  <2> QED BY <1>1, <2>1, <2>2, <2>3, <2>5, <2>7, <2>8, <2>9, LifeSound
<1> QED BY <1>3, <1>4 DEF RestoreRow

\* The row of a purged machine goes.
LEMMA PurgeRowSound == ASSUME SoundBefore, NEW c \in Calls, PurgeRow(c) PROVE Sound
<1> DEFINE v == call[c].vm
<1>1. /\ call[c].pc = "erasing" /\ UNCHANGED <<mix, dom, vols, backing, images, loc>>
      /\ v \in VMs /\ v # None /\ Goto(c, "done")
  BY ArgFacts, NoneAssumption DEF PurgeRow, SoundBefore, TypeInv
<1>2. CASE UNCHANGED row
  BY <1>1, <1>2, PcFacts, HandlerStill DEF Reading, HandlerPcs
<1>3. CASE row' = [row EXCEPT ![v].life = "gone"]
  <2>1. Moves(c, "done")
    BY <1>1, PcFacts, MovesBy DEF SoundBefore, TypeInv
  <2>2. \A u \in VMs : u # v => row'[u].life = row[u].life
    BY <1>1, <1>3 DEF SoundBefore, TypeInv, VType
  <2>3. HeldInv(c)'
    BY <2>1, HeldFree DEF Reading
  <2>4. TurnFor(c)'
    BY <2>1 DEF TurnFor, Moves, Handling, HandlerPcs
  <2>5. Handling(c)
    BY <1>1 DEF Handling, HandlerPcs
  <2>6. ASSUME NEW d \in Calls PROVE TurnFor(d)'
    BY <1>1, <2>1, <2>2, <2>4, <2>5, TurnOthers
  <2>7. vols \ vols' = {} /\ vols' \subseteq vols
    BY <1>1
  <2> QED BY <1>1, <1>3, <2>1, <2>3, <2>6, <2>7, LifeSound
<1> QED BY <1>2, <1>3 DEF PurgeRow

\* Where machines are deleted, their rows say nothing of templates.
LEMMA DeletesOnly ==
  ASSUME SoundBefore, NEW c \in Calls, NEW p, Moves(c, p),
         call[c].pc \in {"delread", "undefine", "guard", "delvols", "delrow"}
  PROVE  ~Templates /\ \A d \in Calls : TurnFor(d)'
<1>1. ~Templates
  BY PlaceFacts DEF SoundBefore, Templates
<1>2. ~Templates'
  BY <1>1 DEF Moves, Templates
<1> QED BY <1>1, <1>2 DEF TurnFor

\* The row of a deleted machine goes to the recycle bin.
LEMMA DeleteRowSound == ASSUME SoundBefore, NEW c \in Calls, DeleteRow(c) PROVE Sound
<1> DEFINE v == call[c].vm
<1>1. /\ call[c].pc = "delrow" /\ UNCHANGED <<mix, dom, vols, backing, images, loc>>
      /\ v \in VMs /\ Goto(c, "done")
  BY ArgFacts DEF DeleteRow, SoundBefore, TypeInv
<1>2. CASE UNCHANGED row
  BY <1>1, <1>2, PcFacts, HandlerStill DEF Reading, HandlerPcs
<1>3. CASE row' = [row EXCEPT ![v].life = IF @ = "gone" THEN @ ELSE "bin"]
  <2>1. Moves(c, "done")
    BY <1>1, PcFacts, MovesBy DEF SoundBefore, TypeInv
  <2>2. PICK l \in {"live", "bin", "gone"} :
          l = IF row[v].life = "gone" THEN row[v].life ELSE "bin"
    OBVIOUS
  <2>3. row' = [row EXCEPT ![v].life = l]
    BY <1>1, <1>3, <2>2 DEF SoundBefore, TypeInv, VType
  <2>4. HeldInv(c)'
    BY <2>1, HeldFree DEF Reading
  <2>5. ~Templates /\ \A d \in Calls : TurnFor(d)'
    BY <1>1, <2>1, DeletesOnly
  <2>6. vols \ vols' = {} /\ vols' \subseteq vols
    BY <1>1
  <2> QED BY <1>1, <2>1, <2>3, <2>4, <2>5, <2>6, LifeSound
<1> QED BY <1>2, <1>3 DEF DeleteRow

\* The row of a machine that has become a template goes, and it has no domain.
LEMMA FinalizeRowSound == ASSUME SoundBefore, NEW c \in Calls, FinalizeRow(c) PROVE Sound
<1> DEFINE v == call[c].vm
<1>1. /\ call[c].pc = "finrow" /\ UNCHANGED <<mix, dom, vols, backing, images, loc>>
      /\ v \in VMs /\ HeldInv(c)
  BY ArgFacts DEF FinalizeRow, SoundBefore, DisksInv, TypeInv
<1>2. CASE Goto(c, "done") /\ UNCHANGED row
  BY <1>1, <1>2, PcFacts, HandlerStill DEF Reading, HandlerPcs
<1>3. CASE Goto(c, "register") /\ row' = [row EXCEPT ![v].life = "gone"]
  <2>1. Moves(c, "register")
    BY <1>1, <1>3, PcFacts, MovesBy DEF SoundBefore, TypeInv
  <2>2. /\ \A u \in VMs : u # v => row'[u].life = row[u].life
        /\ row'[v].life = "gone" /\ row'[v].name = row[v].name
    BY <1>1, <1>3 DEF SoundBefore, TypeInv, VType, RowType
  <2>3. dom[row[v].name].uuid = None
    BY <1>1 DEF SoundBefore, RowsInv, DomInv
  <2>4. call'[c].pc = "register" /\ call'[c].vm = v /\ call'[c].kind = call[c].kind
    BY <1>1, <2>1 DEF Moves
  <2>5. HeldInv(c)'
    BY <1>1, <2>2, <2>3, <2>4 DEF HeldInv, Own
  <2>6. TurnFor(c)'
    BY <2>2, <2>4 DEF TurnFor, Handling, HandlerPcs
  <2>7. ASSUME NEW d \in Calls, d # c PROVE TurnFor(d)'
    <3>1. /\ call'[d].pc = call[d].pc /\ call'[d].kind = call[d].kind /\ call'[d].vm = call[d].vm
          /\ Templates' <=> Templates
      BY <2>1, <2>7 DEF Moves, Templates
    <3>2. CASE call[d].vm = v
      <4>1. Templates => row[v].life \in {"live", "gone"}
        BY <1>1 DEF SoundBefore, DisksInv, TurnFor
      <4>2. Templates => ~(Handling(d) /\ call[d].kind = "purge")
        BY <3>2, <4>1 DEF SoundBefore, DisksInv, TurnFor
      <4> QED BY <2>2, <3>1, <3>2, <4>2 DEF TurnFor, Handling
    <3>3. CASE call[d].vm # v
      <4>1. call[d].vm # None => row'[call[d].vm].life = row[call[d].vm].life
        BY <2>2, <3>3 DEF SoundBefore, TypeInv, VType, CallType
      <4> QED BY <2>1, <2>7, <4>1, TurnStays DEF SoundBefore, DisksInv
    <3> QED BY <3>2, <3>3
  <2>8. vols \ vols' = {} /\ vols' \subseteq vols
    BY <1>1
  <2>9. \A d \in Calls : TurnFor(d)'
    BY <2>6, <2>7
  <2> QED BY <1>1, <1>3, <2>1, <2>5, <2>8, <2>9, LifeSound
<1> QED BY <1>2, <1>3 DEF FinalizeRow

\* A deletion reads the definition and archives its disks.
LEMMA DeleteReadSound == ASSUME SoundBefore, NEW c \in Calls, DeleteRead(c) PROVE Sound
<1> DEFINE v == call[c].vm
           n == row[v].name
<1>1. /\ call[c].pc = "delread" /\ UNCHANGED <<mix, dom, vols, backing, images>>
      /\ v \in VMs /\ n \in Names
  BY ArgFacts DEF DeleteRead, SoundBefore, TypeInv
<1>3. PICK k \in Names : k = n
  BY <1>1
<1>4. /\ \A u \in VMs : row'[u].name = row[u].name /\ row'[u].life = row[u].life
      /\ \A u \in VMs : row'[u].archive # row[u].archive =>
           u = v /\ row'[u].archive = dom[k].disks
      /\ \A d \in Calls : d # c => loc'[d] = loc[d]
      /\ \/ Goto(c, "done") /\ loc' = loc
         \/ Goto(c, "undefine") /\ loc'[c].disks \in {{}, dom[k].disks}
  BY <1>1, <1>3, DeleteReadFacts DEF SoundBefore, TypeInv
<1>6. ASSUME NEW p \in {"undefine", "done"}, Goto(c, p),
             p = "undefine" => loc'[c].disks \in {{}, dom[k].disks}
      PROVE  Sound
  <2>2. Moves(c, p)
    BY <1>1, <1>4, <1>6, PcFacts, MovesBy DEF SoundBefore, TypeInv
  <2>4. /\ \A x \in dom[k].disks : Own(n, x)
        /\ \A u \in VMs : \A x \in row[u].archive : Own(row[u].name, x)
    BY <1>1, <1>3 DEF SoundBefore, DisksInv, NamedInv
  <2>5. ASSUME NEW u \in VMs, NEW x \in row'[u].archive PROVE Own(row'[u].name, x)
    <3>1. CASE row'[u].archive = row[u].archive
      BY <1>4, <2>4, <2>5, <3>1
    <3>2. CASE row'[u].archive # row[u].archive
      BY <1>4, <2>4, <2>5, <3>2
    <3> QED BY <3>1, <3>2
  <2>6. ~Templates /\ \A d \in Calls : TurnFor(d)'
    BY <1>1, <2>2, DeletesOnly
  <2>7. call'[c].pc = p /\ call'[c].vm = v
    BY <1>1, <2>2 DEF Moves
  <2>8. HeldInv(c)'
    <3>1. CASE p = "done"
      BY <2>2, <3>1, HeldFree DEF Reading
    <3>2. CASE p = "undefine"
      <4>1. \A x \in loc'[c].disks : Own(n, x)
        BY <1>6, <2>4, <3>2
      <4>2. row'[v].name = n
        BY <1>1, <1>4
      <4> QED BY <1>1, <2>7, <3>2, <4>1, <4>2 DEF HeldInv, Own
    <3> QED BY <3>1, <3>2
  <2>9. \A d \in Calls : call[d].vm # None => row'[call[d].vm].name = row[call[d].vm].name
    BY <1>4 DEF SoundBefore, TypeInv, VType, CallType
  <2>10. vols \ vols' = {} /\ vols' \subseteq vols
    BY <1>1
  <2> QED BY <1>1, <1>4, <2>2, <2>5, <2>6, <2>8, <2>9, <2>10, Rows
<1> QED BY <1>4, <1>6

\* A restored machine mounts disks of its own name, and is neither purged nor a template.
LEMMA RestoreDomainSound == ASSUME SoundBefore, NEW c \in Calls, RestoreDomain(c) PROVE Sound
<1> DEFINE v == call[c].vm
           n == row[v].name
<1>1. /\ call[c].pc = "restored" /\ UNCHANGED <<mix, row, vols, backing, images, loc>>
      /\ v \in VMs /\ v # None /\ n \in Names /\ Goto(c, "done")
  BY ArgFacts, NoneAssumption DEF RestoreDomain, SoundBefore, TypeInv
<1>2. /\ call[c].kind = "restore" /\ Handling(c) /\ "restore" \in mix.kinds
      /\ row[v].life = "live" /\ dom[n].uuid = None
  BY <1>1, PlaceFacts DEF SoundBefore, RowsInv, LifeInv, DomInv
<1>3. \A u \in VMs : row[u].life # "none" /\ row[u].name = n => u = v
  BY <1>1, OwnerFacts DEF SoundBefore, RowsInv
<1>4. Moves(c, "done")
  BY <1>1, PcFacts, MovesBy DEF SoundBefore, TypeInv
<1>5. HeldInv(c)'
  BY <1>4, HeldFree DEF Reading
<1>6. TurnFor(c)'
  BY <1>4 DEF TurnFor, Moves, Handling, HandlerPcs
<1>7. \A x \in images : x[1] # n
  <2>1. images # {} => Templates
    BY <1>2, MixFacts DEF SoundBefore, TypeInv, DisksInv, ImageInv, Templates
  <2> QED BY <1>1, <1>2, <2>1 DEF SoundBefore, DisksInv, ImageInv
<1>8. ASSUME NEW d \in Calls, d # c
      PROVE  /\ call[d].pc \in {"purgeable", "register"} => n # row[call[d].vm].name
             /\ call[d].pc # "sweep"
  <2>1. call[d].pc # "sweep"
    BY <1>2, PlaceFacts, DiskMixFacts DEF SoundBefore, TypeInv
  <2>2. ASSUME call[d].pc \in {"purgeable", "register"}, n = row[call[d].vm].name
        PROVE  FALSE
    <3>1. call[d].vm \in VMs /\ row[call[d].vm].life # "none"
      BY <2>2, ArgFacts, NoneAssumption DEF SoundBefore, TypeInv, RowsInv, NameInv
    <3>2. call[d].vm = v
      BY <1>3, <2>2, <3>1
    <3>3. ~Handling(d) /\ ~Tasked(d)
      BY <1>1, <1>2, <1>8, <3>2, TurnsApart
    <3> QED BY <2>2, <3>3 DEF Handling, Tasked, HandlerPcs, TaskPcs
  <2> QED BY <2>1, <2>2
<1>9. \A x \in row[v].archive : Own(n, x)
  BY <1>1 DEF SoundBefore, DisksInv, NamedInv
<1>10. \A s \in {"", "-diska", "-sys"} : Own(n, <<n, s>>)
  <2>1. \A m, s : <<m, s>>[1] = m /\ <<m, s>>[2] = s
    OBVIOUS
  <2> QED BY <2>1 DEF Own
<1>11. \/ dom' = dom
       \/ /\ \A m \in Names : m # n => dom'[m] = dom[m]
          /\ dom'[n].uuid = v /\ \A x \in dom'[n].disks : Own(n, x)
  <2>1. PICK k \in Names : k = n
    BY <1>1
  <2>2. ASSUME NEW d \in SUBSET Volumes, Define(k, [uuid |-> v, disks |-> d]), \A x \in d : Own(n, x)
        PROVE  <1>11!:
    <3>1. PICK e \in DomType : e = [uuid |-> v, disks |-> d]
      BY <1>1 DEF DomType
    <3>2. \A m \in Names : dom'[m] = IF m = k THEN e ELSE dom[m]
      BY <2>2, <3>1, DefineFacts DEF SoundBefore, TypeInv
    <3>3. e.uuid = v /\ e.disks = d
      BY <3>1
    <3> QED BY <2>1, <2>2, <3>2, <3>3
  <2>3. \/ dom' = dom
        \/ \E d \in SUBSET Volumes :
             /\ d = row[v].archive \/ d = {<<k, "">>} \/ d = {<<k, "-diska">>} \/ d = {<<k, "-sys">>}
             /\ Define(k, [uuid |-> v, disks |-> d])
    BY <1>1, <2>1, RestoreFacts DEF SoundBefore, TypeInv
  <2>4. \A d : d = row[v].archive \/ d = {<<k, "">>} \/ d = {<<k, "-diska">>} \/ d = {<<k, "-sys">>}
              => \A x \in d : Own(n, x)
    BY <1>9, <1>10, <2>1
  <2> QED BY <2>2, <2>3, <2>4
<1> HIDE DEF n
<1>12. ASSUME NEW m \in Names
       PROVE  \/ dom'[m] = dom[m]
              \/ dom'[m].uuid = None /\ dom'[m].disks = {}
              \/ /\ dom'[m].uuid # None
                 /\ \A x \in dom'[m].disks : Own(m, x)
                 /\ \A x \in images : x[1] # m
                 /\ \A d \in Calls : d # c =>
                      /\ call[d].pc \in {"purgeable", "register"} => m # row[call[d].vm].name
                      /\ call[d].pc # "sweep"
  BY <1>1, <1>7, <1>8, <1>11
<1>13. vols \ vols' = {} /\ vols' \subseteq vols
  BY <1>1
<1> QED BY <1>1, <1>4, <1>5, <1>6, <1>12, <1>13, Domains

\* The disk of a machine becomes a template once that machine has neither domain nor row.
LEMMA RegisterImageSound == ASSUME SoundBefore, NEW c \in Calls, RegisterImage(c) PROVE Sound
<1> DEFINE v == call[c].vm
<1>1. /\ call[c].pc = "register" /\ UNCHANGED <<mix, row, dom, vols, backing, loc>>
      /\ v \in VMs /\ v # None /\ row[v].name \in Names /\ Goto(c, "done")
      /\ HeldInv(c) /\ TurnFor(c) /\ "finalize" \in mix.kinds
  BY ArgFacts, NoneAssumption, PlaceFacts DEF RegisterImage, SoundBefore, DisksInv, TypeInv
<1>2. CASE UNCHANGED images
  BY <1>1, <1>2, PcFacts, HandlerStill DEF Reading, HandlerPcs
<1>3. CASE images' = images \cup loc[c].disks
  <2>1. Moves(c, "done")
    BY <1>1, PcFacts, MovesBy DEF SoundBefore, TypeInv
  <2>2. \A x \in loc[c].disks : x[1] = row[v].name
    BY <1>1 DEF HeldInv, Own
  <2>3. /\ v \in Calls => call[v].pc = "done"
        /\ row[v].life # "none"
        /\ \A u \in VMs : row[u].life # "none" /\ row[u].name = row[v].name => u = v
    BY <1>1, OwnerFacts DEF SoundBefore, RowsInv
  <2>4. \A m : Known(m) => Known(m)'
    BY <1>1, <2>1, KnownStays
  <2>5. PICK n : n = row[v].name /\ Known(n)
    BY <1>1, <2>3 DEF Known
  <2>6. mix' = mix /\ (Templates' <=> Templates) /\ Parents' = Parents
    BY <1>1 DEF Templates, Parents
  <2>7. NamedInv'
    BY <1>1 DEF SoundBefore, DisksInv, NamedInv, Own
  <2>8. ChainInv'
    BY <1>1, <2>4, <2>6 DEF SoundBefore, DisksInv, ChainInv, ParentKept
  <2>9. dom[row[v].name].uuid = None /\ (Templates => row[v].life = "gone")
    BY <1>1 DEF HeldInv, TurnFor
  <2>10. ASSUME NEW x \in images'
         PROVE  /\ Known(x[1])' /\ dom[x[1]].uuid = None
                /\ Templates => \A u \in VMs :
                     row[u].name = x[1] => row[u].life \in {"none", "gone"}
    <3>1. CASE x \in images
      BY <2>4, <3>1 DEF SoundBefore, DisksInv, ImageInv
    <3>2. CASE x \in loc[c].disks
      <4>1. x[1] = n /\ Known(n)'
        BY <2>2, <2>4, <2>5, <3>2
      <4>2. Known(x[1])'
        BY <4>1
      <4>3. dom[n].uuid = None /\ (Templates => \A u \in VMs :
              row[u].name = n => row[u].life \in {"none", "gone"})
        BY <2>3, <2>5, <2>9
      <4> QED BY <4>1, <4>2, <4>3
    <3> QED BY <1>3, <2>10, <3>1, <3>2
  <2>11. ImageInv'
    BY <1>1, <2>6, <2>10 DEF ImageInv
  <2>12. HeldInv(c)'
    BY <2>1, HeldFree DEF Reading
  <2>13. TurnFor(c)'
    BY <2>1 DEF TurnFor, Moves, Handling, HandlerPcs
  <2>14. ASSUME NEW d \in Calls, d # c PROVE HeldInv(d)' /\ TurnFor(d)'
    <3>1. HeldInv(d)'
      BY <1>1, <2>1, <2>6, <2>7, <2>14, HeldStays DEF SoundBefore, DisksInv
    <3>2. TurnFor(d)'
      BY <1>1, <2>1, <2>14, TurnStays DEF SoundBefore, DisksInv
    <3> QED BY <3>1, <3>2
  <2>15. Unmounted
    BY <1>1 DEF Unmounted
  <2> QED BY <2>7, <2>8, <2>11, <2>12, <2>13, <2>14, <2>15 DEF Sound, DisksInv
<1> QED BY <1>2, <1>3 DEF RegisterImage

\* Every step.
LEMMA DisksStep == ASSUME SoundBefore, [Next]_vars PROVE Sound
<1>1. CASE UNCHANGED vars
  BY <1>1, Idle DEF vars, SoundBefore
<1>2. ASSUME NEW c \in Calls, Handler(c) PROVE Sound
  BY <1>2, ArriveSound, GateSound, RestoreRowSound, RestoreDomainSound, PurgeStartSound,
     PurgeCheckSound, PurgeRemoveSound, PurgeUndefineSound, PurgeRowSound DEF Handler
<1>3. ASSUME NEW c \in Calls, Executor(c) PROVE Sound
  BY <1>3, GateSound, CreateVolsSound, CreateRowSound, CreateDefineSound, CloneSourceSound,
     CloneVolumeSound, CloneDefineSound, CloneRowSound, ImageVolumeSound, ImageDefineSound,
     ImageRowSound, DeleteReadSound, DeleteUndefineSound, DeleteGuardSound,
     DeleteVolumesSound, DeleteRowSound, CleanupReadSound, CleanupSweepSound,
     FinalizeReadSound, SysprepSound, FinalizeUndefineSound, FinalizeRowSound,
     RegisterImageSound DEF Executor
<1> QED BY <1>1, <1>2, <1>3 DEF Next

\* At the start there is one machine, perhaps with a linked clone of its disk.
LEMMA DisksStart == ASSUME Init, ~TwoDisks PROVE DisksInv
<1>1. /\ row[Old].name = OldName /\ row[Old].life = "live" /\ Old \in VMs /\ Old \notin Calls
      /\ \A v \in VMs : row[v].archive = {}
  BY OldAssumption DEF Init, NoRow, VMs
<1>2. PICK D : D = Disks(OldName, "") /\ \A x \in D : Own(OldName, x)
  BY FirstDisk
<1>3. PICK child : /\ child = {n \in Names : mix.cloned /\ n # OldName} \X {"-sys"}
                   /\ vols = D \cup child
                   /\ backing = [x \in Volumes |-> IF x \in child THEN <<OldName, "">> ELSE None]
  BY <1>2 DEF Init
<1>4. /\ \A n \in Names : n # OldName => dom[n].uuid = None /\ dom[n].disks = {}
      /\ dom[OldName].uuid = Old /\ dom[OldName].disks = D
  BY <1>2, BoundAssumption DEF Init, NoDomain
<1>5. Old # None
  BY NoneAssumption DEF VMs
<1>6. NamedInv
  BY <1>1, <1>2, <1>4, <1>5 DEF NamedInv
<1>7. D \subseteq Volumes /\ child \subseteq Volumes /\ <<OldName, "">> \in D
  <2>1. D \subseteq Volumes /\ <<OldName, "">> \in D
    BY <1>2, DiskFacts, BoundAssumption
  <2>2. child \subseteq Volumes
    BY <1>3 DEF Volumes
  <2> QED BY <2>1, <2>2
<1>8. ASSUME NEW x \in vols, backing[x] # None PROVE backing[x] = <<OldName, "">>
  BY <1>3, <1>7, <1>8
<1>9. ParentKept
  BY <1>3, <1>7, <1>8 DEF ParentKept
<1>10. Known(OldName)
  BY <1>1 DEF Known
<1>11. <<OldName, "">>[1] = OldName
  OBVIOUS
<1>12. ChainInv
  BY <1>8, <1>9, <1>10, <1>11 DEF ChainInv, Parents
<1>13. images = {} /\ \A c \in Calls : call[c].pc = "idle"
  BY DEF Init
<1>14. ImageInv
  BY <1>13 DEF ImageInv
<1>15. \A c \in Calls : HeldInv(c) /\ TurnFor(c)
  BY <1>13 DEF HeldInv, TurnFor, Handling, HandlerPcs
<1> QED BY <1>6, <1>12, <1>14, <1>15 DEF DisksInv

\* What the invariant says of the volumes and the domains.
LEMMA DisksSettled ==
  ASSUME TypeInv, DisksInv
  PROVE  DisksUnshared /\ ParentKept /\ TemplateUnshared
<1>1. DisksUnshared
  <2> SUFFICES ASSUME NEW m \in Names, NEW n \in Names, m # n, NEW x,
                      x \in dom[m].disks, x \in dom[n].disks
               PROVE  FALSE
    BY DEF DisksUnshared
  <2> QED BY DEF DisksInv, NamedInv, Own
<1>2. ParentKept
  BY DEF DisksInv, ChainInv
<1>3. TemplateUnshared
  <2> SUFFICES ASSUME NEW x \in images, NEW n \in Names, x \in dom[n].disks PROVE FALSE
    BY DEF TemplateUnshared, Mounted
  <2>1. x[1] = n
    BY DEF DisksInv, NamedInv, Own
  <2>2. dom[n].uuid = None
    BY <2>1 DEF DisksInv, ImageInv
  <2> QED BY <2>2 DEF DisksInv, NamedInv
<1> QED BY <1>1, <1>2, <1>3

\* VolumesSound, for every number of machines, calls and failures, in the scenarios where the
\* code keeps it: no disk is shared by two domains, no backing chain is broken, no template is
\* mounted, and no step removes a volume that a domain mounts.  The hypotheses name what breaks
\* it: requests for one machine that cross between guardVMIdle and the lock, unless all of them
\* remove machines (SerialMixes); a guard or a clean-up that has read its references while disks
\* are linked or machines made and restored, and a file given by its path (DiskMixes); and a
\* second disk, which a clone shares with its source (TwoDisks).
THEOREM DisksAreSound ==
  ASSUME ~TwoDisks, SerialMixes, DiskMixes
  PROVE  Spec => VolumesSound
<1>1. Init => RowsInv
  BY RowsStart
<1>2. TypeInv /\ SerialInv /\ RowsInv /\ [Next]_vars => RowsInv'
  BY RowsStep
<1>3. Init => DisksInv
  BY DisksStart
<1>4. TypeInv /\ SerialInv /\ RowsInv /\ DisksInv /\ [Next]_vars => DisksInv' /\ [Unmounted]_vars
  BY DisksStep DEF SoundBefore, Sound
<1>5. TypeInv /\ DisksInv => DisksUnshared /\ ParentKept /\ TemplateUnshared
  BY DisksSettled
<1>6. [Unmounted]_vars =>
        [\A x \in vols \ vols' : \A n \in Names : x \in dom'[n].disks => x \in GivenFiles]_vars
  BY DEF Unmounted
<1>7. Spec => [](TypeInv /\ SerialInv)
  BY SerialAlways
<1>8. Spec => [](RowsInv /\ DisksInv) /\ [][Unmounted]_vars
  BY <1>1, <1>2, <1>3, <1>4, <1>7, PTL DEF Spec
<1>9. Spec => [](DisksUnshared /\ ParentKept /\ TemplateUnshared)
  BY <1>5, <1>7, <1>8, PTL
<1>10. Spec => MountedKept
  BY <1>6, <1>8, PTL DEF MountedKept
<1> QED BY <1>9, <1>10 DEF VolumesSound
=============================================================================
