------------------------------- MODULE Imports -------------------------------
(***************************************************************************)
(* Machines that leave and enter the platform (handler/vm_export.go,       *)
(* vm_export_import.go, vm_import.go): the export of a machine as a        *)
(* package, the import of a package, and the adoption of domains libvirt   *)
(* has and the database has not.                                           *)
(*                                                                         *)
(* A machine is a row, a domain and a file of the pool.  A package holds a *)
(* definition and the contents of the disk.                                *)
(***************************************************************************)
EXTENDS Integers, Sequences, FiniteSets

CONSTANTS
    Ids,            \* UUIDs
    Labels,         \* names of machines
    Paths,          \* files of the default pool
    Porters,        \* requests served at once
    MaxWrites,      \* bound: writes by guests
    ImportMixes     \* scenarios

ASSUME ImportAssumption == MaxWrites \in Nat

VARIABLES
    registry,   \* vms: uuid -> {} or its row
    domains,    \* libvirt: name -> {} or its domain
    pool,       \* file -> its contents, "none" without it
    parcels,    \* packages users have
    filed,      \* unfinished tasks: uuid -> a deletion is pending
    vmHeld,     \* vmlock
    porter,     \* requests at work
    orders,     \* requests that may still come
    slips,      \* calls that may still fail
    writes,     \* writes so far
    outside,    \* domains and files nobody made here (not in the code)
    litter,     \* what a clean-up that failed left (not in the code)
    crossed     \* what two requests were at work on at once, or one behind libvirt's back (not in the code)

importVars == <<registry, domains, pool, parcels, filed, vmHeld, porter, orders, slips, writes, outside, litter, crossed>>
machines == <<registry, domains, pool>>
ghosts == <<outside, litter, crossed>>

NoOne == [at |-> "none", op |-> "none", id |-> "none", name |-> "none", disk |-> "none", data |-> "none", names |-> {}, seen |-> {}]
Slip == slips > 0 /\ slips' = slips - 1
PorterAt(k, place) == porter' = [porter EXCEPT ![k].at = place]
Leaves(k) == porter' = [porter EXCEPT ![k] = NoOne]
Imports(k, x) == porter[k].op = "import" /\ porter[k].disk = x
AtWork(k, id, name) == porter[k].at # "none" /\ (porter[k].id = id \/ porter[k].name = name \/ name \in porter[k].names)
Row(name, life) == [name |-> name, life |-> life]
Domain(id, disk, st) == [id |-> id, disk |-> disk, st |-> st]
Exists(id) == registry[id] # {}
Idle(id) == ~filed[id]                      \* guardVMIdle

\* To begin with rows, domains and files agree, but for what is outside the platform; a path is no name.
ASSUME ParcelAssumption ==
    /\ Labels \cap Paths = {}
    /\ \A mix \in ImportMixes :
        /\ DOMAIN mix.registry = Ids /\ DOMAIN mix.domains = Labels /\ DOMAIN mix.pool = Paths
        /\ \A id \in Ids : \A r \in mix.registry[id] :
             /\ mix.registry[id] = {r} /\ r = Row(r.name, r.life) /\ r.name \in Labels
             /\ r.life = "live" => \E d \in mix.domains[r.name] : d.id = id
        /\ \A n \in Labels : \A d \in mix.domains[n] :
             /\ mix.domains[n] = {d} /\ d = Domain(d.id, d.disk, d.st) /\ d.id \in Ids /\ d.disk \in Paths
             /\ mix.pool[d.disk] # "none" /\ d.disk \notin mix.outside
             /\ Row(n, "live") \in mix.registry[d.id] \/ n \in mix.outside
             /\ \A m \in Labels : \A e \in mix.domains[m] : e.disk = d.disk => m = n
        /\ \A x \in Paths :
             /\ mix.pool[x] # "torn"
             /\ x \in mix.outside => mix.pool[x] = "outside"
             /\ mix.pool[x] # "none" => x \in mix.outside \/ \E n \in Labels : \E d \in mix.domains[n] : d.disk = x
        /\ \A p \in mix.parcels : /\ p.id \in Ids /\ p.name \in Labels /\ p.disk \in Paths
                                   /\ p.data \notin {"none", "torn"}

----------------------------------------------------------------------------
(* Export: guard, lock, shut off, and then the file is read until it ends.  *)

Export(k) == \E q \in orders, id \in Ids :
    /\ q.op = "export" /\ porter[k].at = "none" /\ orders' = orders \ {q}
    /\ \E r \in registry[id] :
         /\ r.life = "live"
         /\ porter' = IF Idle(id) THEN [porter EXCEPT ![k] = [NoOne EXCEPT !.at = "lock", !.op = "export", !.id = id, !.name = r.name]] ELSE porter
    /\ UNCHANGED <<machines, parcels, filed, vmHeld, slips, writes, ghosts>>

\* Mutant: a machine that is paused or runs is exported as well.
ReadyAnyway(d) == TRUE
Ready(d) == d.st = "off"

LockForExport(k) ==
    LET q == porter[k] IN
    /\ q.at = "lock"
    /\ IF q.id \in vmHeld THEN Leaves(k) /\ UNCHANGED vmHeld
       ELSE PorterAt(k, "look") /\ vmHeld' = vmHeld \union {q.id}
    /\ UNCHANGED <<machines, parcels, filed, orders, slips, writes, ghosts>>
LookAtDomain(k) ==
    LET q == porter[k]
        fit == {d \in domains[q.name] : Ready(d) /\ pool[d.disk] # "none"}
    IN
    /\ q.at = "look"
    /\ \/ fit = {} /\ Leaves(k) /\ vmHeld' = vmHeld \ {q.id} /\ UNCHANGED slips
       \/ Slip /\ Leaves(k) /\ vmHeld' = vmHeld \ {q.id}
       \/ \E d \in fit :
            /\ porter' = [porter EXCEPT ![k].at = "stream", ![k].disk = d.disk, ![k].data = pool[d.disk]]
            /\ UNCHANGED <<vmHeld, slips>>
    /\ UNCHANGED <<machines, parcels, filed, orders, writes, ghosts>>
\* streamExportTarGz: the package is what was read from the first byte to the last.
Stream(k) ==
    LET q == porter[k] IN
    /\ q.at = "stream"
    /\ \/ /\ parcels' = parcels \union {[id |-> q.id, name |-> q.name, disk |-> q.disk, data |-> IF pool[q.disk] = q.data THEN q.data ELSE "torn"]}
          /\ UNCHANGED slips
       \/ Slip /\ UNCHANGED parcels
    /\ Leaves(k) /\ vmHeld' = vmHeld \ {q.id}
    /\ UNCHANGED <<machines, filed, orders, writes, ghosts>>

----------------------------------------------------------------------------
(* Import of a package: three checks, three pieces, and back again.         *)

Import(k) == \E q \in orders, p \in parcels :
    /\ q.op = "import" /\ porter[k].at = "none" /\ orders' = orders \ {q}
    /\ porter' = [porter EXCEPT ![k] = [NoOne EXCEPT !.at = "rows", !.op = "import", !.id = p.id, !.name = p.name, !.disk = p.disk, !.data = p.data]]
    /\ crossed' = crossed \union UNION {{p.id, p.name, p.disk, porter[j].disk} :
                         j \in {j \in Porters : AtWork(j, p.id, p.name) \/ Imports(j, p.disk)}}
    /\ UNCHANGED <<machines, parcels, filed, vmHeld, slips, writes, outside, litter>>

\* Deleted machines count as well.
CheckRows(k) ==
    LET q == porter[k]
        taken == Exists(q.id) \/ \E id \in Ids : \E r \in registry[id] : r.name = q.name
    IN
    /\ q.at = "rows"
    /\ \/ ~taken /\ PorterAt(k, "domain") /\ UNCHANGED slips
       \/ taken /\ Leaves(k) /\ UNCHANGED slips
       \/ Slip /\ Leaves(k)
    /\ UNCHANGED <<machines, parcels, filed, vmHeld, orders, writes, ghosts>>
\* A libvirt that does not answer counts as no domain.
CheckDomain(k) ==
    LET q == porter[k] IN
    /\ q.at = "domain"
    /\ \/ domains[q.name] = {} /\ PorterAt(k, "volume") /\ UNCHANGED slips
       \/ domains[q.name] # {} /\ Leaves(k) /\ UNCHANGED slips
       \/ Slip /\ PorterAt(k, "volume")
    /\ crossed' = crossed \union (IF porter'[k].at = "volume" THEN UNION {{q.id, q.name, d.disk} : d \in domains[q.name]} ELSE {})
    /\ UNCHANGED <<machines, parcels, filed, vmHeld, orders, writes, outside, litter>>

\* Mutant: the check for a file of that name is dropped.
MayPlaceAnyway(k) == TRUE
MayPlace(k) == pool[porter[k].disk] = "none"

CheckVolume(k) ==
    /\ porter[k].at = "volume"
    /\ IF MayPlace(k) THEN PorterAt(k, "restore") ELSE Leaves(k)
    /\ UNCHANGED <<machines, parcels, filed, vmHeld, orders, slips, writes, ghosts>>
\* Moved over whatever is there.  A copy that fails removes what it wrote, or cannot; what a chmod
\* that fails leaves is not removed either.
RestoreVolume(k) ==
    LET q == porter[k] IN
    /\ q.at = "restore"
    /\ \/ pool' = [pool EXCEPT ![q.disk] = q.data] /\ PorterAt(k, "define") /\ UNCHANGED <<slips, litter>>
       \/ Slip /\ pool' = [pool EXCEPT ![q.disk] = "none"] /\ Leaves(k) /\ UNCHANGED litter
       \/ /\ Slip /\ Leaves(k) /\ litter' = litter \union {q.disk}
          /\ \E rest \in {q.data, "torn"} : pool' = [pool EXCEPT ![q.disk] = rest]
    /\ UNCHANGED <<registry, domains, parcels, filed, vmHeld, orders, writes, outside, crossed>>
\* libvirt takes a domain of its own for one of the same UUID, and refuses the UUID or the name of another.
DefineImported(k) ==
    LET q == porter[k]
        refused == \E n \in Labels : \E d \in domains[n] : (n = q.name) # (d.id = q.id)
        st == IF \E d \in domains[q.name] : d.st = "run" THEN "run" ELSE "off"
    IN
    /\ q.at = "define"
    /\ \/ ~refused /\ domains' = [domains EXCEPT ![q.name] = {Domain(q.id, q.disk, st)}] /\ PorterAt(k, "record") /\ UNCHANGED slips
       \/ refused /\ PorterAt(k, "unlink") /\ UNCHANGED <<domains, slips>>
       \/ Slip /\ PorterAt(k, "unlink") /\ UNCHANGED domains
    /\ UNCHANGED <<registry, pool, parcels, filed, vmHeld, orders, writes, ghosts>>

\* Mutant: a row that cannot be written ends the request.
RecordImportedOnly(k) ==
    LET q == porter[k] IN
    /\ q.at = "record"
    /\ \/ ~Exists(q.id) /\ registry' = [registry EXCEPT ![q.id] = {Row(q.name, "live")}] /\ Leaves(k) /\ UNCHANGED slips
       \/ Exists(q.id) /\ Leaves(k) /\ UNCHANGED <<registry, slips>>
       \/ Slip /\ Leaves(k) /\ UNCHANGED registry
    /\ UNCHANGED <<domains, pool, parcels, filed, vmHeld, orders, writes, ghosts>>

\* The index on the UUID refuses a second row.
RecordImported(k) ==
    LET q == porter[k] IN
    /\ q.at = "record"
    /\ \/ ~Exists(q.id) /\ registry' = [registry EXCEPT ![q.id] = {Row(q.name, "live")}] /\ Leaves(k) /\ UNCHANGED slips
       \/ Exists(q.id) /\ PorterAt(k, "undefine") /\ UNCHANGED <<registry, slips>>
       \/ Slip /\ PorterAt(k, "undefine") /\ UNCHANGED registry
    /\ UNCHANGED <<domains, pool, parcels, filed, vmHeld, orders, writes, ghosts>>
\* cleanupImport; what fails here is left to the administrator.
UndefineImported(k) ==
    LET q == porter[k] IN
    /\ q.at = "undefine" /\ PorterAt(k, "unlink")
    /\ \/ domains' = [domains EXCEPT ![q.name] = {}] /\ UNCHANGED <<slips, litter>>
       \/ Slip /\ litter' = litter \union {q.name, q.disk} /\ UNCHANGED domains
    /\ UNCHANGED <<registry, pool, parcels, filed, vmHeld, orders, writes, outside, crossed>>
UnlinkImported(k) ==
    LET q == porter[k] IN
    /\ q.at = "unlink" /\ Leaves(k)
    /\ \/ pool' = [pool EXCEPT ![q.disk] = "none"] /\ UNCHANGED <<slips, litter>>
       \/ Slip /\ litter' = litter \union {q.disk} /\ UNCHANGED pool
    /\ UNCHANGED <<registry, domains, parcels, filed, vmHeld, orders, writes, outside, crossed>>

----------------------------------------------------------------------------
(* Adoption: the domains are listed once, then taken one after another.     *)

ListDomains(names) == UNION {{[name |-> n, id |-> d.id] : d \in domains[n]} : n \in names \cap Labels}
ImportVMs(k) == \E q \in orders :
    /\ q.op = "adopt" /\ porter[k].at = "none" /\ orders' = orders \ {q}
    /\ \/ /\ porter' = [porter EXCEPT ![k] = [NoOne EXCEPT !.at = "count", !.op = "adopt", !.names = q.names, !.seen = ListDomains(q.names)]]
          /\ UNCHANGED slips
       \/ Slip /\ UNCHANGED porter
    /\ crossed' = crossed \union {x \in q.names : \E j \in Porters : AtWork(j, "none ", x)}
    /\ UNCHANGED <<machines, parcels, filed, vmHeld, writes, outside, litter>>

\* A count that fails counts as nothing.
CountRows(k) == \E s \in porter[k].seen :
    /\ porter[k].at = "count"
    /\ \/ ~Exists(s.id) /\ porter' = [porter EXCEPT ![k].at = "adopt", ![k].id = s.id, ![k].name = s.name] /\ UNCHANGED slips
       \/ Exists(s.id) /\ porter' = [porter EXCEPT ![k].seen = @ \ {s}] /\ UNCHANGED slips
       \/ Slip /\ porter' = [porter EXCEPT ![k].at = "adopt", ![k].id = s.id, ![k].name = s.name]
    /\ UNCHANGED <<machines, parcels, filed, vmHeld, orders, writes, ghosts>>
Adopt(k) ==
    LET q == porter[k]
        rest == [q EXCEPT !.at = "count", !.seen = {s \in q.seen : s.id # q.id}, !.id = "none", !.name = "none"]
    IN
    /\ q.at = "adopt" /\ porter' = [porter EXCEPT ![k] = rest]
    /\ \/ /\ ~Exists(q.id) /\ registry' = [registry EXCEPT ![q.id] = {Row(q.name, "live")}]
          /\ outside' = outside \ {q.name} /\ UNCHANGED slips
       \/ Exists(q.id) /\ UNCHANGED <<registry, outside, slips>>
       \/ Slip /\ UNCHANGED <<registry, outside>>
    /\ UNCHANGED <<domains, pool, parcels, filed, vmHeld, orders, writes, litter, crossed>>
Adopted(k) ==
    /\ porter[k].at = "count" /\ porter[k].seen = {} /\ Leaves(k)
    /\ UNCHANGED <<machines, parcels, filed, vmHeld, orders, slips, writes, ghosts>>

----------------------------------------------------------------------------
(* What happens to the machines meanwhile.                                  *)

\* StartVM, StopVM, DeleteVM ask for tasks before they take the lock, as an export does.
Guarded(k) == \E q \in orders, id \in Ids :
    /\ q.op \in {"start", "stop", "delete"} /\ porter[k].at = "none" /\ orders' = orders \ {q}
    /\ \E r \in registry[id] :
         /\ r.life = "live"
         /\ porter' = IF Idle(id) THEN [porter EXCEPT ![k] = [NoOne EXCEPT !.at = "act", !.op = q.op, !.id = id, !.name = r.name]] ELSE porter
    /\ UNCHANGED <<machines, parcels, filed, vmHeld, slips, writes, ghosts>>
PowerOrDelete(k) ==
    LET q == porter[k]
        st == IF q.op = "start" THEN "run" ELSE "off"
    IN
    /\ q.at = "act" /\ Leaves(k)
    /\ IF q.id \in vmHeld THEN UNCHANGED <<domains, filed, crossed>>
       ELSE IF q.op = "delete"
         THEN /\ filed' = [filed EXCEPT ![q.id] = TRUE]
              /\ crossed' = crossed \union (IF \E j \in Porters : porter[j].at = "lock" /\ porter[j].id = q.id THEN {q.id} ELSE {})
              /\ UNCHANGED domains
         ELSE domains' = [domains EXCEPT ![q.name] = {[d EXCEPT !.st = st] : d \in @}] /\ UNCHANGED <<filed, crossed>>
    /\ UNCHANGED <<registry, pool, parcels, vmHeld, orders, slips, writes, outside, litter>>
\* A running guest writes to its disk.
GuestWrites == \E n \in Labels : \E d \in domains[n] :
    /\ d.st = "run" /\ writes < MaxWrites /\ writes' = writes + 1
    /\ pool' = [pool EXCEPT ![d.disk] = "written"]
    /\ UNCHANGED <<registry, domains, parcels, filed, vmHeld, porter, orders, slips, ghosts>>
\* delete_vm: domain, file and row; it does not know the lock.
Deletion == \E id \in Ids : \E r \in registry[id] :
    /\ filed[id] /\ filed' = [filed EXCEPT ![id] = FALSE]
    /\ domains' = [domains EXCEPT ![r.name] = {}]
    /\ pool' = [x \in Paths |-> IF \E d \in domains[r.name] : d.disk = x THEN "none" ELSE pool[x]]
    /\ registry' = [registry EXCEPT ![id] = {Row(r.name, "bin")}]
    /\ UNCHANGED <<parcels, vmHeld, porter, orders, slips, writes, ghosts>>

ImportInit == \E mix \in ImportMixes :
    /\ registry = mix.registry /\ domains = mix.domains /\ pool = mix.pool /\ parcels = mix.parcels
    /\ filed = [id \in Ids |-> FALSE] /\ vmHeld = {} /\ porter = [k \in Porters |-> NoOne]
    /\ orders = mix.orders /\ slips = mix.slips /\ writes = 0
    /\ outside = mix.outside /\ litter = {} /\ crossed = {}
ImportNext ==
    \/ GuestWrites \/ Deletion
    \/ \E k \in Porters :
         \/ Export(k) \/ LockForExport(k) \/ LookAtDomain(k) \/ Stream(k)
         \/ Import(k) \/ CheckRows(k) \/ CheckDomain(k) \/ CheckVolume(k) \/ RestoreVolume(k) \/ DefineImported(k) \/ RecordImported(k)
         \/ UndefineImported(k) \/ UnlinkImported(k)
         \/ ImportVMs(k) \/ CountRows(k) \/ Adopt(k) \/ Adopted(k)
         \/ Guarded(k) \/ PowerOrDelete(k)
ImportSpec == ImportInit /\ [][ImportNext]_importVars

----------------------------------------------------------------------------
(* Properties.                                                              *)

\* A file that a failed clean-up or another request had in hand may be gone.
Whole(id, n) == \E d \in domains[n] : d.id = id /\ (pool[d.disk] # "none" \/ d.disk \in litter \union crossed)

\* Once the requests for a machine have ended, and none of them met another, its
\* row, its domain and its file are there together or not at all, wherever a step
\* failed: an import that fails takes back what it made, but for what it reports
\* it could not (vm_export_import.go, Import, cleanupImport).
PiecesAgree == \A id \in Ids, n \in Labels :
    (id \notin crossed /\ n \notin crossed /\ \A k \in Porters : ~AtWork(k, id, n)) =>
        /\ (Row(n, "live") \in registry[id]) => Whole(id, n)
        /\ (\E d \in domains[n] : d.id = id) => Row(n, "live") \in registry[id] \/ n \in outside \union litter

\* Imports that meet no other replace no file they find in the pool, and leave none there
\* that no domain has, but for what they report (vm_export_import.go, Import: the third
\* check; copyFileSync, cleanupImport).
FilesKept == \A x \in Paths \ crossed : (\A k \in Porters : porter[k].disk # x) =>
    /\ x \in outside => pool[x] = "outside"
    /\ pool[x] # "none" => x \in outside \union litter \/ \E n \in Labels : \E d \in domains[n] : d.disk = x

\* An export that comes to its end holds the disk as it was in one moment, although
\* machines are started, stopped and deleted meanwhile. The exceptions: a deletion that
\* is submitted between its guard and its lock, an import that met it at its machine or
\* its file, and what a failed clean-up left behind (vm_export.go, Export).
ExportsWhole == \A p \in parcels : p.data = "torn" => {p.id, p.name, p.disk} \cap (litter \union crossed) # {}
=============================================================================
