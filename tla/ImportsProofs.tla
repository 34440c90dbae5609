---------------------------- MODULE ImportsProofs ----------------------------
(***************************************************************************)
(* Theorems about Imports for any machines, files, packages, requests and  *)
(* failures.  The predicates of the inductive invariant take the domains,  *)
(* files and rows they speak of as parameters, so that the lemmas can      *)
(* speak of those before a step and after it.                              *)
(***************************************************************************)
EXTENDS Imports, TLAPS

PorterFields == {"at", "op", "id", "name", "disk", "data", "names", "seen"}
Guards == {"lock", "look", "stream", "act"}
Works == {"restore", "define", "record", "undefine", "unlink"}

\* What requests met one another about, or a clean-up left.
Muddled == crossed \union litter

Has(D, n, x) == \E d \in D[n] : d.disk = x
Holds(q, x) == q.op = "import" /\ q.at \in {"define", "record", "undefine", "unlink"} /\ q.disk = x
Claims(q, n) == q.op = "import" /\ q.at \in {"record", "undefine"} /\ q.name = n

\* What a request carries at each place.
SoundPorter(q) ==
  /\ DOMAIN q = PorterFields
  /\ \/ q.at = "none" /\ q.op = "none"
     \/ q.at \in {"lock", "look", "stream"} /\ q.op = "export"
     \/ q.at \in {"rows", "domain", "volume"} \union Works /\ q.op = "import"
     \/ q.at \in {"count", "adopt"} /\ q.op = "adopt"
     \/ q.at = "act" /\ q.op \in {"start", "stop", "delete"}
  /\ q.at \in Guards => q.id \in Ids /\ q.name \in Labels
  /\ q.at = "stream" => q.disk \in Paths /\ q.data # "none"
  /\ q.op = "import" => q.id \in Ids /\ q.name \in Labels /\ q.disk \in Paths /\ q.data # "none"
  /\ q.op = "adopt" => \A s \in q.seen : s.id \in Ids /\ s.name \in q.names \cap Labels
  /\ q.at = "adopt" => q.id \in Ids /\ q.name \in q.names \cap Labels

RowsTyped(R) == DOMAIN R = Ids /\ \A id \in Ids : \A r \in R[id] :
  R[id] = {r} /\ r = Row(r.name, r.life) /\ r.name \in Labels
DomainsTyped(D) == DOMAIN D = Labels /\ \A n \in Labels : \A d \in D[n] :
  D[n] = {d} /\ d = Domain(d.id, d.disk, d.st) /\ d.id \in Ids /\ d.disk \in Paths

\* Rows, domains, files and requests are in range, one row for a UUID and one domain for a name.
ImportTypes ==
  /\ RowsTyped(registry) /\ DomainsTyped(domains) /\ DOMAIN pool = Paths /\ DOMAIN filed = Ids
  /\ DOMAIN porter = Porters /\ \A k \in Porters : SoundPorter(porter[k])

\* A file has one domain, a domain has a file, and what is outside nobody touches.
FileSafe(x, D, P, O, M) ==
  /\ x \notin M =>
       /\ \A n, m \in Labels : Has(D, n, x) /\ Has(D, m, x) => n = m
       /\ \A n \in Labels : Has(D, n, x) => P[x] # "none"
       /\ P[x] = "torn" => \A n \in Labels : \A d \in D[n] : d.disk = x => d.id \in M \/ n \in M
  /\ x \in O => P[x] = "outside" /\ \A n \in Labels : ~Has(D, n, x)
FilesInv == \A x \in Paths : FileSafe(x, domains, pool, outside, Muddled)

\* A file that is there is from outside, or has a domain, or an import is at work on it.
OwnedInv == \A x \in Paths : x \notin Muddled /\ pool[x] # "none" =>
  \/ x \in outside
  \/ \E n \in Labels : Has(domains, n, x)
  \/ \E k \in Porters : Holds(porter[k], x)

\* An import past its checks has its file and its domain to itself.
DiskSafe(q, D, P, O, M) == q.op = "import" =>
  /\ q.at \in {"volume", "restore", "define"} => \A d \in D[q.name] : d.disk \in M
  /\ q.at \in {"record", "undefine"} => \A d \in D[q.name] : d.disk \in M \union {q.disk}
  /\ q.at \in Works => q.disk \notin O
  /\ q.data = "torn" => {q.id, q.name, q.disk} \cap M # {}
  /\ q.disk \notin M =>
       /\ q.at \in {"restore", "define", "unlink"} => \A n \in Labels : ~Has(D, n, q.disk)
       /\ q.at \in {"record", "undefine"} =>
            /\ \A n \in Labels : Has(D, n, q.disk) => n = q.name
            /\ P[q.disk] # "none" => Has(D, q.name, q.disk)
       /\ q.at = "restore" => P[q.disk] = "none"
       /\ q.at = "define" => /\ P[q.disk] # "none"
                             /\ P[q.disk] = "torn" => q.id \in M \/ q.name \in M

\* A row that is live has its domain; a deletion that is pending takes no other domain.
RowSafe(id, R, D, F, C) ==
  /\ F[id] => R[id] # {}
  /\ \A r \in R[id] : r.name \notin C =>
       /\ r.life = "live" => \E d \in D[r.name] : d.id = id
       /\ F[id] => \A d \in D[r.name] : d.id = id
RowsInv == \A id \in Ids : RowSafe(id, registry, domains, filed, crossed)

\* A domain has a live row, or the platform has not made it or could not remove it, or an import
\* is about to record or to undefine it.
KnownInv == \A n \in Labels : n \notin crossed => \A d \in domains[n] :
  \/ Row(n, "live") \in registry[d.id]
  \/ n \in outside \union litter
  \/ \E k \in Porters : Claims(porter[k], n)

\* Without a row a domain that was listed is still the one that was listed.
Listed(id, n, R, D, C) == n \notin C /\ R[id] = {} => \E d \in D[n] : d.id = id

\* What a request has read of rows and domains still holds when it acts on it.
NameSafe(q, R, D, C) ==
  /\ q.at \in Guards =>
       /\ \E r \in R[q.id] : r.name = q.name
       /\ q.name \notin C => \A d \in D[q.name] : d.id = q.id
  /\ q.at \in {"domain", "volume", "restore", "define", "record", "undefine"} /\ q.name \notin C =>
       \A id \in Ids : \A r \in R[id] : r.name # q.name
  /\ q.at = "record" /\ q.name \notin C => \E d \in D[q.name] : d.id = q.id
  /\ q.op = "adopt" => \A s \in q.seen : Listed(s.id, s.name, R, D, C)
  /\ q.at = "adopt" => Listed(q.id, q.name, R, D, C)

\* An export reads one file of one machine that is off.
StreamSafe(q, D, P, M) == q.at = "stream" /\ {q.id, q.name, q.disk} \cap M = {} =>
  /\ P[q.disk] = q.data
  /\ \E d \in D[q.name] : d.id = q.id /\ d.disk = q.disk /\ d.st = "off"

PorterSafe(q, R, D, P, O, C, M) == DiskSafe(q, D, P, O, M) /\ NameSafe(q, R, D, C) /\ StreamSafe(q, D, P, M)
PortersInv == \A k \in Porters : PorterSafe(porter[k], registry, domains, pool, outside, crossed, Muddled)

\* Two requests that make or adopt the same are crossed.
Apart(p, q, C) == p.op = "import" =>
  /\ q.op = "import" /\ (p.name = q.name \/ p.disk = q.disk) => {p.disk, q.disk} \subseteq C
  /\ q.op = "import" /\ p.name = q.name => p.name \in C
  /\ q.op = "adopt" /\ p.name \in q.names => p.name \in C
PairsInv == \A j, k \in Porters : j # k => Apart(porter[j], porter[k], crossed)

Books == ImportTypes /\ FilesInv /\ OwnedInv /\ RowsInv /\ KnownInv /\ PairsInv /\ PortersInv

\* An export that has looked holds the lock, alone, and no deletion is pending behind it.
LocksInv ==
  /\ \A k \in Porters : porter[k].at \in {"look", "stream"} => porter[k].id \in vmHeld
  /\ \A j, k \in Porters : j # k /\ porter[j].at \in {"look", "stream"} /\ porter[k].at \in {"look", "stream"} =>
       porter[j].id # porter[k].id
  /\ \A k \in Porters : porter[k].at \in {"lock", "look", "stream"} /\ porter[k].id \notin crossed =>
       ~filed[porter[k].id]

ParcelsInv == ExportsWhole /\ \A p \in parcels :
  p.id \in Ids /\ p.name \in Labels /\ p.disk \in Paths /\ p.data # "none"

ImportInv == Books /\ LocksInv /\ ParcelsInv

(***************************************************************************)
(* More that is crossed                                                    *)
(***************************************************************************)
LEMMA FileGrows ==
  ASSUME NEW x, NEW D, NEW P, NEW O, NEW M, NEW N, M \subseteq N, FileSafe(x, D, P, O, M)
  PROVE  FileSafe(x, D, P, O, N)
BY DEF FileSafe

LEMMA RowGrows ==
  ASSUME NEW id, NEW R, NEW D, NEW F, NEW C, NEW N, C \subseteq N, RowSafe(id, R, D, F, C)
  PROVE  RowSafe(id, R, D, F, N)
BY DEF RowSafe

LEMMA PorterGrows ==
  ASSUME NEW q, NEW R, NEW D, NEW P, NEW O, NEW C, NEW M, NEW B, NEW N, C \subseteq B, M \subseteq N,
         PorterSafe(q, R, D, P, O, C, M)
  PROVE  PorterSafe(q, R, D, P, O, B, N)
<1>1. DiskSafe(q, D, P, O, N)
  BY DEF PorterSafe, DiskSafe
<1>2. NameSafe(q, R, D, B)
  BY DEF PorterSafe, NameSafe, Listed
<1>3. StreamSafe(q, D, P, N)
  BY DEF PorterSafe, StreamSafe
<1> QED BY <1>1, <1>2, <1>3 DEF PorterSafe

LEMMA ApartGrows ==
  ASSUME NEW p, NEW q, NEW C, NEW N, C \subseteq N, Apart(p, q, C)
  PROVE  Apart(p, q, N)
BY DEF Apart

(***************************************************************************)
(* Steps that leave machines and files alone                               *)
(***************************************************************************)
\* One request goes on, and everything else stays.
LEMMA OnePorter ==
  ASSUME Books, NEW k \in Porters, NEW c, porter' = [porter EXCEPT ![k] = c], SoundPorter(c),
         UNCHANGED <<machines, filed, outside>>, crossed \subseteq crossed', litter \subseteq litter',
         PorterSafe(c, registry, domains, pool, outside, crossed', Muddled'),
         \A j \in Porters : j # k => Apart(c, porter[j], crossed') /\ Apart(porter[j], c, crossed'),
         \A x \in Paths : Holds(porter[k], x) => Holds(c, x) \/ x \in Muddled',
         \A n \in Labels : Claims(porter[k], n) => Claims(c, n) \/ n \in crossed' \union litter'
  PROVE  Books'
<1>1. /\ DOMAIN porter' = Porters /\ porter'[k] = c /\ \A j \in Porters : j # k => porter'[j] = porter[j]
      /\ DOMAIN porter = Porters /\ \A j \in Porters : SoundPorter(porter[j])
  BY DEF Books, ImportTypes
<1>2. Muddled \subseteq Muddled'
  BY DEF Muddled
<1>3. registry' = registry /\ domains' = domains /\ pool' = pool /\ filed' = filed /\ outside' = outside
  BY DEF machines
<1>4. ImportTypes'
  BY <1>1, <1>3 DEF Books, ImportTypes
<1>5. FilesInv'
  BY <1>2, <1>3, FileGrows DEF Books, FilesInv
<1>6. OwnedInv'
  <2> SUFFICES ASSUME NEW x \in Paths, x \notin Muddled', pool'[x] # "none", x \notin outside',
                      \A n \in Labels : ~Has(domains', n, x)
               PROVE  \E j \in Porters : Holds(porter'[j], x)
    BY DEF OwnedInv
  <2>1. PICK j \in Porters : Holds(porter[j], x)
    BY <1>2, <1>3 DEF Books, OwnedInv
  <2> QED BY <1>1, <2>1
<1>7. RowsInv'
  BY <1>3, RowGrows DEF Books, RowsInv
<1>8. KnownInv'
  <2> SUFFICES ASSUME NEW n \in Labels, n \notin crossed', NEW d \in domains'[n],
                      Row(n, "live") \notin registry'[d.id], n \notin outside' \union litter'
               PROVE  \E j \in Porters : Claims(porter'[j], n)
    BY DEF KnownInv
  <2>1. PICK j \in Porters : Claims(porter[j], n)
    BY <1>3 DEF Books, KnownInv
  <2> QED BY <1>1, <2>1
<1>9. PairsInv'
  BY <1>1, ApartGrows DEF Books, PairsInv
<1>10. PortersInv'
  <2> SUFFICES ASSUME NEW j \in Porters
               PROVE  PorterSafe(porter'[j], registry', domains', pool', outside', crossed', Muddled')
    BY DEF PortersInv
  <2>1. PorterSafe(porter[j], registry, domains, pool, outside, crossed, Muddled)
    BY DEF Books, PortersInv
  <2>2. PorterSafe(porter[j], registry, domains, pool, outside, crossed', Muddled')
    BY <1>2, <2>1, PorterGrows
  <2> QED BY <1>1, <1>3, <2>2
<1> QED BY <1>4, <1>5, <1>6, <1>7, <1>8, <1>9, <1>10 DEF Books

\* A request that stays at what it was asked for meets no other.
SameErrand(c, q) ==
  /\ c.op = "import" => q.op = "import" /\ c.name = q.name /\ c.disk = q.disk
  /\ c.op = "adopt" => q.op = "adopt" /\ c.names = q.names

LEMMA KeepsApart ==
  ASSUME PairsInv, crossed \subseteq crossed', NEW k \in Porters, NEW c, SameErrand(c, porter[k])
  PROVE  \A j \in Porters : j # k => Apart(c, porter[j], crossed') /\ Apart(porter[j], c, crossed')
<1> SUFFICES ASSUME NEW j \in Porters, j # k
             PROVE  Apart(c, porter[j], crossed') /\ Apart(porter[j], c, crossed')
  OBVIOUS
<1>1. Apart(porter[k], porter[j], crossed) /\ Apart(porter[j], porter[k], crossed)
  BY DEF PairsInv
<1> QED BY <1>1 DEF Apart, SameErrand

\* A request that leaves, with nothing of it left behind.
LEMMA LeavingKeeps ==
  ASSUME Books, NEW k \in Porters, Leaves(k),
         UNCHANGED <<machines, filed, outside>>, crossed \subseteq crossed', litter \subseteq litter',
         \A x \in Paths : Holds(porter[k], x) => x \in Muddled',
         \A n \in Labels : Claims(porter[k], n) => n \in crossed' \union litter'
  PROVE  Books'
<1>1. SoundPorter(NoOne)
  BY DEF SoundPorter, NoOne, PorterFields, Works, Guards
<1>2. PorterSafe(NoOne, registry, domains, pool, outside, crossed', Muddled')
  BY DEF PorterSafe, DiskSafe, NameSafe, StreamSafe, NoOne, Guards
<1>3. SameErrand(NoOne, porter[k])
  BY DEF SameErrand, NoOne
<1>4. \A j \in Porters : j # k => Apart(NoOne, porter[j], crossed') /\ Apart(porter[j], NoOne, crossed')
  BY <1>3, KeepsApart DEF Books
<1> QED BY <1>1, <1>2, <1>4, OnePorter DEF Leaves


\* A request that changes its place only.
LEMMA Placed ==
  ASSUME Books, NEW k \in Porters, NEW place, PorterAt(k, place)
  PROVE  \E c : /\ porter' = [porter EXCEPT ![k] = c] /\ DOMAIN c = PorterFields /\ c.at = place
                /\ c.op = porter[k].op /\ c.id = porter[k].id /\ c.name = porter[k].name
                /\ c.disk = porter[k].disk /\ c.data = porter[k].data
                /\ c.names = porter[k].names /\ c.seen = porter[k].seen
<1>1. DOMAIN porter[k] = PorterFields
  BY DEF Books, ImportTypes, SoundPorter
<1>2. PICK c : c = [porter[k] EXCEPT !.at = place]
  OBVIOUS
<1>3. porter' = [porter EXCEPT ![k] = c]
  BY <1>2 DEF PorterAt
<1>4. /\ DOMAIN c = PorterFields /\ c.at = place
      /\ c.op = porter[k].op /\ c.id = porter[k].id /\ c.name = porter[k].name
      /\ c.disk = porter[k].disk /\ c.data = porter[k].data
      /\ c.names = porter[k].names /\ c.seen = porter[k].seen
  BY <1>1, <1>2 DEF PorterFields
<1> QED BY <1>3, <1>4

\* An import that goes on.
LEMMA ImportGoesOn ==
  ASSUME Books, NEW k \in Porters, porter[k].op = "import",
         NEW place, place \in {"domain", "volume"} \union Works, PorterAt(k, place),
         UNCHANGED <<machines, filed, outside>>, crossed \subseteq crossed', litter \subseteq litter',
         \A c : (/\ c.at = place /\ c.op = "import" /\ c.id = porter[k].id /\ c.name = porter[k].name
                 /\ c.disk = porter[k].disk /\ c.data = porter[k].data) =>
              /\ DiskSafe(c, domains, pool, outside, Muddled') /\ NameSafe(c, registry, domains, crossed')
              /\ \A x \in Paths : Holds(porter[k], x) => Holds(c, x) \/ x \in Muddled'
              /\ \A n \in Labels : Claims(porter[k], n) => Claims(c, n) \/ n \in crossed' \union litter'
  PROVE  Books'
<1>1. PICK c : /\ porter' = [porter EXCEPT ![k] = c] /\ DOMAIN c = PorterFields /\ c.at = place
               /\ c.op = porter[k].op /\ c.id = porter[k].id /\ c.name = porter[k].name
               /\ c.disk = porter[k].disk /\ c.data = porter[k].data
               /\ c.names = porter[k].names /\ c.seen = porter[k].seen
  BY Placed
<1>2. /\ DiskSafe(c, domains, pool, outside, Muddled') /\ NameSafe(c, registry, domains, crossed')
      /\ \A x \in Paths : Holds(porter[k], x) => Holds(c, x) \/ x \in Muddled'
      /\ \A n \in Labels : Claims(porter[k], n) => Claims(c, n) \/ n \in crossed' \union litter'
  BY <1>1
<1>3. SoundPorter(porter[k])
  BY DEF Books, ImportTypes
<1>4. SoundPorter(c)
  BY <1>1, <1>3 DEF SoundPorter, Works, Guards
<1>5. StreamSafe(c, domains, pool, Muddled')
  BY <1>1 DEF StreamSafe, Works
<1>6. SameErrand(c, porter[k])
  BY <1>1 DEF SameErrand
<1>7. \A j \in Porters : j # k => Apart(c, porter[j], crossed') /\ Apart(porter[j], c, crossed')
  BY <1>6, KeepsApart DEF Books
<1> QED BY <1>1, <1>2, <1>4, <1>5, <1>7, OnePorter DEF PorterSafe

\* What the invariant says of one request.
LEMMA ThisPorter ==
  ASSUME Books, NEW k \in Porters
  PROVE  /\ SoundPorter(porter[k]) /\ DiskSafe(porter[k], domains, pool, outside, Muddled)
         /\ NameSafe(porter[k], registry, domains, crossed) /\ StreamSafe(porter[k], domains, pool, Muddled)
BY DEF Books, ImportTypes, PortersInv, PorterSafe

\* A machine that is guarded has its row, and no other domain has its name.
LEMMA ReadOfRow ==
  ASSUME Books, NEW id \in Ids, NEW r \in registry[id], r.life = "live", NEW c, c.id = id,
         c.name = r.name, c.op \notin {"import", "adopt"}, c.at \in {"lock", "act"}
  PROVE  PorterSafe(c, registry, domains, pool, outside, crossed, Muddled)
<1>1. c.name \notin crossed => \A d \in domains[c.name] : d.id = id
  <2> SUFFICES ASSUME c.name \notin crossed, NEW d \in domains[c.name]
               PROVE  d.id = id
    OBVIOUS
  <2>1. PICK e \in domains[r.name] : e.id = id
    BY DEF Books, RowsInv, RowSafe
  <2>2. r.name \in Labels
    BY DEF Books, ImportTypes, RowsTyped
  <2>3. d = e
    BY <2>1, <2>2 DEF Books, ImportTypes, DomainsTyped
  <2> QED BY <2>1, <2>3
<1> QED BY <1>1 DEF PorterSafe, DiskSafe, NameSafe, StreamSafe, Guards

LEMMA GuardedKeeps ==
  ASSUME Books, NEW k \in Porters, NEW id \in Ids, NEW r \in registry[id], r.life = "live",
         porter[k].at = "none", NEW c, porter' = [porter EXCEPT ![k] = c],
         DOMAIN c = PorterFields, c.id = id, c.name = r.name,
         (c.at = "lock" /\ c.op = "export") \/ (c.at = "act" /\ c.op \in {"start", "stop", "delete"}),
         UNCHANGED <<machines, filed, ghosts>>
  PROVE  Books'
<1>2. c.at \in {"lock", "act"} /\ c.op \notin {"import", "adopt"}
  OBVIOUS
<1>3. SoundPorter(c)
  <2>1. r.name \in Labels
    BY DEF Books, ImportTypes, RowsTyped
  <2> QED BY <1>2, <2>1 DEF SoundPorter, Guards
<1>4. PorterSafe(c, registry, domains, pool, outside, crossed, Muddled)
  BY <1>2, ReadOfRow
<1>5. SameErrand(c, porter[k])
  BY <1>2 DEF SameErrand
<1>6. crossed' = crossed /\ litter' = litter /\ outside' = outside /\ Muddled' = Muddled
  BY DEF ghosts, Muddled
<1>7. \A j \in Porters : j # k => Apart(c, porter[j], crossed') /\ Apart(porter[j], c, crossed')
  BY <1>5, <1>6, KeepsApart DEF Books
<1>8. ~\E x : Holds(porter[k], x) \/ Claims(porter[k], x)
  BY DEF Holds, Claims
<1> QED BY <1>3, <1>4, <1>6, <1>7, <1>8, OnePorter

\* Nothing moves at all.
LEMMA RestingKeeps ==
  ASSUME Books, UNCHANGED <<machines, filed, porter, outside>>, crossed \subseteq crossed', litter' = litter
  PROVE  Books'
<1>1. Muddled \subseteq Muddled' /\ registry' = registry /\ domains' = domains /\ pool' = pool
  BY DEF Muddled, machines
<1>2. ImportTypes' /\ OwnedInv' /\ KnownInv'
  BY <1>1 DEF Books, ImportTypes, OwnedInv, KnownInv
<1>3. FilesInv' /\ RowsInv' /\ PairsInv'
  BY <1>1, FileGrows, RowGrows, ApartGrows DEF Books, FilesInv, RowsInv, PairsInv
<1>4. PortersInv'
  BY <1>1, PorterGrows DEF Books, PortersInv
<1> QED BY <1>2, <1>3, <1>4 DEF Books

(***************************************************************************)
(* Export                                                                  *)
(***************************************************************************)
LEMMA ExportKeeps ==
  ASSUME Books, NEW k \in Porters, Export(k)
  PROVE  Books'
<1>1. PICK id \in Ids : \E r \in registry[id] :
        /\ r.life = "live" /\ porter[k].at = "none"
        /\ porter' = IF Idle(id) THEN [porter EXCEPT ![k] = [NoOne EXCEPT !.at = "lock", !.op = "export", !.id = id, !.name = r.name]] ELSE porter
        /\ UNCHANGED <<machines, filed, ghosts>>
  BY DEF Export
<1>2. PICK r \in registry[id] :
        /\ r.life = "live" /\ porter[k].at = "none"
        /\ porter' = IF Idle(id) THEN [porter EXCEPT ![k] = [NoOne EXCEPT !.at = "lock", !.op = "export", !.id = id, !.name = r.name]] ELSE porter
        /\ UNCHANGED <<machines, filed, ghosts>>
  BY <1>1
<1>3. CASE Idle(id)
  <2>1. PICK c : c = [NoOne EXCEPT !.at = "lock", !.op = "export", !.id = id, !.name = r.name]
    OBVIOUS
  <2>2. porter' = [porter EXCEPT ![k] = c]
    BY <1>2, <1>3, <2>1
  <2>3. DOMAIN c = PorterFields /\ c.at = "lock" /\ c.op = "export" /\ c.id = id /\ c.name = r.name
    BY <2>1 DEF NoOne, PorterFields
  <2> QED BY <1>2, <2>2, <2>3, GuardedKeeps
<1>4. CASE ~Idle(id)
  BY <1>2, <1>4, RestingKeeps DEF ghosts
<1> QED BY <1>3, <1>4

LEMMA LeavesUnread ==
  ASSUME Books, NEW k \in Porters, Leaves(k), UNCHANGED <<machines, filed, ghosts>>,
         porter[k].at \notin {"define", "record", "undefine", "unlink"}
  PROVE  Books'
<1>1. ~\E x : Holds(porter[k], x) \/ Claims(porter[k], x)
  BY DEF Holds, Claims
<1> QED BY <1>1, LeavingKeeps DEF ghosts

LEMMA LockForExportKeeps ==
  ASSUME Books, NEW k \in Porters, LockForExport(k)
  PROVE  Books'
<1>1. porter[k].at = "lock" /\ UNCHANGED <<machines, filed, ghosts>>
  BY DEF LockForExport
<1>2. CASE Leaves(k)
  BY <1>1, <1>2, LeavesUnread
<1>3. CASE PorterAt(k, "look")
  <2>1. PICK c : /\ porter' = [porter EXCEPT ![k] = c] /\ DOMAIN c = PorterFields /\ c.at = "look"
                 /\ c.op = porter[k].op /\ c.id = porter[k].id /\ c.name = porter[k].name
    BY <1>3, Placed
  <2>2. SoundPorter(porter[k]) /\ NameSafe(porter[k], registry, domains, crossed)
    BY ThisPorter
  <2>3. SoundPorter(c) /\ c.op = "export"
    BY <1>1, <2>1, <2>2 DEF SoundPorter, Works, Guards
  <2>4. crossed' = crossed /\ litter' = litter /\ outside' = outside /\ Muddled' = Muddled
    BY <1>1 DEF ghosts, Muddled
  <2>5. PorterSafe(c, registry, domains, pool, outside, crossed', Muddled')
    BY <1>1, <2>1, <2>2, <2>3, <2>4 DEF PorterSafe, DiskSafe, NameSafe, StreamSafe, Guards
  <2>6. SameErrand(c, porter[k])
    BY <2>3 DEF SameErrand
  <2>7. \A j \in Porters : j # k => Apart(c, porter[j], crossed') /\ Apart(porter[j], c, crossed')
    BY <2>4, <2>6, KeepsApart DEF Books
  <2>8. ~\E x : Holds(porter[k], x) \/ Claims(porter[k], x)
    BY <1>1 DEF Holds, Claims
  <2> QED BY <1>1, <2>1, <2>3, <2>4, <2>5, <2>7, <2>8, OnePorter
<1> QED BY <1>2, <1>3 DEF LockForExport

LEMMA LookAtDomainKeeps ==
  ASSUME Books, NEW k \in Porters, LookAtDomain(k)
  PROVE  Books'
<1>1. porter[k].at = "look" /\ UNCHANGED <<machines, filed, ghosts>>
  BY DEF LookAtDomain
<1>2. CASE Leaves(k)
  BY <1>1, <1>2, LeavesUnread
<1>3. CASE \E d \in domains[porter[k].name] :
             /\ Ready(d) /\ pool[d.disk] # "none"
             /\ porter' = [porter EXCEPT ![k].at = "stream", ![k].disk = d.disk, ![k].data = pool[d.disk]]
  <2>1. PICK d \in domains[porter[k].name] :
             /\ Ready(d) /\ pool[d.disk] # "none"
             /\ porter' = [porter EXCEPT ![k].at = "stream", ![k].disk = d.disk, ![k].data = pool[d.disk]]
    BY <1>3
  <2>2. SoundPorter(porter[k]) /\ NameSafe(porter[k], registry, domains, crossed)
    BY ThisPorter
  <2>3. PICK c : c = [porter[k] EXCEPT !.at = "stream", !.disk = d.disk, !.data = pool[d.disk]]
    OBVIOUS
  <2>4. porter' = [porter EXCEPT ![k] = c]
    BY <2>1, <2>3
  <2>5. /\ DOMAIN c = PorterFields /\ c.at = "stream" /\ c.op = porter[k].op /\ c.id = porter[k].id
        /\ c.name = porter[k].name /\ c.disk = d.disk /\ c.data = pool[d.disk]
    BY <2>2, <2>3 DEF SoundPorter, PorterFields
  <2>6. c.op = "export" /\ c.id \in Ids /\ c.name \in Labels
    BY <1>1, <2>2, <2>5 DEF SoundPorter, Works, Guards
  <2>7. d.disk \in Paths
    BY <2>5, <2>6 DEF Books, ImportTypes, DomainsTyped
  <2>8. SoundPorter(c)
    BY <2>1, <2>5, <2>6, <2>7 DEF SoundPorter, Guards
  <2>9. crossed' = crossed /\ litter' = litter /\ outside' = outside /\ Muddled' = Muddled
    BY <1>1 DEF ghosts, Muddled
  <2>10. NameSafe(c, registry, domains, crossed) /\ DiskSafe(c, domains, pool, outside, Muddled)
    BY <1>1, <2>2, <2>5, <2>6 DEF NameSafe, DiskSafe, Guards
  <2>11. StreamSafe(c, domains, pool, Muddled)
    <3> SUFFICES ASSUME {c.id, c.name, c.disk} \cap Muddled = {}
                 PROVE  d.id = c.id /\ d.disk = c.disk /\ d.st = "off"
      BY <2>5 DEF StreamSafe
    <3>1. c.name \notin crossed
      BY DEF Muddled
    <3> QED BY <1>1, <2>1, <2>2, <2>5, <3>1 DEF NameSafe, Guards, Ready
  <2>12. SameErrand(c, porter[k])
    BY <2>6 DEF SameErrand
  <2>13. \A j \in Porters : j # k => Apart(c, porter[j], crossed') /\ Apart(porter[j], c, crossed')
    BY <2>9, <2>12, KeepsApart DEF Books
  <2>14. ~\E x : Holds(porter[k], x) \/ Claims(porter[k], x)
    BY <1>1 DEF Holds, Claims
  <2> QED BY <1>1, <2>4, <2>8, <2>9, <2>10, <2>11, <2>13, <2>14, OnePorter DEF PorterSafe
<1> QED BY <1>2, <1>3 DEF LookAtDomain

LEMMA StreamKeeps ==
  ASSUME Books, NEW k \in Porters, Stream(k)
  PROVE  Books'
BY LeavesUnread DEF Stream

(***************************************************************************)
(* Import                                                                  *)
(***************************************************************************)
LEMMA ImportKeeps ==
  ASSUME Books, ParcelsInv, NEW k \in Porters, Import(k)
  PROVE  Books'
<1>1. PICK p \in parcels :
        /\ porter[k].at = "none"
        /\ porter' = [porter EXCEPT ![k] = [NoOne EXCEPT !.at = "rows", !.op = "import", !.id = p.id, !.name = p.name, !.disk = p.disk, !.data = p.data]]
        /\ crossed' = crossed \union UNION {{p.id, p.name, p.disk, porter[j].disk} : j \in {j \in Porters : AtWork(j, p.id, p.name) \/ Imports(j, p.disk)}}
        /\ UNCHANGED <<machines, filed, outside, litter>>
  BY DEF Import
<1>2. PICK c : c = [NoOne EXCEPT !.at = "rows", !.op = "import", !.id = p.id, !.name = p.name, !.disk = p.disk, !.data = p.data]
  OBVIOUS
<1>3. porter' = [porter EXCEPT ![k] = c]
  BY <1>1, <1>2
<1>4. /\ DOMAIN c = PorterFields /\ c.at = "rows" /\ c.op = "import" /\ c.id = p.id /\ c.name = p.name
      /\ c.disk = p.disk /\ c.data = p.data
  BY <1>2 DEF NoOne, PorterFields
<1>5. p.id \in Ids /\ p.name \in Labels /\ p.disk \in Paths /\ p.data # "none"
  BY DEF ParcelsInv
<1>6. SoundPorter(c)
  BY <1>4, <1>5 DEF SoundPorter, Guards
<1>7. crossed \subseteq crossed' /\ litter' = litter
  BY <1>1
<1>8. c.data = "torn" => {c.id, c.name, c.disk} \cap Muddled' # {}
  BY <1>4, <1>7 DEF ParcelsInv, ExportsWhole, Muddled
<1>9. PorterSafe(c, registry, domains, pool, outside, crossed', Muddled')
  BY <1>4, <1>8 DEF PorterSafe, DiskSafe, NameSafe, StreamSafe, Works, Guards
<1>10. ASSUME NEW j \in Porters, j # k
       PROVE  Apart(c, porter[j], crossed') /\ Apart(porter[j], c, crossed')
  <2>1. AtWork(j, p.id, p.name) \/ Imports(j, p.disk) =>
          {p.id, p.name, p.disk, porter[j].disk} \subseteq crossed'
    BY <1>1
  <2>2. SoundPorter(porter[j])
    BY DEF Books, ImportTypes
  <2>3. porter[j].op \in {"import", "adopt"} => porter[j].at # "none"
    BY <2>2 DEF SoundPorter, Works
  <2>4. porter[j].op \in {"import", "adopt"} /\ (porter[j].name = p.name \/ p.name \in porter[j].names) =>
          {p.name, p.disk, porter[j].disk} \subseteq crossed'
    BY <2>1, <2>3 DEF AtWork
  <2>5. porter[j].op = "import" /\ porter[j].disk = p.disk => {p.disk, porter[j].disk} \subseteq crossed'
    BY <2>1 DEF Imports
  <2>6. Apart(c, porter[j], crossed')
    BY <1>4, <2>4, <2>5 DEF Apart
  <2>7. Apart(porter[j], c, crossed')
    BY <1>4, <2>4, <2>5 DEF Apart
  <2> QED BY <2>6, <2>7
<1>11. ~\E x : Holds(porter[k], x) \/ Claims(porter[k], x)
  BY <1>1 DEF Holds, Claims
<1> QED BY <1>1, <1>3, <1>6, <1>7, <1>9, <1>10, <1>11, OnePorter

LEMMA CheckRowsKeeps ==
  ASSUME Books, NEW k \in Porters, CheckRows(k)
  PROVE  Books'
<1>1. porter[k].at = "rows" /\ UNCHANGED <<machines, filed, ghosts>>
  BY DEF CheckRows
<1>2. CASE Leaves(k)
  BY <1>1, <1>2, LeavesUnread
<1>3. CASE /\ PorterAt(k, "domain")
           /\ \A id \in Ids : \A r \in registry[id] : r.name # porter[k].name
  <2>1. SoundPorter(porter[k]) /\ DiskSafe(porter[k], domains, pool, outside, Muddled)
    BY ThisPorter
  <2>2. porter[k].op = "import"
    BY <1>1, <2>1 DEF SoundPorter
  <2>3. crossed' = crossed /\ litter' = litter /\ outside' = outside /\ Muddled' = Muddled
    BY <1>1 DEF ghosts, Muddled
  <2>4. ASSUME NEW c, c.at = "domain", c.op = "import", c.id = porter[k].id, c.name = porter[k].name,
               c.disk = porter[k].disk, c.data = porter[k].data
        PROVE  DiskSafe(c, domains, pool, outside, Muddled') /\ NameSafe(c, registry, domains, crossed')
    BY <1>3, <2>1, <2>2, <2>3, <2>4 DEF DiskSafe, NameSafe, Works, Guards
  <2>5. ~\E x : Holds(porter[k], x) \/ Claims(porter[k], x)
    BY <1>1 DEF Holds, Claims
  <2> QED BY <1>1, <1>3, <2>2, <2>3, <2>4, <2>5, ImportGoesOn
<1> QED BY <1>2, <1>3 DEF CheckRows

LEMMA CheckDomainKeeps ==
  ASSUME Books, NEW k \in Porters, CheckDomain(k)
  PROVE  Books'
<1>1. porter[k].at = "domain" /\ UNCHANGED <<machines, filed, outside, litter>>
  BY DEF CheckDomain
<1>2. crossed \subseteq crossed'
  BY DEF CheckDomain
<1>3. ~\E x : Holds(porter[k], x) \/ Claims(porter[k], x)
  BY <1>1 DEF Holds, Claims
<1>4. CASE Leaves(k)
  BY <1>1, <1>2, <1>3, <1>4, LeavingKeeps
<1>5. CASE PorterAt(k, "volume")
  <2>1. /\ SoundPorter(porter[k]) /\ DiskSafe(porter[k], domains, pool, outside, Muddled)
        /\ NameSafe(porter[k], registry, domains, crossed)
    BY ThisPorter
  <2>2. porter[k].op = "import"
    BY <1>1, <2>1 DEF SoundPorter
  <2>3. porter'[k].at = "volume"
    <3>1. PICK c : porter' = [porter EXCEPT ![k] = c] /\ c.at = "volume"
      BY <1>5, Placed
    <3> QED BY <3>1 DEF Books, ImportTypes
  <2>4. \A d \in domains[porter[k].name] : d.disk \in Muddled'
    BY <2>3 DEF CheckDomain, Muddled
  <2>5. Muddled \subseteq Muddled'
    BY <1>1, <1>2 DEF Muddled
  <2>6. ASSUME NEW c, c.at = "volume", c.op = "import", c.id = porter[k].id, c.name = porter[k].name,
               c.disk = porter[k].disk, c.data = porter[k].data
        PROVE  DiskSafe(c, domains, pool, outside, Muddled') /\ NameSafe(c, registry, domains, crossed')
    <3>1. DiskSafe(c, domains, pool, outside, Muddled')
      BY <2>1, <2>2, <2>4, <2>5, <2>6 DEF DiskSafe, Works
    <3>2. NameSafe(c, registry, domains, crossed')
      BY <1>1, <1>2, <2>1, <2>2, <2>6 DEF NameSafe, Guards
    <3> QED BY <3>1, <3>2
  <2> QED BY <1>1, <1>2, <1>3, <1>5, <2>2, <2>6, ImportGoesOn
<1> QED BY <1>4, <1>5 DEF CheckDomain

LEMMA CheckVolumeKeeps ==
  ASSUME Books, NEW k \in Porters, CheckVolume(k)
  PROVE  Books'
<1>1. porter[k].at = "volume" /\ UNCHANGED <<machines, filed, ghosts>>
  BY DEF CheckVolume
<1>2. CASE Leaves(k)
  BY <1>1, <1>2, LeavesUnread
<1>3. CASE PorterAt(k, "restore") /\ MayPlace(k)
  <2>1. /\ SoundPorter(porter[k]) /\ DiskSafe(porter[k], domains, pool, outside, Muddled)
        /\ NameSafe(porter[k], registry, domains, crossed)
    BY ThisPorter
  <2>2. porter[k].op = "import" /\ porter[k].disk \in Paths
    BY <1>1, <2>1 DEF SoundPorter
  <2>3. crossed' = crossed /\ litter' = litter /\ outside' = outside /\ Muddled' = Muddled
    BY <1>1 DEF ghosts, Muddled
  <2>4. FileSafe(porter[k].disk, domains, pool, outside, Muddled) /\ pool[porter[k].disk] = "none"
    BY <1>3, <2>2 DEF Books, FilesInv, MayPlace
  <2>5. porter[k].disk \notin outside
    BY <2>4 DEF FileSafe
  <2>6. ASSUME NEW c, c.at = "restore", c.op = "import", c.id = porter[k].id, c.name = porter[k].name,
               c.disk = porter[k].disk, c.data = porter[k].data
        PROVE  DiskSafe(c, domains, pool, outside, Muddled') /\ NameSafe(c, registry, domains, crossed')
    <3>1. DiskSafe(c, domains, pool, outside, Muddled)
      BY <1>1, <2>1, <2>2, <2>4, <2>5, <2>6 DEF DiskSafe, FileSafe
    <3>2. NameSafe(c, registry, domains, crossed)
      BY <1>1, <2>1, <2>2, <2>6 DEF NameSafe, Guards
    <3> QED BY <2>3, <3>1, <3>2
  <2>7. ~\E x : Holds(porter[k], x) \/ Claims(porter[k], x)
    BY <1>1 DEF Holds, Claims
  <2> QED BY <1>1, <1>3, <2>2, <2>3, <2>6, <2>7, ImportGoesOn DEF Works
<1> QED BY <1>2, <1>3 DEF CheckVolume

\* An import places its file or removes it, while no domain has it.
LEMMA FileChange ==
  ASSUME Books, NEW k \in Porters, NEW c, porter' = [porter EXCEPT ![k] = c], SoundPorter(c), SameErrand(c, porter[k]),
         NEW x \in Paths, NEW v, pool' = [pool EXCEPT ![x] = v],
         UNCHANGED <<registry, domains, filed, outside, crossed>>, litter \subseteq litter',
         porter[k].op = "import", porter[k].disk = x, x \notin outside,
         x \notin Muddled' => \A n \in Labels : ~Has(domains, n, x),
         PorterSafe(c, registry, domains, pool', outside, crossed, Muddled'),
         v # "none" /\ x \notin Muddled' => Holds(c, x),
         \A n \in Labels : ~Claims(porter[k], n)
  PROVE  Books'
<1>1. /\ DOMAIN porter' = Porters /\ porter'[k] = c /\ \A j \in Porters : j # k => porter'[j] = porter[j]
      /\ DOMAIN porter = Porters /\ \A j \in Porters : SoundPorter(porter[j])
  BY DEF Books, ImportTypes
<1>2. Muddled \subseteq Muddled'
  BY DEF Muddled
<1>3. DOMAIN pool' = Paths /\ pool'[x] = v /\ \A y \in Paths : y # x => pool'[y] = pool[y]
  BY DEF Books, ImportTypes
<1>4. ImportTypes'
  BY <1>1, <1>3 DEF Books, ImportTypes
<1>5. FilesInv'
  <2> SUFFICES ASSUME NEW y \in Paths
               PROVE  FileSafe(y, domains', pool', outside', Muddled')
    BY DEF FilesInv
  <2>1. FileSafe(y, domains, pool, outside, Muddled')
    BY <1>2, FileGrows DEF Books, FilesInv
  <2>2. CASE y = x
    BY <1>3, <2>2 DEF FileSafe, Has
  <2>3. CASE y # x
    BY <1>3, <2>1, <2>3 DEF FileSafe
  <2> QED BY <2>2, <2>3
<1>6. OwnedInv'
  <2> SUFFICES ASSUME NEW y \in Paths, y \notin Muddled', pool'[y] # "none", y \notin outside',
                      \A n \in Labels : ~Has(domains', n, y)
               PROVE  \E j \in Porters : Holds(porter'[j], y)
    BY DEF OwnedInv
  <2>1. CASE y = x
    BY <1>1, <1>3, <2>1
  <2>2. CASE y # x
    <3>1. PICK j \in Porters : Holds(porter[j], y)
      BY <1>2, <1>3, <2>2 DEF Books, OwnedInv
    <3>2. j # k
      BY <2>2, <3>1 DEF Holds
    <3> QED BY <1>1, <3>1, <3>2
  <2> QED BY <2>1, <2>2
<1>7. RowsInv'
  BY DEF Books, RowsInv
<1>8. KnownInv'
  <2> SUFFICES ASSUME NEW n \in Labels, n \notin crossed', NEW d \in domains'[n],
                      Row(n, "live") \notin registry'[d.id], n \notin outside' \union litter'
               PROVE  \E j \in Porters : Claims(porter'[j], n)
    BY DEF KnownInv
  <2>1. PICK j \in Porters : Claims(porter[j], n)
    BY DEF Books, KnownInv
  <2> QED BY <1>1, <2>1
<1>9. PairsInv'
  <2>1. \A j \in Porters : j # k => Apart(c, porter[j], crossed') /\ Apart(porter[j], c, crossed')
    BY KeepsApart DEF Books
  <2> QED BY <1>1, <2>1 DEF Books, PairsInv
<1>10. PortersInv'
  <2> SUFFICES ASSUME NEW j \in Porters, j # k
               PROVE  PorterSafe(porter[j], registry, domains, pool', outside, crossed, Muddled')
    BY <1>1 DEF PortersInv
  <2>1. PorterSafe(porter[j], registry, domains, pool, outside, crossed, Muddled')
    BY <1>2, PorterGrows DEF Books, PortersInv
  <2>2. SoundPorter(porter[j]) /\ Apart(porter[j], porter[k], crossed)
    BY DEF Books, ImportTypes, PairsInv
  <2>3. porter[j].op = "import" /\ porter[j].disk \notin Muddled' => porter[j].disk \in Paths \ {x}
    BY <1>2, <2>2 DEF SoundPorter, Apart, Muddled
  <2>4. DiskSafe(porter[j], domains, pool', outside, Muddled')
    BY <1>3, <2>1, <2>3 DEF PorterSafe, DiskSafe
  <2>5. StreamSafe(porter[j], domains, pool', Muddled')
    <3> SUFFICES ASSUME porter[j].at = "stream",
                        {porter[j].id, porter[j].name, porter[j].disk} \cap Muddled' = {}
                 PROVE  pool'[porter[j].disk] = pool[porter[j].disk]
      BY <2>1 DEF PorterSafe, StreamSafe
    <3>1. porter[j].disk \in Paths /\ porter[j].name \in Labels
      BY <2>2 DEF SoundPorter, Guards
    <3>2. Has(domains, porter[j].name, porter[j].disk)
      BY <2>1 DEF PorterSafe, StreamSafe, Has
    <3> QED BY <1>3, <3>1, <3>2
  <2> QED BY <2>1, <2>4, <2>5 DEF PorterSafe
<1> QED BY <1>4, <1>5, <1>6, <1>7, <1>8, <1>9, <1>10 DEF Books

LEMMA RestoreVolumeKeeps ==
  ASSUME Books, NEW k \in Porters, RestoreVolume(k)
  PROVE  Books'
<1> DEFINE q == porter[k]
<1>1. /\ q.at = "restore" /\ SoundPorter(q) /\ DiskSafe(q, domains, pool, outside, Muddled)
      /\ NameSafe(q, registry, domains, crossed)
  BY ThisPorter DEF RestoreVolume
<1>2. q.op = "import" /\ q.disk \in Paths /\ q.data # "none"
  BY <1>1 DEF SoundPorter
<1>3. q.disk \notin outside /\ (q.disk \notin Muddled => \A n \in Labels : ~Has(domains, n, q.disk))
  BY <1>1, <1>2 DEF DiskSafe, Works
<1>4. /\ UNCHANGED <<registry, domains, filed, outside, crossed>> /\ litter \subseteq litter'
      /\ \A n \in Labels : ~Claims(q, n)
  BY <1>1 DEF RestoreVolume, Claims
<1>5. Muddled \subseteq Muddled'
  BY <1>4 DEF Muddled
<1>6. SoundPorter(NoOne) /\ SameErrand(NoOne, q)
  BY DEF SoundPorter, NoOne, PorterFields, Works, Guards, SameErrand
<1>7. PorterSafe(NoOne, registry, domains, pool', outside, crossed, Muddled')
  BY DEF PorterSafe, DiskSafe, NameSafe, StreamSafe, NoOne, Guards
<1>8. CASE pool' = [pool EXCEPT ![q.disk] = q.data] /\ PorterAt(k, "define")
  <2>1. PICK c : /\ porter' = [porter EXCEPT ![k] = c] /\ DOMAIN c = PorterFields /\ c.at = "define"
                 /\ c.op = q.op /\ c.id = q.id /\ c.name = q.name /\ c.disk = q.disk /\ c.data = q.data
    BY <1>8, Placed
  <2>2. SoundPorter(c) /\ SameErrand(c, q) /\ Holds(c, q.disk)
    BY <1>1, <1>2, <2>1 DEF SoundPorter, SameErrand, Holds, Guards, Works
  <2>3. pool'[q.disk] = q.data
    BY <1>2, <1>8 DEF Books, ImportTypes
  <2>4. DiskSafe(c, domains, pool', outside, Muddled')
    BY <1>1, <1>2, <1>5, <2>1, <2>3 DEF DiskSafe, Works
  <2>5. NameSafe(c, registry, domains, crossed) /\ StreamSafe(c, domains, pool', Muddled')
    BY <1>1, <1>2, <2>1 DEF NameSafe, StreamSafe, Guards
  <2>6. PorterSafe(c, registry, domains, pool', outside, crossed, Muddled')
    BY <2>4, <2>5 DEF PorterSafe
  <2> QED BY <1>2, <1>3, <1>4, <1>5, <1>8, <2>1, <2>2, <2>6, FileChange
<1>9. CASE pool' = [pool EXCEPT ![q.disk] = "none"] /\ Leaves(k)
  BY <1>2, <1>3, <1>4, <1>5, <1>6, <1>7, <1>9, FileChange DEF Leaves
<1>10. CASE \E rest \in {q.data, "torn"} :
              pool' = [pool EXCEPT ![q.disk] = rest] /\ Leaves(k) /\ litter' = litter \union {q.disk}
  <2>0. PICK rest \in {q.data, "torn"} :
          pool' = [pool EXCEPT ![q.disk] = rest] /\ Leaves(k) /\ litter' = litter \union {q.disk}
    BY <1>10
  <2>1. q.disk \in Muddled'
    BY <2>0 DEF Muddled
  <2> QED BY <1>2, <1>3, <1>4, <1>5, <1>6, <1>7, <2>0, <2>1, FileChange DEF Leaves
<1> QED BY <1>8, <1>9, <1>10 DEF RestoreVolume

LEMMA UnlinkImportedKeeps ==
  ASSUME Books, NEW k \in Porters, UnlinkImported(k)
  PROVE  Books'
<1> DEFINE q == porter[k]
<1>1. q.at = "unlink" /\ SoundPorter(q) /\ DiskSafe(q, domains, pool, outside, Muddled) /\ Leaves(k)
  BY ThisPorter DEF UnlinkImported
<1>2. q.op = "import" /\ q.disk \in Paths
  BY <1>1 DEF SoundPorter
<1>3. q.disk \notin outside /\ (q.disk \notin Muddled => \A n \in Labels : ~Has(domains, n, q.disk))
  BY <1>1, <1>2 DEF DiskSafe, Works
<1>4. /\ UNCHANGED <<registry, domains, filed, outside, crossed>> /\ litter \subseteq litter'
      /\ \A n \in Labels : ~Claims(q, n)
  BY <1>1 DEF UnlinkImported, Claims
<1>5. CASE pool' = [pool EXCEPT ![q.disk] = "none"]
  <2>1. SoundPorter(NoOne) /\ SameErrand(NoOne, q)
    BY DEF SoundPorter, NoOne, PorterFields, Works, Guards, SameErrand
  <2>2. PorterSafe(NoOne, registry, domains, pool', outside, crossed, Muddled')
    BY DEF PorterSafe, DiskSafe, NameSafe, StreamSafe, NoOne, Guards
  <2>3. Muddled \subseteq Muddled'
    BY <1>4 DEF Muddled
  <2> QED BY <1>1, <1>2, <1>3, <1>4, <1>5, <2>1, <2>2, <2>3, FileChange DEF Leaves
<1>6. CASE pool' = pool /\ litter' = litter \union {q.disk}
  <2>1. \A x \in Paths : Holds(q, x) => x \in Muddled'
    BY <1>6 DEF Holds, Muddled
  <2> QED BY <1>1, <1>4, <1>6, <2>1, LeavingKeeps DEF machines
<1> QED BY <1>5, <1>6 DEF UnlinkImported

\* An import defines its domain, or removes it.
LEMMA DomainChange ==
  ASSUME Books, NEW k \in Porters, NEW c, porter' = [porter EXCEPT ![k] = c], SoundPorter(c), SameErrand(c, porter[k]),
         NEW n \in Labels, NEW x \in Paths, NEW id \in Ids, NEW st, NEW S, S \subseteq {Domain(id, x, st)},
         domains' = [domains EXCEPT ![n] = S],
         UNCHANGED <<registry, pool, filed, outside, litter, crossed>>,
         porter[k].op = "import", porter[k].name = n, porter[k].disk = x, x \notin outside,
         n \notin crossed => \A i \in Ids : \A r \in registry[i] : r.name # n,
         \A d \in domains[n] : d.disk \in Muddled \union {x},
         x \notin Muddled => \A m \in Labels : m # n => ~Has(domains, m, x),
         S # {} /\ x \notin Muddled =>
           pool[x] # "none" /\ (pool[x] = "torn" => id \in Muddled \/ n \in Muddled),
         Holds(c, x), S # {} => Claims(c, n),
         PorterSafe(c, registry, domains', pool, outside, crossed, Muddled)
  PROVE  Books'
<1>1. /\ DOMAIN porter' = Porters /\ porter'[k] = c /\ \A j \in Porters : j # k => porter'[j] = porter[j]
      /\ DOMAIN porter = Porters /\ \A j \in Porters : SoundPorter(porter[j])
  BY DEF Books, ImportTypes
<1>2. Muddled' = Muddled
  BY DEF Muddled
<1>3. DOMAIN domains' = Labels /\ domains'[n] = S /\ \A m \in Labels : m # n => domains'[m] = domains[m]
  BY DEF Books, ImportTypes, DomainsTyped
<1>4. \A d \in S : S = {d} /\ d = Domain(id, x, st) /\ d.id = id /\ d.disk = x /\ d.st = st
  BY DEF Domain
<1>5. ImportTypes'
  <2>1. DomainsTyped(domains')
    BY <1>3, <1>4 DEF Books, ImportTypes, DomainsTyped
  <2> QED BY <1>1, <2>1 DEF Books, ImportTypes
<1>6. FilesInv'
  <2> SUFFICES ASSUME NEW y \in Paths
               PROVE  FileSafe(y, domains', pool', outside', Muddled')
    BY DEF FilesInv
  <2>1. FileSafe(y, domains, pool, outside, Muddled)
    BY DEF Books, FilesInv
  <2>2. \A m \in Labels : m # n => (Has(domains', m, y) <=> Has(domains, m, y))
    BY <1>3 DEF Has
  <2>3. Has(domains', n, y) => y = x /\ S # {}
    BY <1>3, <1>4 DEF Has
  <2>4. CASE y = x
    BY <1>2, <1>3, <1>4, <2>1, <2>2, <2>4 DEF FileSafe, Has
  <2>5. CASE y # x
    <3>1. ~Has(domains', n, y)
      BY <2>3, <2>5
    <3>2. \A d \in domains'[n] : d.disk # y
      BY <3>1 DEF Has
    <3> QED BY ZenonT(40), <1>2, <1>3, <2>1, <2>2, <3>1, <3>2 DEF FileSafe
  <2> QED BY <2>4, <2>5
<1>7. OwnedInv'
  <2> SUFFICES ASSUME NEW y \in Paths, y \notin Muddled, pool[y] # "none", y \notin outside,
                      \A m \in Labels : ~Has(domains', m, y)
               PROVE  \E j \in Porters : Holds(porter'[j], y)
    BY <1>2 DEF OwnedInv
  <2>1. CASE y = x
    BY <1>1, <2>1
  <2>2. CASE y # x
    <3>1. \A m \in Labels : ~Has(domains, m, y)
      BY <1>3, <2>2 DEF Has
    <3>2. PICK j \in Porters : Holds(porter[j], y)
      BY <3>1 DEF Books, OwnedInv
    <3>3. j # k
      BY <2>2, <3>2 DEF Holds
    <3> QED BY <1>1, <3>2, <3>3
  <2> QED BY <2>1, <2>2
<1>8. RowsInv'
  <2> SUFFICES ASSUME NEW i \in Ids
               PROVE  RowSafe(i, registry, domains', filed, crossed)
    BY DEF RowsInv
  <2>1. RowSafe(i, registry, domains, filed, crossed)
    BY DEF Books, RowsInv
  <2>2. \A r \in registry[i] : r.name \notin crossed => r.name \in Labels /\ r.name # n
    BY DEF Books, ImportTypes, RowsTyped
  <2> QED BY <1>3, <2>1, <2>2 DEF RowSafe
<1>9. KnownInv'
  <2> SUFFICES ASSUME NEW m \in Labels, m \notin crossed, NEW d \in domains'[m],
                      Row(m, "live") \notin registry[d.id], m \notin outside \union litter
               PROVE  \E j \in Porters : Claims(porter'[j], m)
    BY DEF KnownInv
  <2>1. CASE m = n
    BY <1>1, <1>3, <2>1
  <2>2. CASE m # n
    <3>1. PICK j \in Porters : Claims(porter[j], m)
      BY <1>3, <2>2 DEF Books, KnownInv
    <3>2. j # k
      BY <2>2, <3>1 DEF Claims
    <3> QED BY <1>1, <3>1, <3>2
  <2> QED BY <2>1, <2>2
<1>10. PairsInv'
  <2>1. \A j \in Porters : j # k => Apart(c, porter[j], crossed') /\ Apart(porter[j], c, crossed')
    BY KeepsApart DEF Books
  <2> QED BY <1>1, <2>1 DEF Books, PairsInv
<1>11. PortersInv'
  <2> SUFFICES ASSUME NEW j \in Porters, j # k
               PROVE  PorterSafe(porter[j], registry, domains', pool, outside, crossed, Muddled)
    BY <1>1, <1>2 DEF PortersInv
  <2> DEFINE p == porter[j]
  <2>1. /\ SoundPorter(p) /\ DiskSafe(p, domains, pool, outside, Muddled)
        /\ NameSafe(p, registry, domains, crossed) /\ StreamSafe(p, domains, pool, Muddled)
    BY ThisPorter
  <2>2. Apart(p, porter[k], crossed) /\ Apart(porter[k], p, crossed)
    BY DEF Books, PairsInv
  <2>3. p.op = "import" /\ (p.name = n \/ p.disk = x) => p.disk \in Muddled /\ x \in Muddled
    BY <2>2 DEF Apart, Muddled
  <2>4. p.op = "import" /\ p.name = n => n \in crossed
    BY <2>2 DEF Apart
  <2>5. p.op = "adopt" /\ n \in p.names => n \in crossed
    BY <2>2 DEF Apart
  <2>6. p.at \in Guards /\ p.name \notin crossed => p.name \in Labels /\ p.name # n
    BY <2>1 DEF NameSafe, SoundPorter
  <2>7. DiskSafe(p, domains', pool, outside, Muddled)
    <3> SUFFICES ASSUME p.op = "import"
                 PROVE  DiskSafe(p, domains', pool, outside, Muddled)
      BY DEF DiskSafe
    <3>1. p.name \in Labels /\ p.disk \in Paths
      BY <2>1 DEF SoundPorter
    <3>2. CASE p.name = n \/ p.disk = x
      <4>1. \A d \in domains'[p.name] : d.disk \in Muddled \/ d \in domains[p.name]
        BY <1>3, <1>4, <2>3, <3>1, <3>2
      <4> QED BY <2>1, <2>3, <3>2, <4>1 DEF DiskSafe
    <3>3. CASE p.name # n /\ p.disk # x
      <4>1. \A m \in Labels : Has(domains', m, p.disk) => Has(domains, m, p.disk)
        BY <1>3, <1>4, <3>3 DEF Has
      <4>2. domains'[p.name] = domains[p.name] /\ (Has(domains, p.name, p.disk) => Has(domains', p.name, p.disk))
        BY <1>3, <3>1, <3>3 DEF Has
      <4> QED BY <2>1, <4>1, <4>2 DEF DiskSafe
    <3> QED BY <3>2, <3>3
  <2>8. NameSafe(p, registry, domains', crossed)
    <3>1. p.at \in Guards => /\ \E r \in registry[p.id] : r.name = p.name
                             /\ p.name \notin crossed => \A d \in domains'[p.name] : d.id = p.id
      BY <1>3, <2>1, <2>6 DEF NameSafe
    <3>2. /\ p.at \in {"domain", "volume", "restore", "define", "record", "undefine"} /\ p.name \notin crossed =>
               \A i \in Ids : \A r \in registry[i] : r.name # p.name
          /\ p.at = "record" /\ p.name \notin crossed => p.name \in Labels /\ p.name # n
      BY <2>1, <2>4 DEF NameSafe, SoundPorter
    <3>3. \A i, m : m \in p.names \cap Labels /\ p.op = "adopt" /\ Listed(i, m, registry, domains, crossed) =>
                      Listed(i, m, registry, domains', crossed)
      BY <1>3, <2>5 DEF Listed
    <3>4. /\ p.op = "adopt" => \A s \in p.seen : s.name \in p.names \cap Labels
          /\ p.at = "adopt" => p.name \in p.names \cap Labels /\ p.op = "adopt"
      BY <2>1 DEF SoundPorter, Works
    <3> QED BY <1>3, <2>1, <3>1, <3>2, <3>3, <3>4 DEF NameSafe
  <2>9. StreamSafe(p, domains', pool, Muddled)
    <3> SUFFICES ASSUME p.at = "stream", {p.id, p.name, p.disk} \cap Muddled = {}
                 PROVE  domains'[p.name] = domains[p.name]
      BY <2>1 DEF StreamSafe
    <3>1. p.name \notin crossed
      BY DEF Muddled
    <3> QED BY <1>3, <2>6, <3>1 DEF Guards
  <2> QED BY <2>7, <2>8, <2>9 DEF PorterSafe
<1> QED BY <1>5, <1>6, <1>7, <1>8, <1>9, <1>10, <1>11 DEF Books

LEMMA DefineImportedKeeps ==
  ASSUME Books, NEW k \in Porters, DefineImported(k)
  PROVE  Books'
<1> DEFINE q == porter[k]
<1>1. /\ q.at = "define" /\ SoundPorter(q) /\ DiskSafe(q, domains, pool, outside, Muddled)
      /\ NameSafe(q, registry, domains, crossed)
  BY ThisPorter DEF DefineImported
<1>2. q.op = "import" /\ q.disk \in Paths /\ q.name \in Labels /\ q.id \in Ids
  BY <1>1 DEF SoundPorter
<1>3. UNCHANGED <<registry, pool, filed, outside, litter, crossed>> /\ Muddled' = Muddled
  BY DEF DefineImported, ghosts, Muddled
<1>4. CASE PorterAt(k, "unlink") /\ domains' = domains
  <2>1. ASSUME NEW c, c.at = "unlink", c.op = "import", c.id = q.id, c.name = q.name,
               c.disk = q.disk, c.data = q.data
        PROVE  /\ DiskSafe(c, domains, pool, outside, Muddled') /\ NameSafe(c, registry, domains, crossed')
               /\ \A x \in Paths : Holds(q, x) => Holds(c, x)
    BY <1>1, <1>2, <1>3, <2>1 DEF DiskSafe, NameSafe, Works, Guards, Holds
  <2>2. ~\E x : Claims(q, x)
    BY <1>1 DEF Claims
  <2> QED BY <1>2, <1>3, <1>4, <2>1, <2>2, ImportGoesOn DEF machines, Works
<1>5. CASE \E st : domains' = [domains EXCEPT ![q.name] = {Domain(q.id, q.disk, st)}] /\ PorterAt(k, "record")
  <2>1. PICK st : domains' = [domains EXCEPT ![q.name] = {Domain(q.id, q.disk, st)}]
    BY <1>5
  <2>2. PICK c : /\ porter' = [porter EXCEPT ![k] = c] /\ DOMAIN c = PorterFields /\ c.at = "record"
                 /\ c.op = q.op /\ c.id = q.id /\ c.name = q.name /\ c.disk = q.disk /\ c.data = q.data
    BY <1>5, Placed
  <2>3. SoundPorter(c) /\ SameErrand(c, q) /\ Holds(c, q.disk) /\ Claims(c, q.name)
    BY <1>1, <1>2, <2>2 DEF SoundPorter, SameErrand, Holds, Claims, Guards, Works
  <2>4. /\ domains'[q.name] = {Domain(q.id, q.disk, st)}
        /\ \A m \in Labels : m # q.name => domains'[m] = domains[m]
    BY <1>2, <2>1 DEF Books, ImportTypes, DomainsTyped
  <2>5. \E d \in domains'[q.name] : d.id = q.id /\ d.disk = q.disk
    BY <2>4 DEF Domain
  <2>6. \A d \in domains'[q.name] : d.id = q.id /\ d.disk = q.disk
    BY <2>4 DEF Domain
  <2>7. /\ q.disk \notin outside /\ \A d \in domains[q.name] : d.disk \in Muddled
        /\ q.data = "torn" => {q.id, q.name, q.disk} \cap Muddled # {}
        /\ q.disk \notin Muddled =>
             /\ \A m \in Labels : ~Has(domains, m, q.disk)
             /\ pool[q.disk] # "none" /\ (pool[q.disk] = "torn" => q.id \in Muddled \/ q.name \in Muddled)
    <3>1. q.disk \notin outside /\ \A d \in domains[q.name] : d.disk \in Muddled
      BY <1>1, <1>2 DEF DiskSafe, Works
    <3>2. q.data = "torn" => {q.id, q.name, q.disk} \cap Muddled # {}
      BY <1>1, <1>2 DEF DiskSafe
    <3>3. q.disk \notin Muddled => \A m \in Labels : ~Has(domains, m, q.disk)
      BY <1>1, <1>2 DEF DiskSafe
    <3>4. q.disk \notin Muddled =>
             pool[q.disk] # "none" /\ (pool[q.disk] = "torn" => q.id \in Muddled \/ q.name \in Muddled)
      BY <1>1, <1>2 DEF DiskSafe
    <3> QED BY <3>1, <3>2, <3>3, <3>4
  <2>8. q.name \notin crossed => \A i \in Ids : \A r \in registry[i] : r.name # q.name
    BY <1>1 DEF NameSafe
  <2>9. DiskSafe(c, domains', pool, outside, Muddled)
    <3>1. \A m \in Labels : q.disk \notin Muddled /\ Has(domains', m, q.disk) => m = q.name
      BY <2>4, <2>7 DEF Has
    <3>2. Has(domains', q.name, q.disk)
      BY <2>5 DEF Has
    <3> QED BY <1>2, <2>2, <2>6, <2>7, <3>1, <3>2 DEF DiskSafe
  <2>10. NameSafe(c, registry, domains', crossed) /\ StreamSafe(c, domains', pool, Muddled)
    BY <1>2, <2>2, <2>5, <2>8 DEF NameSafe, StreamSafe, Guards
  <2>11. PorterSafe(c, registry, domains', pool, outside, crossed, Muddled)
    BY <2>9, <2>10 DEF PorterSafe
  <2> QED BY <1>2, <1>3, <2>1, <2>2, <2>3, <2>7, <2>8, <2>11, DomainChange
<1> QED BY <1>4, <1>5 DEF DefineImported

LEMMA UndefineImportedKeeps ==
  ASSUME Books, NEW k \in Porters, UndefineImported(k)
  PROVE  Books'
<1> DEFINE q == porter[k]
<1>1. /\ q.at = "undefine" /\ SoundPorter(q) /\ DiskSafe(q, domains, pool, outside, Muddled)
      /\ NameSafe(q, registry, domains, crossed) /\ PorterAt(k, "unlink")
  BY ThisPorter DEF UndefineImported
<1>2. q.op = "import" /\ q.disk \in Paths /\ q.name \in Labels /\ q.id \in Ids
  BY <1>1 DEF SoundPorter
<1>3. UNCHANGED <<registry, pool, filed, outside, crossed>>
  BY DEF UndefineImported
<1>4. CASE domains' = domains /\ litter' = litter \union {q.name, q.disk}
  <2>1. q.disk \in Muddled' /\ Muddled \subseteq Muddled' /\ litter \subseteq litter'
    BY <1>3, <1>4 DEF Muddled
  <2>2. ASSUME NEW c, c.at = "unlink", c.op = "import", c.id = q.id, c.name = q.name,
               c.disk = q.disk, c.data = q.data
        PROVE  DiskSafe(c, domains, pool, outside, Muddled') /\ NameSafe(c, registry, domains, crossed')
    BY <1>1, <1>2, <2>1, <2>2 DEF DiskSafe, NameSafe, Works, Guards
  <2>3. \A x \in Paths : Holds(q, x) => x \in Muddled'
    BY <2>1 DEF Holds
  <2>4. \A n \in Labels : Claims(q, n) => n \in crossed' \union litter'
    BY <1>4 DEF Claims
  <2> QED BY <1>1, <1>2, <1>3, <1>4, <2>1, <2>2, <2>3, <2>4, ImportGoesOn DEF machines, Works
<1>5. CASE domains' = [domains EXCEPT ![q.name] = {}] /\ litter' = litter
  <2>1. PICK c : /\ porter' = [porter EXCEPT ![k] = c] /\ DOMAIN c = PorterFields /\ c.at = "unlink"
                 /\ c.op = q.op /\ c.id = q.id /\ c.name = q.name /\ c.disk = q.disk /\ c.data = q.data
    BY <1>1, Placed
  <2>2. SoundPorter(c) /\ SameErrand(c, q) /\ Holds(c, q.disk)
    BY <1>1, <1>2, <2>1 DEF SoundPorter, SameErrand, Holds, Guards, Works
  <2>3. domains'[q.name] = {} /\ \A m \in Labels : m # q.name => domains'[m] = domains[m]
    BY <1>2, <1>5 DEF Books, ImportTypes, DomainsTyped
  <2>4. /\ q.disk \notin outside /\ \A d \in domains[q.name] : d.disk \in Muddled \union {q.disk}
        /\ q.data = "torn" => {q.id, q.name, q.disk} \cap Muddled # {}
        /\ q.disk \notin Muddled => \A m \in Labels : m # q.name => ~Has(domains, m, q.disk)
    BY <1>1, <1>2 DEF DiskSafe, Works
  <2>5. q.name \notin crossed => \A i \in Ids : \A r \in registry[i] : r.name # q.name
    BY <1>1 DEF NameSafe
  <2>6. q.disk \notin Muddled => \A m \in Labels : ~Has(domains', m, q.disk)
    BY <2>3, <2>4 DEF Has
  <2>7. PorterSafe(c, registry, domains', pool, outside, crossed, Muddled)
    BY <1>2, <2>1, <2>4, <2>6 DEF PorterSafe, DiskSafe, NameSafe, StreamSafe, Guards
  <2>8. PICK S : S = {}
    OBVIOUS
  <2>9. /\ domains' = [domains EXCEPT ![q.name] = S] /\ S \subseteq {Domain(q.id, q.disk, "off")}
        /\ ~(S # {})
    BY <1>5, <2>8
  <2> QED BY <1>2, <1>3, <1>5, <2>1, <2>2, <2>4, <2>5, <2>7, <2>9, DomainChange
<1> QED BY <1>4, <1>5 DEF UndefineImported

\* A row is added for a UUID that had none.
LEMMA RowAdded ==
  ASSUME Books, NEW k \in Porters, NEW c, porter' = [porter EXCEPT ![k] = c], SoundPorter(c), SameErrand(c, porter[k]),
         NEW id \in Ids, NEW n \in Labels, registry[id] = {},
         registry' = [registry EXCEPT ![id] = {Row(n, "live")}],
         UNCHANGED <<domains, pool, filed, litter, crossed>>, outside' = outside \/ outside' = outside \ {n},
         n \notin crossed => \E d \in domains[n] : d.id = id,
         \A j \in Porters : j # k /\ porter[j].op = "import" /\ porter[j].name = n => n \in crossed,
         \A x \in Paths : Holds(porter[k], x) /\ x \notin Muddled /\ pool[x] # "none" =>
           \E m \in Labels : Has(domains, m, x),
         \A m \in Labels : Claims(porter[k], m) => m = n,
         PorterSafe(c, registry', domains, pool, outside', crossed, Muddled)
  PROVE  Books'
<1>1. /\ DOMAIN porter' = Porters /\ porter'[k] = c /\ \A j \in Porters : j # k => porter'[j] = porter[j]
      /\ DOMAIN porter = Porters /\ \A j \in Porters : SoundPorter(porter[j])
  BY DEF Books, ImportTypes
<1>2. Muddled' = Muddled
  BY DEF Muddled
<1>3. /\ DOMAIN registry' = Ids /\ registry'[id] = {Row(n, "live")}
      /\ \A i \in Ids : i # id => registry'[i] = registry[i]
  BY DEF Books, ImportTypes, RowsTyped
<1>4. \A r \in registry'[id] : r.name = n /\ r.life = "live" /\ r = Row(r.name, r.life)
  BY <1>3 DEF Row
<1>5. outside' \subseteq outside /\ outside \subseteq outside' \union {n} /\ n \notin Paths
  BY ParcelAssumption
<1>6. ImportTypes'
  <2>1. RowsTyped(registry')
    BY <1>3, <1>4 DEF Books, ImportTypes, RowsTyped
  <2> QED BY <1>1, <2>1 DEF Books, ImportTypes
<1>7. FilesInv'
  <2> SUFFICES ASSUME NEW x \in Paths
               PROVE  FileSafe(x, domains, pool, outside', Muddled)
    BY <1>2 DEF FilesInv
  <2> QED BY <1>5 DEF Books, FilesInv, FileSafe
<1>8. OwnedInv'
  <2> SUFFICES ASSUME NEW x \in Paths, x \notin Muddled, pool[x] # "none", x \notin outside',
                      \A m \in Labels : ~Has(domains, m, x)
               PROVE  \E j \in Porters : Holds(porter'[j], x)
    BY <1>2 DEF OwnedInv
  <2>1. PICK j \in Porters : Holds(porter[j], x)
    BY <1>5 DEF Books, OwnedInv
  <2> QED BY <1>1, <2>1
<1>9. RowsInv'
  <2> SUFFICES ASSUME NEW i \in Ids
               PROVE  RowSafe(i, registry', domains, filed, crossed)
    BY DEF RowsInv
  <2>1. RowSafe(i, registry, domains, filed, crossed)
    BY DEF Books, RowsInv
  <2> QED BY <1>3, <1>4, <2>1 DEF RowSafe
<1>10. KnownInv'
  <2> SUFFICES ASSUME NEW m \in Labels, m \notin crossed, NEW d \in domains[m],
                      Row(m, "live") \notin registry'[d.id], m \notin outside' \union litter
               PROVE  \E j \in Porters : Claims(porter'[j], m)
    BY DEF KnownInv
  <2>1. d.id \in Ids /\ \A e \in domains[m] : e = d
    BY DEF Books, ImportTypes, DomainsTyped
  <2>2. m # n
    <3> SUFFICES ASSUME m = n
                 PROVE  FALSE
      OBVIOUS
    <3>1. PICK e \in domains[n] : e.id = id
      OBVIOUS
    <3> QED BY <1>3, <2>1, <3>1
  <2>3. Row(m, "live") \notin registry[d.id]
    BY <1>3, <2>1
  <2>4. PICK j \in Porters : Claims(porter[j], m)
    BY <1>5, <2>2, <2>3 DEF Books, KnownInv
  <2> QED BY <1>1, <2>2, <2>4
<1>11. PairsInv'
  <2>1. \A j \in Porters : j # k => Apart(c, porter[j], crossed') /\ Apart(porter[j], c, crossed')
    BY KeepsApart DEF Books
  <2> QED BY <1>1, <2>1 DEF Books, PairsInv
<1>12. PortersInv'
  <2> SUFFICES ASSUME NEW j \in Porters, j # k
               PROVE  PorterSafe(porter[j], registry', domains, pool, outside', crossed, Muddled)
    BY <1>1, <1>2 DEF PortersInv
  <2> DEFINE p == porter[j]
  <2>1. /\ SoundPorter(p) /\ DiskSafe(p, domains, pool, outside, Muddled)
        /\ NameSafe(p, registry, domains, crossed) /\ StreamSafe(p, domains, pool, Muddled)
    BY ThisPorter
  <2>2. DiskSafe(p, domains, pool, outside', Muddled)
    BY <1>5, <2>1 DEF DiskSafe
  <2>3. NameSafe(p, registry', domains, crossed)
    <3>1. p.at \in Guards => /\ \E r \in registry'[p.id] : r.name = p.name
                             /\ p.name \notin crossed => \A d \in domains[p.name] : d.id = p.id
      BY <1>3, <2>1 DEF NameSafe, SoundPorter
    <3>2. p.at \in {"domain", "volume", "restore", "define", "record", "undefine"} /\ p.name \notin crossed =>
             \A i \in Ids : \A r \in registry'[i] : r.name # p.name
      <4>1. p.at \in {"domain", "volume", "restore", "define", "record", "undefine"} => p.op = "import"
        BY <2>1 DEF SoundPorter
      <4> QED BY <1>3, <1>4, <2>1, <4>1 DEF NameSafe
    <3>3. \A i \in Ids : \A m : Listed(i, m, registry, domains, crossed) => Listed(i, m, registry', domains, crossed)
      BY <1>3 DEF Listed
    <3>4. /\ p.op = "adopt" => \A s \in p.seen : s.id \in Ids
          /\ p.at = "adopt" => p.id \in Ids
      BY <2>1 DEF SoundPorter
    <3> QED BY <2>1, <3>1, <3>2, <3>3, <3>4 DEF NameSafe
  <2> QED BY <2>1, <2>2, <2>3 DEF PorterSafe
<1> QED BY <1>6, <1>7, <1>8, <1>9, <1>10, <1>11, <1>12 DEF Books

LEMMA RecordImportedKeeps ==
  ASSUME Books, NEW k \in Porters, RecordImported(k)
  PROVE  Books'
<1> DEFINE q == porter[k]
<1>1. /\ q.at = "record" /\ SoundPorter(q) /\ DiskSafe(q, domains, pool, outside, Muddled)
      /\ NameSafe(q, registry, domains, crossed)
  BY ThisPorter DEF RecordImported
<1>2. q.op = "import" /\ q.disk \in Paths /\ q.name \in Labels /\ q.id \in Ids
  BY <1>1 DEF SoundPorter
<1>3. UNCHANGED <<domains, pool, filed, outside, litter, crossed>> /\ Muddled' = Muddled
  BY DEF RecordImported, ghosts, Muddled
<1>4. CASE PorterAt(k, "undefine") /\ registry' = registry
  <2>1. ASSUME NEW c, c.at = "undefine", c.op = "import", c.id = q.id, c.name = q.name,
               c.disk = q.disk, c.data = q.data
        PROVE  /\ DiskSafe(c, domains, pool, outside, Muddled') /\ NameSafe(c, registry, domains, crossed')
               /\ \A x \in Paths : Holds(q, x) => Holds(c, x)
               /\ \A n \in Labels : Claims(q, n) => Claims(c, n)
    <3>1. DiskSafe(c, domains, pool, outside, Muddled')
      BY <1>1, <1>2, <1>3, <2>1 DEF DiskSafe, Works
    <3>2. NameSafe(c, registry, domains, crossed')
      BY <1>1, <1>2, <1>3, <2>1 DEF NameSafe, Guards
    <3> QED BY <2>1, <3>1, <3>2 DEF Holds, Claims
  <2> QED BY <1>2, <1>3, <1>4, <2>1, ImportGoesOn DEF machines, Works
<1>5. CASE ~Exists(q.id) /\ registry' = [registry EXCEPT ![q.id] = {Row(q.name, "live")}] /\ Leaves(k)
  <2>1. SoundPorter(NoOne) /\ SameErrand(NoOne, q)
    BY DEF SoundPorter, NoOne, PorterFields, Works, Guards, SameErrand
  <2>2. PorterSafe(NoOne, registry', domains, pool, outside', crossed, Muddled)
    BY DEF PorterSafe, DiskSafe, NameSafe, StreamSafe, NoOne, Guards
  <2>3. q.name \notin crossed => \E d \in domains[q.name] : d.id = q.id
    BY <1>1 DEF NameSafe
  <2>4. \A j \in Porters : j # k /\ porter[j].op = "import" /\ porter[j].name = q.name => q.name \in crossed
    BY <1>2 DEF Books, PairsInv, Apart
  <2>5. \A x \in Paths : Holds(q, x) /\ x \notin Muddled /\ pool[x] # "none" => Has(domains, q.name, x)
    BY <1>1, <1>2 DEF Holds, DiskSafe
  <2>6. \A m \in Labels : Claims(q, m) => m = q.name
    BY DEF Claims
  <2>7. registry[q.id] = {} /\ porter' = [porter EXCEPT ![k] = NoOne]
    BY <1>5 DEF Exists, Leaves
  <2> QED BY <1>2, <1>3, <1>5, <2>1, <2>2, <2>3, <2>4, <2>5, <2>6, <2>7, RowAdded
<1> QED BY <1>4, <1>5 DEF RecordImported

(***************************************************************************)
(* Adoption                                                                *)
(***************************************************************************)
LEMMA ImportVMsKeeps ==
  ASSUME Books, NEW k \in Porters, ImportVMs(k)
  PROVE  Books'
<1>1. PICK q \in orders :
        /\ porter[k].at = "none" /\ UNCHANGED <<machines, filed, outside, litter>>
        /\ \/ porter' = [porter EXCEPT ![k] = [NoOne EXCEPT !.at = "count", !.op = "adopt", !.names = q.names, !.seen = ListDomains(q.names)]]
           \/ porter' = porter
        /\ crossed' = crossed \union {x \in q.names : \E j \in Porters : AtWork(j, "none ", x)}
  BY DEF ImportVMs
<1>2. crossed \subseteq crossed' /\ litter' = litter
  BY <1>1
<1>3. CASE porter' = porter
  BY <1>1, <1>2, <1>3, RestingKeeps
<1>4. CASE porter' # porter
  <2>1. PICK c : c = [NoOne EXCEPT !.at = "count", !.op = "adopt", !.names = q.names, !.seen = ListDomains(q.names)]
    OBVIOUS
  <2>2. porter' = [porter EXCEPT ![k] = c]
    BY <1>1, <1>4, <2>1
  <2>3. /\ DOMAIN c = PorterFields /\ c.at = "count" /\ c.op = "adopt" /\ c.names = q.names
        /\ c.seen = ListDomains(q.names)
    BY <2>1 DEF NoOne, PorterFields
  <2>4. ASSUME NEW s \in c.seen
        PROVE  s.id \in Ids /\ s.name \in c.names \cap Labels /\ \E d \in domains[s.name] : d.id = s.id
    <3>4. PICK n \in q.names \cap Labels : s \in {[name |-> n, id |-> d.id] : d \in domains[n]}
      BY <2>3 DEF ListDomains
    <3>5. PICK d \in domains[n] : s = [name |-> n, id |-> d.id]
      BY <3>4
    <3>6. d.id \in Ids
      BY DEF Books, ImportTypes, DomainsTyped
    <3> QED BY <2>3, <3>5, <3>6
  <2>5. SoundPorter(c)
    BY <2>3, <2>4 DEF SoundPorter, Guards
  <2>6. PorterSafe(c, registry, domains, pool, outside, crossed', Muddled')
    BY <2>3, <2>4 DEF PorterSafe, DiskSafe, NameSafe, StreamSafe, Guards, Listed
  <2>7. ASSUME NEW j \in Porters, j # k
        PROVE  Apart(c, porter[j], crossed') /\ Apart(porter[j], c, crossed')
    <3>1. SoundPorter(porter[j])
      BY DEF Books, ImportTypes
    <3>2. porter[j].op = "import" => porter[j].at # "none"
      BY <3>1 DEF SoundPorter, Works
    <3>3. porter[j].op = "import" /\ porter[j].name \in q.names => porter[j].name \in crossed'
      BY <1>1, <3>2 DEF AtWork
    <3> QED BY <2>3, <3>3 DEF Apart
  <2>8. ~\E x : Holds(porter[k], x) \/ Claims(porter[k], x)
    BY <1>1 DEF Holds, Claims
  <2> QED BY <1>1, <1>2, <2>2, <2>5, <2>6, <2>7, <2>8, OnePorter
<1> QED BY <1>3, <1>4

\* An adoption that goes on with what it has listed.
LEMMA AdopterGoesOn ==
  ASSUME Books, NEW k \in Porters, porter[k].op = "adopt", NEW c, porter' = [porter EXCEPT ![k] = c],
         DOMAIN c = PorterFields, c.op = "adopt", c.names = porter[k].names, c.seen \subseteq porter[k].seen,
         \/ c.at = "count"
         \/ c.at = "adopt" /\ \E s \in porter[k].seen : c.id = s.id /\ c.name = s.name,
         UNCHANGED <<machines, filed, ghosts>>
  PROVE  Books'
<1>1. SoundPorter(porter[k]) /\ NameSafe(porter[k], registry, domains, crossed)
  BY ThisPorter
<1>2. SoundPorter(c)
  BY <1>1 DEF SoundPorter, Guards
<1>3. crossed' = crossed /\ litter' = litter /\ outside' = outside /\ Muddled' = Muddled
  BY DEF ghosts, Muddled
<1>4. NameSafe(c, registry, domains, crossed)
  BY <1>1 DEF NameSafe, Guards
<1>5. DiskSafe(c, domains, pool, outside, Muddled) /\ StreamSafe(c, domains, pool, Muddled)
  BY DEF DiskSafe, StreamSafe
<1>6. SameErrand(c, porter[k])
  BY DEF SameErrand
<1>7. \A j \in Porters : j # k => Apart(c, porter[j], crossed') /\ Apart(porter[j], c, crossed')
  BY <1>3, <1>6, KeepsApart DEF Books
<1>8. ~\E x : Holds(porter[k], x) \/ Claims(porter[k], x)
  BY DEF Holds, Claims
<1> QED BY <1>2, <1>3, <1>4, <1>5, <1>7, <1>8, OnePorter DEF PorterSafe

LEMMA CountRowsKeeps ==
  ASSUME Books, NEW k \in Porters, CountRows(k)
  PROVE  Books'
<1>1. PICK s \in porter[k].seen :
        /\ porter[k].at = "count" /\ UNCHANGED <<machines, filed, ghosts>>
        /\ \/ porter' = [porter EXCEPT ![k].at = "adopt", ![k].id = s.id, ![k].name = s.name]
           \/ porter' = [porter EXCEPT ![k].seen = @ \ {s}]
  BY DEF CountRows
<1>2. SoundPorter(porter[k])
  BY ThisPorter
<1>3. porter[k].op = "adopt" /\ DOMAIN porter[k] = PorterFields
  BY <1>1, <1>2 DEF SoundPorter, Works
<1>4. CASE porter' = [porter EXCEPT ![k].at = "adopt", ![k].id = s.id, ![k].name = s.name]
  <2>1. PICK c : c = [porter[k] EXCEPT !.at = "adopt", !.id = s.id, !.name = s.name]
    OBVIOUS
  <2>2. porter' = [porter EXCEPT ![k] = c]
    BY <1>4, <2>1
  <2>3. /\ DOMAIN c = PorterFields /\ c.op = porter[k].op /\ c.names = porter[k].names
        /\ c.seen = porter[k].seen /\ c.at = "adopt" /\ c.id = s.id /\ c.name = s.name
    BY <1>3, <2>1 DEF PorterFields
  <2> QED BY ZenonT(40), <1>1, <1>3, <2>2, <2>3, AdopterGoesOn
<1>5. CASE porter' = [porter EXCEPT ![k].seen = @ \ {s}]
  <2>1. PICK c : c = [porter[k] EXCEPT !.seen = porter[k].seen \ {s}]
    OBVIOUS
  <2>2. porter' = [porter EXCEPT ![k] = c]
    BY <1>5, <2>1
  <2>3. /\ DOMAIN c = PorterFields /\ c.op = porter[k].op /\ c.names = porter[k].names
        /\ c.seen = porter[k].seen \ {s} /\ c.at = porter[k].at
    BY <1>3, <2>1 DEF PorterFields
  <2> QED BY <1>1, <1>3, <2>2, <2>3, AdopterGoesOn
<1> QED BY <1>1, <1>4, <1>5

LEMMA AdoptKeeps ==
  ASSUME Books, NEW k \in Porters, Adopt(k)
  PROVE  Books'
<1> DEFINE q == porter[k]
<1>1. q.at = "adopt" /\ SoundPorter(q) /\ NameSafe(q, registry, domains, crossed)
  BY ThisPorter DEF Adopt
<1>2. q.op = "adopt" /\ q.id \in Ids /\ q.name \in q.names \cap Labels /\ DOMAIN q = PorterFields
  BY <1>1 DEF SoundPorter, Works
<1>3. PICK c : c = [q EXCEPT !.at = "count", !.seen = {s \in q.seen : s.id # q.id}, !.id = "none", !.name = "none"]
  OBVIOUS
<1>4. porter' = [porter EXCEPT ![k] = c]
  BY <1>3 DEF Adopt
<1>5. /\ DOMAIN c = PorterFields /\ c.op = "adopt" /\ c.names = q.names /\ c.at = "count"
      /\ c.seen = {s \in q.seen : s.id # q.id}
  BY <1>2, <1>3 DEF PorterFields
<1>6. UNCHANGED <<domains, pool, filed, litter, crossed>>
  BY DEF Adopt
<1>7. CASE registry' = registry /\ outside' = outside
  BY <1>2, <1>4, <1>5, <1>6, <1>7, AdopterGoesOn DEF machines, ghosts
<1>8. CASE /\ ~Exists(q.id) /\ registry' = [registry EXCEPT ![q.id] = {Row(q.name, "live")}]
           /\ outside' = outside \ {q.name}
  <2>1. SoundPorter(c) /\ SameErrand(c, q)
    BY <1>1, <1>2, <1>5 DEF SoundPorter, Guards, SameErrand
  <2>2. registry[q.id] = {}
    BY <1>8 DEF Exists
  <2>3. q.name \notin crossed => \E d \in domains[q.name] : d.id = q.id
    BY <1>1, <2>2 DEF NameSafe, Listed
  <2>4. \A j \in Porters : j # k /\ porter[j].op = "import" /\ porter[j].name = q.name => q.name \in crossed
    BY <1>2 DEF Books, PairsInv, Apart
  <2>5. ~\E x : Holds(q, x) \/ Claims(q, x)
    BY <1>2 DEF Holds, Claims
  <2>6. NameSafe(c, registry', domains, crossed)
    <3>1. \A i \in Ids : registry'[i] = {} => registry[i] = {}
      BY <1>2, <1>8 DEF Books, ImportTypes, RowsTyped
    <3>2. \A s \in c.seen : s.id \in Ids /\ Listed(s.id, s.name, registry, domains, crossed)
      BY <1>1, <1>2, <1>5 DEF NameSafe, SoundPorter
    <3> QED BY <1>5, <3>1, <3>2 DEF NameSafe, Guards, Listed
  <2>7. PorterSafe(c, registry', domains, pool, outside', crossed, Muddled)
    BY <1>5, <2>6 DEF PorterSafe, DiskSafe, StreamSafe
  <2> QED BY <1>2, <1>4, <1>6, <1>8, <2>1, <2>2, <2>3, <2>4, <2>5, <2>7, RowAdded
<1> QED BY <1>7, <1>8 DEF Adopt

LEMMA AdoptedKeeps ==
  ASSUME Books, NEW k \in Porters, Adopted(k)
  PROVE  Books'
BY LeavesUnread DEF Adopted

(***************************************************************************)
(* What happens to the machines meanwhile                                  *)
(***************************************************************************)
LEMMA GuardedStepKeeps ==
  ASSUME Books, NEW k \in Porters, Guarded(k)
  PROVE  Books'
<1>1. PICK q \in orders, id \in Ids : \E r \in registry[id] :
        /\ q.op \in {"start", "stop", "delete"} /\ porter[k].at = "none" /\ r.life = "live"
        /\ porter' = IF Idle(id) THEN [porter EXCEPT ![k] = [NoOne EXCEPT !.at = "act", !.op = q.op, !.id = id, !.name = r.name]] ELSE porter
        /\ UNCHANGED <<machines, filed, ghosts>>
  BY DEF Guarded
<1>2. PICK r \in registry[id] :
        /\ q.op \in {"start", "stop", "delete"} /\ porter[k].at = "none" /\ r.life = "live"
        /\ porter' = IF Idle(id) THEN [porter EXCEPT ![k] = [NoOne EXCEPT !.at = "act", !.op = q.op, !.id = id, !.name = r.name]] ELSE porter
        /\ UNCHANGED <<machines, filed, ghosts>>
  BY <1>1
<1>3. CASE Idle(id)
  <2>1. PICK c : c = [NoOne EXCEPT !.at = "act", !.op = q.op, !.id = id, !.name = r.name]
    OBVIOUS
  <2>2. porter' = [porter EXCEPT ![k] = c]
    BY <1>2, <1>3, <2>1
  <2>3. DOMAIN c = PorterFields /\ c.at = "act" /\ c.op = q.op /\ c.id = id /\ c.name = r.name
    BY <2>1 DEF NoOne, PorterFields
  <2> QED BY <1>2, <2>2, <2>3, GuardedKeeps
<1>4. CASE ~Idle(id)
  BY <1>2, <1>4, RestingKeeps DEF ghosts
<1> QED BY <1>3, <1>4

\* The same domains, but for their states.
Alike(D, E) == \A m \in Labels :
  /\ \A d \in D[m] : \E e \in E[m] : d.id = e.id /\ d.disk = e.disk
  /\ \A e \in E[m] : \E d \in D[m] : d.id = e.id /\ d.disk = e.disk

LEMMA AlikeHas ==
  ASSUME NEW D, NEW E, Alike(D, E), NEW m \in Labels, NEW x
  PROVE  Has(E, m, x) <=> Has(D, m, x)
BY DEF Alike, Has

LEMMA AlikeFile ==
  ASSUME NEW D, NEW E, Alike(D, E), NEW x, NEW P, NEW O, NEW M, FileSafe(x, D, P, O, M)
  PROVE  FileSafe(x, E, P, O, M)
<1>1. \A m \in Labels : Has(E, m, x) <=> Has(D, m, x)
  BY AlikeHas
<1>2. \A m \in Labels : \A e \in E[m] : \E d \in D[m] : d.id = e.id /\ d.disk = e.disk
  BY DEF Alike
<1> QED BY <1>1, <1>2 DEF FileSafe

LEMMA AlikeRow ==
  ASSUME NEW D, NEW E, Alike(D, E), NEW id, NEW R, NEW F, NEW C, RowSafe(id, R, D, F, C),
         \A r \in R[id] : r.name \in Labels
  PROVE  RowSafe(id, R, E, F, C)
BY DEF Alike, RowSafe

LEMMA AlikeDisk ==
  ASSUME NEW D, NEW E, Alike(D, E), NEW q, NEW P, NEW O, NEW M, DiskSafe(q, D, P, O, M),
         q.op = "import" => q.name \in Labels
  PROVE  DiskSafe(q, E, P, O, M)
<1> SUFFICES ASSUME q.op = "import"
             PROVE  DiskSafe(q, E, P, O, M)
  BY DEF DiskSafe
<1>1. \A m \in Labels : Has(E, m, q.disk) <=> Has(D, m, q.disk)
  BY AlikeHas
<1>2. \A e \in E[q.name] : \E d \in D[q.name] : d.disk = e.disk
  BY DEF Alike
<1> QED BY <1>1, <1>2 DEF DiskSafe

LEMMA AlikeName ==
  ASSUME NEW D, NEW E, Alike(D, E), NEW q, NEW R, NEW C, NameSafe(q, R, D, C),
         q.at \in Guards \union {"record", "adopt"} => q.name \in Labels,
         q.op = "adopt" => \A s \in q.seen : s.name \in Labels
  PROVE  NameSafe(q, R, E, C)
<1>1. \A i : \A m \in Labels : Listed(i, m, R, D, C) => Listed(i, m, R, E, C)
  BY DEF Alike, Listed
<1>2. q.name \in Labels => /\ \A e \in E[q.name] : \E d \in D[q.name] : d.id = e.id
                          /\ \A d \in D[q.name] : \E e \in E[q.name] : d.id = e.id
  BY DEF Alike
<1> QED BY <1>1, <1>2 DEF NameSafe

\* A machine is started or stopped: its domain changes state, and no export reads it.
LEMMA PowerKeeps ==
  ASSUME Books, LocksInv, NEW k \in Porters, porter[k].at = "act", Leaves(k), porter[k].id \notin vmHeld,
         NEW st, domains' = [domains EXCEPT ![porter[k].name] = {[d EXCEPT !.st = st] : d \in @}],
         UNCHANGED <<registry, pool, filed, ghosts>>
  PROVE  Books'
<1> DEFINE n == porter[k].name
<1>1. /\ SoundPorter(porter[k]) /\ NameSafe(porter[k], registry, domains, crossed)
      /\ \A j \in Porters : SoundPorter(porter[j]) /\ DOMAIN porter = Porters
  BY DEF Books, ImportTypes, PortersInv, PorterSafe
<1>2. porter[k].id \in Ids /\ n \in Labels /\ porter[k].op \notin {"import", "adopt"}
  BY <1>1 DEF SoundPorter, Guards, Works
<1>3. /\ DOMAIN porter' = Porters /\ porter'[k] = NoOne /\ \A j \in Porters : j # k => porter'[j] = porter[j]
  BY <1>1 DEF Leaves
<1>4. /\ DOMAIN domains' = Labels /\ domains'[n] = {[d EXCEPT !.st = st] : d \in domains[n]}
      /\ \A m \in Labels : m # n => domains'[m] = domains[m]
  BY <1>2 DEF Books, ImportTypes, DomainsTyped
<1>5. \A m \in Labels : \A d \in domains[m] :
        domains[m] = {d} /\ d = Domain(d.id, d.disk, d.st) /\ d.id \in Ids /\ d.disk \in Paths
  BY DEF Books, ImportTypes, DomainsTyped
<1>6. Alike(domains, domains')
  <2> SUFFICES ASSUME NEW m \in Labels
               PROVE  /\ \A d \in domains[m] : \E e \in domains'[m] : d.id = e.id /\ d.disk = e.disk
                      /\ \A e \in domains'[m] : \E d \in domains[m] : d.id = e.id /\ d.disk = e.disk
    BY DEF Alike
  <2>1. CASE m = n
    <3>1. ASSUME NEW d \in domains[n]
          PROVE  [d EXCEPT !.st = st].id = d.id /\ [d EXCEPT !.st = st].disk = d.disk
      <4>1. d = [id |-> d.id, disk |-> d.disk, st |-> d.st]
        BY <1>2, <1>5 DEF Domain
      <4>2. DOMAIN d = {"id", "disk", "st"}
        BY <4>1
      <4> QED BY <4>2
    <3>2. ASSUME NEW d \in domains[m]
          PROVE  \E e \in domains'[m] : d.id = e.id /\ d.disk = e.disk
      <4>1. [d EXCEPT !.st = st] \in domains'[m]
        BY <1>4, <2>1
      <4> QED BY <2>1, <3>1, <4>1
    <3>3. ASSUME NEW e \in domains'[m]
          PROVE  \E d \in domains[m] : d.id = e.id /\ d.disk = e.disk
      <4>1. PICK d \in domains[n] : e = [d EXCEPT !.st = st]
        BY <1>4, <2>1
      <4> QED BY <2>1, <3>1, <4>1
    <3> QED BY <3>2, <3>3
  <2>2. CASE m # n
    BY <1>4, <2>2
  <2> QED BY <2>1, <2>2
<1>7. \A m \in Labels : \A x : Has(domains', m, x) <=> Has(domains, m, x)
  BY <1>6, AlikeHas
<1>8. crossed' = crossed /\ litter' = litter /\ outside' = outside /\ Muddled' = Muddled
  BY DEF ghosts, Muddled
<1>9. ImportTypes'
  <2>1. DomainsTyped(domains')
    <3> SUFFICES ASSUME NEW m \in Labels, NEW d \in domains'[m]
                 PROVE  domains'[m] = {d} /\ d = Domain(d.id, d.disk, d.st) /\ d.id \in Ids /\ d.disk \in Paths
      BY <1>4 DEF DomainsTyped
    <3>1. CASE m = n
      <4>1. PICK e \in domains[n] : d = [e EXCEPT !.st = st]
        BY <1>4, <3>1
      <4>2. domains[n] = {e} /\ e = [id |-> e.id, disk |-> e.disk, st |-> e.st] /\ e.id \in Ids /\ e.disk \in Paths
        BY <1>2, <1>5 DEF Domain
      <4>3. d = [id |-> e.id, disk |-> e.disk, st |-> st]
        BY <4>1, <4>2
      <4>4. domains'[m] = {d}
        BY <1>4, <3>1, <4>1, <4>2
      <4> QED BY <4>2, <4>3, <4>4 DEF Domain
    <3>2. CASE m # n
      BY <1>4, <1>5, <3>2
    <3> QED BY <3>1, <3>2
  <2>2. SoundPorter(NoOne)
    BY DEF SoundPorter, NoOne, PorterFields, Works, Guards
  <2> QED BY <1>1, <1>3, <2>1, <2>2 DEF Books, ImportTypes
<1>10. FilesInv'
  <2> SUFFICES ASSUME NEW x \in Paths
               PROVE  FileSafe(x, domains', pool, outside, Muddled)
    BY <1>8 DEF FilesInv
  <2>1. FileSafe(x, domains, pool, outside, Muddled)
    BY DEF Books, FilesInv
  <2> QED BY <1>6, <2>1, AlikeFile
<1>11. ~\E x : Holds(porter[k], x) \/ Claims(porter[k], x)
  BY <1>2 DEF Holds, Claims
<1>12. OwnedInv'
  BY <1>3, <1>7, <1>8, <1>11 DEF Books, OwnedInv
<1>13. RowsInv'
  <2> SUFFICES ASSUME NEW i \in Ids
               PROVE  RowSafe(i, registry, domains', filed, crossed)
    BY <1>8 DEF RowsInv
  <2>1. RowSafe(i, registry, domains, filed, crossed) /\ \A r \in registry[i] : r.name \in Labels
    BY DEF Books, RowsInv, ImportTypes, RowsTyped
  <2> QED BY <1>6, <2>1, AlikeRow
<1>14. KnownInv'
  <2> SUFFICES ASSUME NEW m \in Labels, m \notin crossed, NEW d \in domains'[m],
                      Row(m, "live") \notin registry[d.id], m \notin outside \union litter
               PROVE  \E j \in Porters : Claims(porter'[j], m)
    BY <1>8 DEF KnownInv
  <2>1. PICK e \in domains[m] : d.id = e.id
    BY ZenonT(40), <1>6 DEF Alike
  <2>2. PICK j \in Porters : Claims(porter[j], m)
    BY <2>1 DEF Books, KnownInv
  <2> QED BY <1>3, <1>11, <2>2
<1>15. PairsInv'
  <2>1. SameErrand(NoOne, porter[k])
    BY DEF SameErrand, NoOne
  <2>2. \A j \in Porters : j # k => Apart(NoOne, porter[j], crossed') /\ Apart(porter[j], NoOne, crossed')
    BY <1>8, <2>1, KeepsApart DEF Books
  <2> QED BY <1>3, <1>8, <2>2 DEF Books, PairsInv
<1>16. PortersInv'
  <2> SUFFICES ASSUME NEW j \in Porters
               PROVE  PorterSafe(porter'[j], registry, domains', pool, outside, crossed, Muddled)
    BY <1>8 DEF PortersInv
  <2> DEFINE p == porter[j]
  <2>1. CASE j = k
    BY <1>3, <2>1 DEF PorterSafe, DiskSafe, NameSafe, StreamSafe, NoOne, Guards
  <2>2. CASE j # k
    <3>1. /\ SoundPorter(p) /\ DiskSafe(p, domains, pool, outside, Muddled)
          /\ NameSafe(p, registry, domains, crossed) /\ StreamSafe(p, domains, pool, Muddled)
      BY ThisPorter
    <3>2. DiskSafe(p, domains', pool, outside, Muddled)
      <4>1. p.op = "import" => p.name \in Labels
        BY <3>1 DEF SoundPorter
      <4> QED BY <1>6, <3>1, <4>1, AlikeDisk
    <3>3. NameSafe(p, registry, domains', crossed)
      <4>1. p.at \in Guards \union {"record", "adopt"} => p.name \in Labels
        BY <3>1 DEF SoundPorter, Guards
      <4>3. p.op = "adopt" => \A s \in p.seen : s.name \in Labels
        BY <3>1 DEF SoundPorter
      <4> QED BY <1>6, <3>1, <4>1, <4>3, AlikeName
    <3>4. StreamSafe(p, domains', pool, Muddled)
      <4> SUFFICES ASSUME p.at = "stream", {p.id, p.name, p.disk} \cap Muddled = {}
                   PROVE  domains'[p.name] = domains[p.name]
        BY <3>1 DEF StreamSafe
      <4>1. p.name \in Labels /\ p.name \notin crossed
        BY <3>1 DEF SoundPorter, Guards, Muddled
      <4>2. PICK d \in domains[p.name] : d.id = p.id
        BY <3>1 DEF StreamSafe
      <4>3. p.id \in vmHeld
        BY DEF LocksInv
      <4>4. p.name # n
        <5> SUFFICES ASSUME p.name = n
                     PROVE  FALSE
          OBVIOUS
        <5>1. d.id = porter[k].id
          BY <1>1, <4>1, <4>2 DEF NameSafe, Guards
        <5> QED BY <4>2, <4>3, <5>1
      <4> QED BY <1>4, <4>1, <4>4
    <3> QED BY <1>3, <2>2, <3>2, <3>3, <3>4 DEF PorterSafe
  <2> QED BY <2>1, <2>2
<1> QED BY <1>9, <1>10, <1>12, <1>13, <1>14, <1>15, <1>16 DEF Books

\* A deletion is submitted; an export that waits for the lock is crossed.
LEMMA DeleteKeeps ==
  ASSUME Books, NEW k \in Porters, porter[k].at = "act", Leaves(k),
         filed' = [filed EXCEPT ![porter[k].id] = TRUE], crossed \subseteq crossed',
         UNCHANGED <<machines, outside, litter>>
  PROVE  Books'
<1> DEFINE id == porter[k].id
<1>1. SoundPorter(porter[k]) /\ NameSafe(porter[k], registry, domains, crossed)
  BY ThisPorter
<1>2. id \in Ids /\ porter[k].op \notin {"import", "adopt"}
  BY <1>1 DEF SoundPorter, Guards, Works
<1>3. registry' = registry /\ domains' = domains /\ pool' = pool
  BY DEF machines
<1>4. /\ DOMAIN porter' = Porters /\ porter'[k] = NoOne /\ \A j \in Porters : j # k => porter'[j] = porter[j]
  BY DEF Leaves, Books, ImportTypes
<1>5. DOMAIN filed' = Ids /\ \A i \in Ids : i # id => filed'[i] = filed[i]
  BY DEF Books, ImportTypes
<1>6. Muddled \subseteq Muddled'
  BY DEF Muddled
<1>7. SoundPorter(NoOne) /\ SameErrand(NoOne, porter[k])
  BY DEF SoundPorter, NoOne, PorterFields, Works, Guards, SameErrand
<1>8. ImportTypes'
  BY <1>3, <1>4, <1>5, <1>7 DEF Books, ImportTypes
<1>9. FilesInv'
  BY <1>3, <1>6, FileGrows DEF Books, FilesInv
<1>10. ~\E x : Holds(porter[k], x) \/ Claims(porter[k], x)
  BY <1>2 DEF Holds, Claims
<1>11. OwnedInv'
  <2> SUFFICES ASSUME NEW x \in Paths, x \notin Muddled', pool[x] # "none", x \notin outside,
                      \A n \in Labels : ~Has(domains, n, x)
               PROVE  \E j \in Porters : Holds(porter'[j], x)
    BY <1>3 DEF OwnedInv
  <2>1. PICK j \in Porters : Holds(porter[j], x)
    BY <1>6 DEF Books, OwnedInv
  <2> QED BY <1>4, <1>10, <2>1
<1>12. RowsInv'
  <2> SUFFICES ASSUME NEW i \in Ids
               PROVE  RowSafe(i, registry, domains, filed', crossed')
    BY <1>3 DEF RowsInv
  <2>1. RowSafe(i, registry, domains, filed, crossed')
    BY RowGrows DEF Books, RowsInv
  <2>2. CASE i = id
    <3>1. PICK r \in registry[id] : r.name = porter[k].name
      BY <1>1 DEF NameSafe, Guards
    <3>2. registry[id] = {r}
      BY <1>2 DEF Books, ImportTypes, RowsTyped
    <3>3. r.name \notin crossed' => \A d \in domains[r.name] : d.id = id
      BY <1>1, <3>1 DEF NameSafe, Guards
    <3> QED BY <2>1, <2>2, <3>2, <3>3 DEF RowSafe
  <2>3. CASE i # id
    BY <1>5, <2>1, <2>3 DEF RowSafe
  <2> QED BY <2>2, <2>3
<1>13. KnownInv'
  <2> SUFFICES ASSUME NEW n \in Labels, n \notin crossed', NEW d \in domains[n],
                      Row(n, "live") \notin registry[d.id], n \notin outside \union litter
               PROVE  \E j \in Porters : Claims(porter'[j], n)
    BY <1>3 DEF KnownInv
  <2>1. PICK j \in Porters : Claims(porter[j], n)
    BY DEF Books, KnownInv
  <2> QED BY <1>4, <1>10, <2>1
<1>14. PairsInv'
  <2>1. \A j \in Porters : j # k => Apart(NoOne, porter[j], crossed') /\ Apart(porter[j], NoOne, crossed')
    BY <1>7, KeepsApart DEF Books
  <2> QED BY <1>4, <2>1, ApartGrows DEF Books, PairsInv
<1>15. PortersInv'
  <2> SUFFICES ASSUME NEW j \in Porters
               PROVE  PorterSafe(porter'[j], registry, domains, pool, outside, crossed', Muddled')
    BY <1>3 DEF PortersInv
  <2>1. CASE j = k
    BY <1>4, <2>1 DEF PorterSafe, DiskSafe, NameSafe, StreamSafe, NoOne, Guards
  <2>2. CASE j # k
    <3>1. PorterSafe(porter[j], registry, domains, pool, outside, crossed, Muddled)
      BY DEF Books, PortersInv
    <3> QED BY <1>4, <1>6, <2>2, <3>1, PorterGrows
  <2> QED BY <2>1, <2>2
<1> QED BY <1>8, <1>9, <1>11, <1>12, <1>13, <1>14, <1>15 DEF Books

LEMMA PowerOrDeleteKeeps ==
  ASSUME Books, LocksInv, NEW k \in Porters, PowerOrDelete(k)
  PROVE  Books'
<1> DEFINE q == porter[k]
<1>1. q.at = "act" /\ Leaves(k) /\ UNCHANGED <<registry, pool, outside, litter>>
  BY DEF PowerOrDelete
<1>2. CASE q.id \in vmHeld
  BY <1>1, <1>2, LeavesUnread DEF PowerOrDelete, machines, ghosts
<1>3. CASE q.id \notin vmHeld /\ q.op = "delete"
  <2>1. filed' = [filed EXCEPT ![q.id] = TRUE] /\ crossed \subseteq crossed' /\ domains' = domains
    BY <1>3 DEF PowerOrDelete
  <2> QED BY <1>1, <2>1, DeleteKeeps DEF machines
<1>4. CASE q.id \notin vmHeld /\ q.op # "delete"
  <2>1. PICK st : st = IF q.op = "start" THEN "run" ELSE "off"
    OBVIOUS
  <2>2. domains' = [domains EXCEPT ![q.name] = {[d EXCEPT !.st = st] : d \in @}] /\ UNCHANGED <<filed, crossed>>
    BY <1>4, <2>1 DEF PowerOrDelete
  <2> QED BY <1>1, <1>4, <2>2, PowerKeeps DEF ghosts
<1> QED BY <1>2, <1>3, <1>4

\* A guest that runs writes to a file of its own.
LEMMA GuestWritesKeeps ==
  ASSUME Books, GuestWrites
  PROVE  Books'
<1>1. PICK n \in Labels : \E d \in domains[n] :
        /\ d.st = "run" /\ pool' = [pool EXCEPT ![d.disk] = "written"]
        /\ UNCHANGED <<registry, domains, filed, porter, ghosts>>
  BY DEF GuestWrites
<1>2. PICK d \in domains[n] :
        /\ d.st = "run" /\ pool' = [pool EXCEPT ![d.disk] = "written"]
        /\ UNCHANGED <<registry, domains, filed, porter, ghosts>>
  BY <1>1
<1> DEFINE x == d.disk
<1>3. x \in Paths /\ Has(domains, n, x) /\ \A e \in domains[n] : e = d
  BY DEF Books, ImportTypes, DomainsTyped, Has
<1>4. DOMAIN pool' = Paths /\ pool'[x] = "written" /\ \A y \in Paths : y # x => pool'[y] = pool[y]
  BY <1>2, <1>3 DEF Books, ImportTypes
<1>5. /\ crossed' = crossed /\ litter' = litter /\ outside' = outside /\ Muddled' = Muddled
      /\ registry' = registry /\ domains' = domains /\ filed' = filed /\ porter' = porter
  BY <1>2 DEF ghosts, Muddled
<1>6. ImportTypes' /\ RowsInv' /\ KnownInv' /\ PairsInv'
  BY <1>4, <1>5 DEF Books, ImportTypes, RowsInv, KnownInv, PairsInv
<1>7. FileSafe(x, domains, pool, outside, Muddled)
  BY <1>3 DEF Books, FilesInv
<1>8. FilesInv'
  <2> SUFFICES ASSUME NEW y \in Paths
               PROVE  FileSafe(y, domains, pool', outside, Muddled)
    BY <1>5 DEF FilesInv
  <2>1. CASE y = x
    BY <1>3, <1>4, <1>7, <2>1 DEF FileSafe
  <2>2. CASE y # x
    BY <1>4, <2>2 DEF Books, FilesInv, FileSafe
  <2> QED BY <2>1, <2>2
<1>9. OwnedInv'
  <2> SUFFICES ASSUME NEW y \in Paths, y \notin Muddled, pool'[y] # "none", y \notin outside,
                      \A m \in Labels : ~Has(domains, m, y)
               PROVE  \E j \in Porters : Holds(porter[j], y)
    BY <1>5 DEF OwnedInv
  <2>1. y # x
    BY <1>3
  <2> QED BY <1>4, <2>1 DEF Books, OwnedInv
<1>10. PortersInv'
  <2> SUFFICES ASSUME NEW j \in Porters
               PROVE  PorterSafe(porter[j], registry, domains, pool', outside, crossed, Muddled)
    BY <1>5 DEF PortersInv
  <2> DEFINE p == porter[j]
  <2>1. /\ SoundPorter(p) /\ DiskSafe(p, domains, pool, outside, Muddled)
        /\ NameSafe(p, registry, domains, crossed) /\ StreamSafe(p, domains, pool, Muddled)
    BY ThisPorter
  <2>2. DiskSafe(p, domains, pool', outside, Muddled)
    <3> SUFFICES ASSUME p.op = "import"
                 PROVE  DiskSafe(p, domains, pool', outside, Muddled)
      BY DEF DiskSafe
    <3>1. p.disk \in Paths
      BY <2>1 DEF SoundPorter
    <3>2. CASE p.disk = x
      <4>1. p.disk \notin Muddled => p.at \notin {"restore", "define"}
        BY <1>3, <2>1, <3>2 DEF DiskSafe
      <4>2. p.disk \notin Muddled /\ p.at \in {"record", "undefine"} => Has(domains, p.name, p.disk)
        BY <1>3, <2>1, <3>2 DEF DiskSafe
      <4> QED BY <2>1, <4>1, <4>2 DEF DiskSafe
    <3>3. CASE p.disk # x
      BY <1>4, <2>1, <3>1, <3>3 DEF DiskSafe
    <3> QED BY <3>2, <3>3
  <2>3. StreamSafe(p, domains, pool', Muddled)
    <3> SUFFICES ASSUME p.at = "stream", {p.id, p.name, p.disk} \cap Muddled = {}
                 PROVE  p.disk \in Paths \ {x}
      BY <1>4, <2>1 DEF StreamSafe
    <3>1. p.disk \in Paths /\ p.name \in Labels /\ p.disk \notin Muddled
      BY <2>1 DEF SoundPorter, Guards
    <3>2. PICK e \in domains[p.name] : e.disk = p.disk /\ e.st = "off"
      BY <2>1 DEF StreamSafe
    <3>3. Has(domains, p.name, p.disk)
      BY <3>2 DEF Has
    <3>4. p.disk # x
      <4> SUFFICES ASSUME p.disk = x
                   PROVE  FALSE
        OBVIOUS
      <4>1. p.name = n
        BY <1>3, <1>7, <3>1, <3>3 DEF FileSafe
      <4>2. e = d
        BY <1>3, <3>2, <4>1
      <4> QED BY <1>2, <3>2, <4>2
    <3> QED BY <3>1, <3>4
  <2> QED BY <2>1, <2>2, <2>3 DEF PorterSafe
<1> QED BY <1>6, <1>8, <1>9, <1>10 DEF Books

\* A deletion takes the domain of its machine and the files of that.
LEMMA DeletionKeeps ==
  ASSUME Books, LocksInv, Deletion
  PROVE  Books'
<1>1. PICK id \in Ids : \E r \in registry[id] :
        /\ filed[id] /\ filed' = [filed EXCEPT ![id] = FALSE]
        /\ domains' = [domains EXCEPT ![r.name] = {}]
        /\ pool' = [x \in Paths |-> IF \E d \in domains[r.name] : d.disk = x THEN "none" ELSE pool[x]]
        /\ registry' = [registry EXCEPT ![id] = {Row(r.name, "bin")}]
        /\ UNCHANGED <<porter, ghosts>>
  BY DEF Deletion
<1>2. PICK r \in registry[id] :
        /\ filed[id] /\ filed' = [filed EXCEPT ![id] = FALSE]
        /\ domains' = [domains EXCEPT ![r.name] = {}]
        /\ pool' = [x \in Paths |-> IF \E d \in domains[r.name] : d.disk = x THEN "none" ELSE pool[x]]
        /\ registry' = [registry EXCEPT ![id] = {Row(r.name, "bin")}]
        /\ UNCHANGED <<porter, ghosts>>
  BY <1>1
<1> DEFINE n == r.name
<1>3. n \in Labels /\ registry[id] = {r} /\ r = Row(r.name, r.life)
  BY DEF Books, ImportTypes, RowsTyped
<1>4. /\ crossed' = crossed /\ litter' = litter /\ outside' = outside /\ Muddled' = Muddled /\ porter' = porter
      /\ \A j \in Porters : SoundPorter(porter[j])
  BY <1>2 DEF ghosts, Muddled, Books, ImportTypes
<1>5. DOMAIN filed' = Ids /\ ~filed'[id] /\ \A i \in Ids : i # id => filed'[i] = filed[i]
  BY <1>2 DEF Books, ImportTypes
<1>6. DOMAIN domains' = Labels /\ domains'[n] = {} /\ \A m \in Labels : m # n => domains'[m] = domains[m]
  BY <1>2, <1>3 DEF Books, ImportTypes, DomainsTyped
<1>7. DOMAIN pool' = Paths /\ \A x \in Paths : pool'[x] = IF Has(domains, n, x) THEN "none" ELSE pool[x]
  BY <1>2 DEF Has
<1>8. /\ DOMAIN registry' = Ids /\ registry'[id] = {Row(n, "bin")}
      /\ \A i \in Ids : i # id => registry'[i] = registry[i]
  BY <1>2 DEF Books, ImportTypes, RowsTyped
<1>9. \A s \in registry'[id] : s.name = n /\ s.life = "bin" /\ s = Row(s.name, s.life)
  BY <1>8 DEF Row
<1>10. n \notin crossed => \A d \in domains[n] : d.id = id
  BY <1>2 DEF Books, RowsInv, RowSafe
<1>11. \A m \in Labels : \A x : Has(domains', m, x) => m # n /\ Has(domains, m, x)
  BY <1>6 DEF Has
<1>12. \A m \in Labels : \A x : m # n /\ Has(domains, m, x) => Has(domains', m, x)
  BY <1>6 DEF Has
<1>13. ImportTypes'
  <2>1. RowsTyped(registry')
    BY <1>3, <1>8, <1>9 DEF Books, ImportTypes, RowsTyped
  <2>2. DomainsTyped(domains')
    BY <1>6 DEF Books, ImportTypes, DomainsTyped
  <2> QED BY <1>4, <1>5, <1>7, <2>1, <2>2 DEF Books, ImportTypes
<1>14. FilesInv'
  <2> SUFFICES ASSUME NEW x \in Paths
               PROVE  FileSafe(x, domains', pool', outside, Muddled)
    BY <1>4 DEF FilesInv
  <2>1. FileSafe(x, domains, pool, outside, Muddled)
    BY DEF Books, FilesInv
  <2>2. x \notin Muddled => \A m \in Labels : Has(domains', m, x) => pool'[x] # "none"
    BY <1>3, <1>7, <1>11, <2>1 DEF FileSafe
  <2>3. x \notin Muddled /\ pool'[x] = "torn" =>
          \A m \in Labels : \A d \in domains'[m] : d.disk = x => d.id \in Muddled \/ m \in Muddled
    BY <1>6, <1>7, <2>1 DEF FileSafe
  <2>4. x \in outside => pool'[x] = "outside"
    BY <1>3, <1>7, <2>1 DEF FileSafe
  <2> QED BY <1>11, <2>1, <2>2, <2>3, <2>4 DEF FileSafe
<1>15. OwnedInv'
  <2> SUFFICES ASSUME NEW x \in Paths, x \notin Muddled, pool'[x] # "none", x \notin outside,
                      \A m \in Labels : ~Has(domains', m, x)
               PROVE  \E j \in Porters : Holds(porter[j], x)
    BY <1>4 DEF OwnedInv
  <2>1. ~Has(domains, n, x) /\ pool[x] # "none"
    BY <1>7
  <2>2. \A m \in Labels : ~Has(domains, m, x)
    BY <1>12, <2>1
  <2> QED BY <2>1, <2>2 DEF Books, OwnedInv
<1>16. RowsInv'
  <2> SUFFICES ASSUME NEW i \in Ids
               PROVE  RowSafe(i, registry', domains', filed', crossed)
    BY <1>4 DEF RowsInv
  <2>1. CASE i = id
    BY <1>5, <1>9, <2>1 DEF RowSafe
  <2>2. CASE i # id
    <3>1. RowSafe(i, registry, domains, filed, crossed) /\ \A s \in registry[i] : s.name \in Labels
      BY DEF Books, RowsInv, ImportTypes, RowsTyped
    <3>2. registry'[i] = registry[i] /\ filed'[i] = filed[i]
      BY <1>5, <1>8, <2>2
    <3>3. ASSUME NEW s \in registry[i], s.name \notin crossed
          PROVE  /\ s.life = "live" => \E d \in domains'[s.name] : d.id = i
                 /\ filed[i] => \A d \in domains'[s.name] : d.id = i
      <4>1. CASE s.name = n
        BY <1>6, <1>10, <2>2, <3>1, <3>3, <4>1 DEF RowSafe
      <4>2. CASE s.name # n
        BY <1>6, <3>1, <3>3, <4>2 DEF RowSafe
      <4> QED BY <4>1, <4>2
    <3> QED BY <3>1, <3>2, <3>3 DEF RowSafe
  <2> QED BY <2>1, <2>2
<1>17. KnownInv'
  <2> SUFFICES ASSUME NEW m \in Labels, m \notin crossed, NEW d \in domains'[m],
                      Row(m, "live") \notin registry'[d.id], m \notin outside \union litter
               PROVE  \E j \in Porters : Claims(porter[j], m)
    BY <1>4 DEF KnownInv
  <2>1. m # n /\ d \in domains[m]
    BY <1>6
  <2>2. d.id \in Ids
    BY <2>1 DEF Books, ImportTypes, DomainsTyped
  <2>3. Row(m, "live") # r
    BY <1>3, <2>1 DEF Row
  <2>4. Row(m, "live") \notin registry[d.id]
    BY <1>3, <1>8, <2>2, <2>3
  <2> QED BY <2>1, <2>4 DEF Books, KnownInv
<1>18. PairsInv'
  BY <1>4 DEF Books, PairsInv
<1>19. PortersInv'
  <2> SUFFICES ASSUME NEW j \in Porters
               PROVE  PorterSafe(porter[j], registry', domains', pool', outside, crossed, Muddled)
    BY <1>4 DEF PortersInv
  <2> DEFINE p == porter[j]
  <2>1. /\ SoundPorter(p) /\ DiskSafe(p, domains, pool, outside, Muddled)
        /\ NameSafe(p, registry, domains, crossed) /\ StreamSafe(p, domains, pool, Muddled)
    BY ThisPorter
  <2>2. DiskSafe(p, domains', pool', outside, Muddled)
    <3> SUFFICES ASSUME p.op = "import"
                 PROVE  DiskSafe(p, domains', pool', outside, Muddled)
      BY DEF DiskSafe
    <3>1. p.disk \in Paths /\ p.name \in Labels
      BY <2>1 DEF SoundPorter
    <3>2. domains'[p.name] \subseteq domains[p.name]
      BY <1>6, <3>1
    <3>3. ASSUME p.disk \notin Muddled, p.at \in {"restore", "define", "unlink"}
          PROVE  (\A m \in Labels : ~Has(domains', m, p.disk)) /\ pool'[p.disk] = pool[p.disk]
      <4>1. \A m \in Labels : ~Has(domains, m, p.disk)
        BY <2>1, <3>3 DEF DiskSafe
      <4> QED BY <1>3, <1>7, <1>11, <3>1, <4>1
    <3>4. ASSUME p.disk \notin Muddled, p.at \in {"record", "undefine"}
          PROVE  /\ \A m \in Labels : Has(domains', m, p.disk) => m = p.name
                 /\ pool'[p.disk] # "none" => Has(domains', p.name, p.disk)
      <4>1. /\ \A m \in Labels : Has(domains, m, p.disk) => m = p.name
            /\ pool[p.disk] # "none" => Has(domains, p.name, p.disk)
        BY <2>1, <3>4 DEF DiskSafe
      <4>2. pool'[p.disk] # "none" => pool[p.disk] # "none" /\ ~Has(domains, n, p.disk)
        BY <1>7, <3>1
      <4> QED BY <1>11, <1>12, <3>1, <4>1, <4>2
    <3> QED BY <2>1, <3>2, <3>3, <3>4 DEF DiskSafe
  <2>3. \A i \in Ids : \A s \in registry[i] : \E t \in registry'[i] : t.name = s.name
    BY <1>3, <1>8, <1>9
  <2>4. \A i \in Ids : \A t \in registry'[i] : \E s \in registry[i] : t.name = s.name
    BY <1>3, <1>8, <1>9
  <2>5. NameSafe(p, registry', domains', crossed)
    <3>1. p.at \in Guards => /\ \E s \in registry'[p.id] : s.name = p.name
                             /\ p.name \notin crossed => \A d \in domains'[p.name] : d.id = p.id
      BY <1>6, <2>1, <2>3 DEF NameSafe, SoundPorter
    <3>2. p.at \in {"domain", "volume", "restore", "define", "record", "undefine"} /\ p.name \notin crossed =>
             \A i \in Ids : \A s \in registry'[i] : s.name # p.name
      BY <2>1, <2>4 DEF NameSafe
    <3>3. p.at = "record" /\ p.name \notin crossed => \E d \in domains'[p.name] : d.id = p.id
      <4>1. p.at = "record" => p.name \in Labels
        BY <2>1 DEF SoundPorter
      <4>2. p.at = "record" /\ p.name \notin crossed => p.name # n
        BY <2>1 DEF NameSafe
      <4> QED BY <1>6, <2>1, <4>1, <4>2 DEF NameSafe
    <3>4. ASSUME NEW i \in Ids, NEW m \in Labels, Listed(i, m, registry, domains, crossed)
          PROVE  Listed(i, m, registry', domains', crossed)
      <4> SUFFICES ASSUME m \notin crossed, registry'[i] = {}
                   PROVE  \E d \in domains'[m] : d.id = i
        BY DEF Listed
      <4>1. i # id /\ registry[i] = {}
        BY <1>8
      <4>2. PICK d \in domains[m] : d.id = i
        BY <3>4, <4>1 DEF Listed
      <4>3. m # n
        BY <1>10, <4>1, <4>2
      <4> QED BY <1>6, <4>2, <4>3
    <3>5. /\ p.op = "adopt" => \A s \in p.seen : s.id \in Ids /\ s.name \in Labels
          /\ p.at = "adopt" => p.id \in Ids /\ p.name \in Labels
      BY <2>1 DEF SoundPorter
    <3> QED BY <2>1, <3>1, <3>2, <3>3, <3>4, <3>5 DEF NameSafe
  <2>6. StreamSafe(p, domains', pool', Muddled)
    <3> SUFFICES ASSUME p.at = "stream", {p.id, p.name, p.disk} \cap Muddled = {}
                 PROVE  domains'[p.name] = domains[p.name] /\ pool'[p.disk] = pool[p.disk]
      BY <2>1 DEF StreamSafe
    <3>1. /\ p.disk \in Paths /\ p.name \in Labels /\ p.disk \notin Muddled
          /\ p.name \notin crossed /\ p.id \notin crossed
      BY <2>1 DEF SoundPorter, Guards, Muddled
    <3>2. PICK d \in domains[p.name] : d.id = p.id /\ d.disk = p.disk
      BY <2>1 DEF StreamSafe
    <3>3. ~filed[p.id]
      BY <3>1 DEF LocksInv
    <3>4. p.name # n
      <4> SUFFICES ASSUME p.name = n
                   PROVE  FALSE
        OBVIOUS
      <4>1. d.id = id
        BY <1>10, <3>1, <3>2
      <4> QED BY <1>2, <3>2, <3>3, <4>1
    <3>5. ~Has(domains, n, p.disk)
      <4>1. Has(domains, p.name, p.disk)
        BY <3>2 DEF Has
      <4>2. FileSafe(p.disk, domains, pool, outside, Muddled)
        BY <3>1 DEF Books, FilesInv
      <4> QED BY <1>3, <3>1, <3>4, <4>1, <4>2 DEF FileSafe
    <3> QED BY <1>6, <1>7, <3>1, <3>4, <3>5
  <2> QED BY <2>2, <2>5, <2>6 DEF PorterSafe
<1> QED BY <1>13, <1>14, <1>15, <1>16, <1>17, <1>18, <1>19 DEF Books

(***************************************************************************)
(* The lock and the packages                                               *)
(***************************************************************************)
\* Requests for something else than an export hold no lock.
LEMMA LocksElsewhere ==
  ASSUME LocksInv, NEW k \in Porters, UNCHANGED <<vmHeld, filed>>, crossed \subseteq crossed',
         \A j \in Porters : j # k => porter'[j] = porter[j],
         porter'[k].at \notin {"lock", "look", "stream"}
  PROVE  LocksInv'
BY DEF LocksInv

LEMMA MovesTo ==
  ASSUME ImportTypes, NEW k \in Porters
  PROVE  /\ \A place : PorterAt(k, place) =>
              /\ \A j \in Porters : j # k => porter'[j] = porter[j]
              /\ porter'[k].at = place /\ porter'[k].id = porter[k].id
         /\ Leaves(k) => /\ \A j \in Porters : j # k => porter'[j] = porter[j]
                         /\ porter'[k].at = "none"
<1>1. DOMAIN porter = Porters /\ DOMAIN porter[k] = PorterFields
  BY DEF ImportTypes, SoundPorter
<1> QED BY <1>1 DEF PorterAt, Leaves, NoOne, PorterFields

\* An import that is at work, and an adoption.
Working(k) ==
  \/ CheckRows(k) \/ CheckDomain(k) \/ CheckVolume(k) \/ RestoreVolume(k) \/ DefineImported(k)
  \/ RecordImported(k) \/ UndefineImported(k) \/ UnlinkImported(k) \/ Adopted(k)

LEMMA LocksWorking ==
  ASSUME Books, LocksInv, NEW k \in Porters, Working(k)
  PROVE  LocksInv'
<1>1. UNCHANGED <<vmHeld, filed>>
  BY DEF Working, CheckRows, CheckDomain, CheckVolume, RestoreVolume, DefineImported, RecordImported,
         UndefineImported, UnlinkImported, Adopted
<1>2. crossed \subseteq crossed'
  BY DEF Working, CheckRows, CheckDomain, CheckVolume, RestoreVolume, DefineImported, RecordImported,
         UndefineImported, UnlinkImported, Adopted, ghosts
<1>3. \/ Leaves(k)
      \/ \E place \in {"domain", "volume"} \union Works : PorterAt(k, place)
  BY DEF Working, CheckRows, CheckDomain, CheckVolume, RestoreVolume, DefineImported, RecordImported,
         UndefineImported, UnlinkImported, Adopted, Works
<1>4. /\ \A j \in Porters : j # k => porter'[j] = porter[j]
      /\ porter'[k].at \in {"none", "domain", "volume"} \union Works
  BY <1>3, MovesTo DEF Books
<1>5. porter'[k].at \notin {"lock", "look", "stream"}
  BY <1>4 DEF Works
<1> QED BY <1>1, <1>2, <1>4, <1>5, LocksElsewhere

\* A request that arrives, and an adoption that goes on.
Arriving(k) == Import(k) \/ ImportVMs(k) \/ CountRows(k) \/ Adopt(k) \/ Guarded(k)

LEMMA LocksArriving ==
  ASSUME Books, LocksInv, NEW k \in Porters, Arriving(k)
  PROVE  LocksInv'
<1>1. UNCHANGED <<vmHeld, filed>>
  BY DEF Arriving, Import, ImportVMs, CountRows, Adopt, Guarded
<1>2. crossed \subseteq crossed'
  BY DEF Arriving, Import, ImportVMs, CountRows, Adopt, Guarded, ghosts
<1>3. DOMAIN porter = Porters /\ DOMAIN porter[k] = PorterFields
  BY DEF Books, ImportTypes, SoundPorter
<1>4. CASE porter' = porter
  BY <1>1, <1>2, <1>4 DEF LocksInv
<1>5. CASE porter' # porter
  <2>1. CASE Import(k)
    <3>1. PICK p \in parcels : porter' = [porter EXCEPT ![k] = [NoOne EXCEPT !.at = "rows", !.op = "import", !.id = p.id, !.name = p.name, !.disk = p.disk, !.data = p.data]]
      BY <2>1 DEF Import
    <3>2. porter'[k].at = "rows" /\ \A j \in Porters : j # k => porter'[j] = porter[j]
      BY <1>3, <3>1 DEF NoOne
    <3> QED BY <1>1, <1>2, <3>2, LocksElsewhere
  <2>2. CASE ImportVMs(k)
    <3>1. PICK q \in orders : porter' = [porter EXCEPT ![k] = [NoOne EXCEPT !.at = "count", !.op = "adopt", !.names = q.names, !.seen = ListDomains(q.names)]]
      BY <1>5, <2>2 DEF ImportVMs
    <3>2. porter'[k].at = "count" /\ \A j \in Porters : j # k => porter'[j] = porter[j]
      BY <1>3, <3>1 DEF NoOne
    <3> QED BY <1>1, <1>2, <3>2, LocksElsewhere
  <2>3. CASE CountRows(k)
    <3>1. PICK s \in porter[k].seen :
            /\ porter[k].at = "count"
            /\ \/ porter' = [porter EXCEPT ![k].at = "adopt", ![k].id = s.id, ![k].name = s.name]
               \/ porter' = [porter EXCEPT ![k].seen = @ \ {s}]
      BY <2>3 DEF CountRows
    <3>2. porter'[k].at \in {"count", "adopt"} /\ \A j \in Porters : j # k => porter'[j] = porter[j]
      BY <1>3, <3>1 DEF PorterFields
    <3> QED BY <1>1, <1>2, <3>2, LocksElsewhere
  <2>4. CASE Adopt(k)
    <3>1. porter' = [porter EXCEPT ![k] = [porter[k] EXCEPT !.at = "count", !.seen = {s \in porter[k].seen : s.id # porter[k].id}, !.id = "none", !.name = "none"]]
      BY <2>4 DEF Adopt
    <3>2. porter'[k].at = "count" /\ \A j \in Porters : j # k => porter'[j] = porter[j]
      BY <1>3, <3>1 DEF PorterFields
    <3> QED BY <1>1, <1>2, <3>2, LocksElsewhere
  <2>5. CASE Guarded(k)
    <3>1. PICK q \in orders, id \in Ids : \E r \in registry[id] :
            porter' = [porter EXCEPT ![k] = [NoOne EXCEPT !.at = "act", !.op = q.op, !.id = id, !.name = r.name]]
      BY <1>5, <2>5 DEF Guarded
    <3>2. porter'[k].at = "act" /\ \A j \in Porters : j # k => porter'[j] = porter[j]
      BY <1>3, <3>1 DEF NoOne
    <3> QED BY <1>1, <1>2, <3>2, LocksElsewhere
  <2> QED BY <2>1, <2>2, <2>3, <2>4, <2>5 DEF Arriving
<1> QED BY <1>4, <1>5

LEMMA LocksExport ==
  ASSUME Books, LocksInv, NEW k \in Porters, Export(k) \/ LockForExport(k) \/ LookAtDomain(k) \/ Stream(k)
  PROVE  LocksInv'
<1>1. crossed' = crossed /\ filed' = filed
  BY DEF Export, LockForExport, LookAtDomain, Stream, ghosts
<1>2. DOMAIN porter = Porters /\ DOMAIN porter[k] = PorterFields
  BY DEF Books, ImportTypes, SoundPorter
<1>3. CASE Export(k)
  <2>1. PICK id \in Ids : \E r \in registry[id] :
          /\ porter' = IF Idle(id) THEN [porter EXCEPT ![k] = [NoOne EXCEPT !.at = "lock", !.op = "export", !.id = id, !.name = r.name]] ELSE porter
          /\ UNCHANGED vmHeld
    BY <1>3 DEF Export
  <2>2. CASE Idle(id)
    <3>1. /\ porter'[k].at = "lock" /\ porter'[k].id = id
          /\ \A j \in Porters : j # k => porter'[j] = porter[j]
      BY <1>2, <2>1, <2>2 DEF NoOne
    <3>2. ~filed[id]
      BY <2>2 DEF Idle
    <3> QED BY <1>1, <2>1, <3>1, <3>2 DEF LocksInv
  <2>3. CASE ~Idle(id)
    BY <1>1, <2>1, <2>3 DEF LocksInv
  <2> QED BY <2>2, <2>3
<1>4. CASE LockForExport(k)
  <2>1. CASE Leaves(k) /\ vmHeld' = vmHeld
    BY <1>1, <2>1, LocksElsewhere, MovesTo DEF Books
  <2>2. CASE /\ PorterAt(k, "look") /\ porter[k].id \notin vmHeld /\ vmHeld' = vmHeld \union {porter[k].id}
    <3>1. /\ porter'[k].at = "look" /\ porter'[k].id = porter[k].id
          /\ \A j \in Porters : j # k => porter'[j] = porter[j]
      BY <2>2, MovesTo DEF Books
    <3>2. porter[k].at = "lock"
      BY <1>4 DEF LockForExport
    <3> QED BY <1>1, <2>2, <3>1, <3>2 DEF LocksInv
  <2> QED BY <1>4, <2>1, <2>2 DEF LockForExport
<1>5. ASSUME porter[k].at \in {"look", "stream"}, Leaves(k), vmHeld' = vmHeld \ {porter[k].id}
      PROVE  LocksInv'
  <2>1. porter'[k].at = "none" /\ \A j \in Porters : j # k => porter'[j] = porter[j]
    BY <1>5, MovesTo DEF Books
  <2>2. \A j \in Porters : j # k /\ porter[j].at \in {"look", "stream"} => porter[j].id \in vmHeld'
    BY <1>5 DEF LocksInv
  <2> QED BY <1>1, <2>1, <2>2 DEF LocksInv
<1>6. CASE LookAtDomain(k)
  <2>1. CASE Leaves(k) /\ vmHeld' = vmHeld \ {porter[k].id}
    BY <1>5, <1>6, <2>1 DEF LookAtDomain
  <2>2. CASE \E d \in domains[porter[k].name] :
               /\ porter' = [porter EXCEPT ![k].at = "stream", ![k].disk = d.disk, ![k].data = pool[d.disk]]
               /\ UNCHANGED vmHeld
    <3>1. PICK d : porter' = [porter EXCEPT ![k].at = "stream", ![k].disk = d.disk, ![k].data = pool[d.disk]]
      BY <2>2
    <3>2. PICK c : c = [porter[k] EXCEPT !.at = "stream", !.disk = d.disk, !.data = pool[d.disk]]
      OBVIOUS
    <3>3. porter' = [porter EXCEPT ![k] = c]
      BY <3>1, <3>2
    <3>4. c.at = "stream" /\ c.id = porter[k].id
      BY <1>2, <3>2 DEF PorterFields
    <3>5. /\ porter'[k].at = "stream" /\ porter'[k].id = porter[k].id
          /\ \A j \in Porters : j # k => porter'[j] = porter[j]
      BY <1>2, <3>3, <3>4
    <3>6. porter[k].at = "look" /\ vmHeld' = vmHeld
      BY <1>6, <2>2 DEF LookAtDomain
    <3> QED BY <1>1, <3>5, <3>6 DEF LocksInv
  <2> QED BY <1>6, <2>1, <2>2 DEF LookAtDomain
<1>7. CASE Stream(k)
  BY <1>5, <1>7 DEF Stream
<1> QED BY <1>3, <1>4, <1>6, <1>7

LEMMA LocksMeanwhile ==
  ASSUME Books, LocksInv, GuestWrites \/ Deletion \/ \E k \in Porters : PowerOrDelete(k)
  PROVE  LocksInv'
<1>1. CASE GuestWrites
  BY <1>1 DEF GuestWrites, LocksInv, ghosts
<1>2. CASE Deletion
  <2>1. /\ UNCHANGED <<vmHeld, porter, crossed>>
        /\ \E id \in Ids : filed' = [filed EXCEPT ![id] = FALSE]
    BY <1>2 DEF Deletion, ghosts
  <2>2. \A i \in Ids : filed'[i] => filed[i]
    BY <2>1 DEF Books, ImportTypes
  <2>3. \A j \in Porters : porter[j].at \in {"lock", "look", "stream"} => porter[j].id \in Ids
    BY DEF Books, ImportTypes, SoundPorter, Guards
  <2> QED BY <2>1, <2>2, <2>3 DEF LocksInv
<1>3. ASSUME NEW k \in Porters, PowerOrDelete(k)
      PROVE  LocksInv'
  <2>1. porter'[k].at = "none" /\ \A j \in Porters : j # k => porter'[j] = porter[j]
    BY <1>3, MovesTo DEF PowerOrDelete, Books
  <2>2. vmHeld' = vmHeld /\ crossed \subseteq crossed'
    BY <1>3 DEF PowerOrDelete
  <2>3. CASE filed' = filed
    BY <2>1, <2>2, <2>3, LocksElsewhere
  <2>4. CASE filed' # filed
    <3>1. /\ filed' = [filed EXCEPT ![porter[k].id] = TRUE] /\ porter[k].id \notin vmHeld
          /\ crossed' = crossed \union (IF \E j \in Porters : porter[j].at = "lock" /\ porter[j].id = porter[k].id THEN {porter[k].id} ELSE {})
      BY <1>3, <2>4 DEF PowerOrDelete
    <3>2. \A j \in Porters : porter[j].at \in {"look", "stream"} => porter[j].id # porter[k].id
      BY <3>1 DEF LocksInv
    <3>3. \A j \in Porters : porter[j].at = "lock" /\ porter[j].id \notin crossed' => porter[j].id # porter[k].id
      BY <3>1
    <3>4. \A i : i # porter[k].id /\ i \in Ids => filed'[i] = filed[i]
      BY <3>1 DEF Books, ImportTypes
    <3>5. \A j \in Porters : porter[j].at \in {"lock", "look", "stream"} => porter[j].id \in Ids
      BY DEF Books, ImportTypes, SoundPorter, Guards
    <3> QED BY <2>1, <2>2, <3>2, <3>3, <3>4, <3>5 DEF LocksInv
  <2> QED BY <2>3, <2>4
<1> QED BY <1>1, <1>2, <1>3

\* Nothing is uncrossed, and only an export makes a package.
LEMMA ParcelsStep ==
  ASSUME ImportInv, ImportNext
  PROVE  ParcelsInv'
<1>1. crossed \subseteq crossed' /\ litter \subseteq litter' /\ (parcels' = parcels \/ \E k \in Porters : Stream(k))
  <2>1. CASE GuestWrites
    BY <2>1 DEF GuestWrites, ghosts
  <2>2. CASE Deletion
    BY <2>2 DEF Deletion, ghosts
  <2>3. ASSUME NEW k \in Porters, Export(k)
        PROVE  crossed \subseteq crossed' /\ litter \subseteq litter' /\ parcels' = parcels
    BY <2>3 DEF Export, ghosts
  <2>4. ASSUME NEW k \in Porters, LockForExport(k)
        PROVE  crossed \subseteq crossed' /\ litter \subseteq litter' /\ parcels' = parcels
    BY <2>4 DEF LockForExport, ghosts
  <2>5. ASSUME NEW k \in Porters, LookAtDomain(k)
        PROVE  crossed \subseteq crossed' /\ litter \subseteq litter' /\ parcels' = parcels
    BY <2>5 DEF LookAtDomain, ghosts
  <2>6. ASSUME NEW k \in Porters, Stream(k)
        PROVE  crossed \subseteq crossed' /\ litter \subseteq litter'
    BY <2>6 DEF Stream, ghosts
  <2>7. ASSUME NEW k \in Porters, Import(k)
        PROVE  crossed \subseteq crossed' /\ litter \subseteq litter' /\ parcels' = parcels
    BY <2>7 DEF Import, ghosts
  <2>8. ASSUME NEW k \in Porters, CheckRows(k)
        PROVE  crossed \subseteq crossed' /\ litter \subseteq litter' /\ parcels' = parcels
    BY <2>8 DEF CheckRows, ghosts
  <2>9. ASSUME NEW k \in Porters, CheckDomain(k)
        PROVE  crossed \subseteq crossed' /\ litter \subseteq litter' /\ parcels' = parcels
    BY <2>9 DEF CheckDomain, ghosts
  <2>10. ASSUME NEW k \in Porters, CheckVolume(k)
        PROVE  crossed \subseteq crossed' /\ litter \subseteq litter' /\ parcels' = parcels
    BY <2>10 DEF CheckVolume, ghosts
  <2>11. ASSUME NEW k \in Porters, RestoreVolume(k)
        PROVE  crossed \subseteq crossed' /\ litter \subseteq litter' /\ parcels' = parcels
    BY <2>11 DEF RestoreVolume, ghosts
  <2>12. ASSUME NEW k \in Porters, DefineImported(k)
        PROVE  crossed \subseteq crossed' /\ litter \subseteq litter' /\ parcels' = parcels
    BY <2>12 DEF DefineImported, ghosts
  <2>13. ASSUME NEW k \in Porters, RecordImported(k)
        PROVE  crossed \subseteq crossed' /\ litter \subseteq litter' /\ parcels' = parcels
    BY <2>13 DEF RecordImported, ghosts
  <2>14. ASSUME NEW k \in Porters, UndefineImported(k)
        PROVE  crossed \subseteq crossed' /\ litter \subseteq litter' /\ parcels' = parcels
    BY <2>14 DEF UndefineImported, ghosts
  <2>15. ASSUME NEW k \in Porters, UnlinkImported(k)
        PROVE  crossed \subseteq crossed' /\ litter \subseteq litter' /\ parcels' = parcels
    BY <2>15 DEF UnlinkImported, ghosts
  <2>16. ASSUME NEW k \in Porters, ImportVMs(k)
        PROVE  crossed \subseteq crossed' /\ litter \subseteq litter' /\ parcels' = parcels
    BY <2>16 DEF ImportVMs, ghosts
  <2>17. ASSUME NEW k \in Porters, CountRows(k)
        PROVE  crossed \subseteq crossed' /\ litter \subseteq litter' /\ parcels' = parcels
    BY <2>17 DEF CountRows, ghosts
  <2>18. ASSUME NEW k \in Porters, Adopt(k)
        PROVE  crossed \subseteq crossed' /\ litter \subseteq litter' /\ parcels' = parcels
    BY <2>18 DEF Adopt, ghosts
  <2>19. ASSUME NEW k \in Porters, Adopted(k)
        PROVE  crossed \subseteq crossed' /\ litter \subseteq litter' /\ parcels' = parcels
    BY <2>19 DEF Adopted, ghosts
  <2>20. ASSUME NEW k \in Porters, Guarded(k)
        PROVE  crossed \subseteq crossed' /\ litter \subseteq litter' /\ parcels' = parcels
    BY <2>20 DEF Guarded, ghosts
  <2>21. ASSUME NEW k \in Porters, PowerOrDelete(k)
        PROVE  crossed \subseteq crossed' /\ litter \subseteq litter' /\ parcels' = parcels
    BY <2>21 DEF PowerOrDelete, ghosts
  <2> QED BY <2>1, <2>2, <2>3, <2>4, <2>5, <2>6, <2>7, <2>8, <2>9, <2>10, <2>11, <2>12, <2>13, <2>14, <2>15, <2>16, <2>17, <2>18, <2>19, <2>20, <2>21 DEF ImportNext
<1>3. CASE parcels' = parcels
  BY <1>1, <1>3 DEF ImportInv, ParcelsInv, ExportsWhole
<1>4. ASSUME NEW k \in Porters, Stream(k)
      PROVE  ParcelsInv'
  <2> DEFINE q == porter[k]
  <2>1. PICK p : p = [id |-> q.id, name |-> q.name, disk |-> q.disk, data |-> IF pool[q.disk] = q.data THEN q.data ELSE "torn"]
    OBVIOUS
  <2>2. parcels' = parcels \union {p} \/ parcels' = parcels
    BY <1>4, <2>1 DEF Stream
  <2>3. /\ q.at = "stream" /\ SoundPorter(q) /\ StreamSafe(q, domains, pool, Muddled)
        /\ FilesInv
    BY <1>4, ThisPorter DEF Stream, ImportInv, Books
  <2>4. q.id \in Ids /\ q.name \in Labels /\ q.disk \in Paths
    BY <2>3 DEF SoundPorter, Guards
  <2>5. p.id = q.id /\ p.name = q.name /\ p.disk = q.disk
    BY <2>1
  <2>6. p.data = "torn" => {q.id, q.name, q.disk} \cap Muddled # {}
    <3> SUFFICES ASSUME {q.id, q.name, q.disk} \cap Muddled = {}
                 PROVE  p.data # "torn"
      OBVIOUS
    <3>1. pool[q.disk] = q.data /\ \E d \in domains[q.name] : d.id = q.id /\ d.disk = q.disk
      BY <2>3 DEF StreamSafe
    <3>2. pool[q.disk] # "torn"
      BY <2>3, <2>4, <3>1 DEF FilesInv, FileSafe
    <3> QED BY <2>1, <3>1, <3>2
  <2>7. p.data # "none"
    BY <2>1, <2>3 DEF SoundPorter
  <2>8. ASSUME NEW r \in parcels'
        PROVE  /\ r.data = "torn" => {r.id, r.name, r.disk} \cap (litter' \union crossed') # {}
               /\ r.id \in Ids /\ r.name \in Labels /\ r.disk \in Paths /\ r.data # "none"
    <3>1. CASE r \in parcels
      BY <1>1, <3>1 DEF ImportInv, ParcelsInv, ExportsWhole
    <3>2. CASE r = p
      <4>1. r.data = "torn" => {r.id, r.name, r.disk} \cap Muddled # {}
        BY <2>5, <2>6, <3>2
      <4> QED BY <1>1, <2>4, <2>5, <2>7, <3>2, <4>1 DEF Muddled
    <3> QED BY <2>2, <3>1, <3>2
  <2> QED BY <2>8 DEF ParcelsInv, ExportsWhole
<1> QED BY <1>1, <1>3, <1>4

(***************************************************************************)
(* The inductive invariant                                                 *)
(***************************************************************************)
LEMMA ImportInitially == ImportInit => ImportInv
<1> SUFFICES ASSUME ImportInit
             PROVE  ImportInv
  OBVIOUS
<1>1. PICK mix \in ImportMixes :
        /\ registry = mix.registry /\ domains = mix.domains /\ pool = mix.pool /\ parcels = mix.parcels
        /\ filed = [id \in Ids |-> FALSE] /\ porter = [k \in Porters |-> NoOne]
        /\ outside = mix.outside /\ litter = {} /\ crossed = {}
  BY DEF ImportInit
<1>2. /\ DOMAIN registry = Ids /\ DOMAIN domains = Labels /\ DOMAIN pool = Paths
      /\ \A id \in Ids : \A r \in registry[id] :
           /\ registry[id] = {r} /\ r = Row(r.name, r.life) /\ r.name \in Labels
           /\ r.life = "live" => \E d \in domains[r.name] : d.id = id
  BY <1>1, ParcelAssumption
<1>3. \A n \in Labels : \A d \in domains[n] :
        /\ domains[n] = {d} /\ d = Domain(d.id, d.disk, d.st) /\ d.id \in Ids /\ d.disk \in Paths
        /\ pool[d.disk] # "none" /\ d.disk \notin outside
        /\ Row(n, "live") \in registry[d.id] \/ n \in outside
        /\ \A m \in Labels : \A e \in domains[m] : e.disk = d.disk => m = n
  BY <1>1, ParcelAssumption
<1>4. \A x \in Paths : /\ pool[x] # "torn" /\ (x \in outside => pool[x] = "outside")
                       /\ pool[x] # "none" => x \in outside \/ \E n \in Labels : \E d \in domains[n] : d.disk = x
  BY <1>1, ParcelAssumption
<1>5. \A p \in parcels : /\ p.id \in Ids /\ p.name \in Labels /\ p.disk \in Paths
                         /\ p.data # "none" /\ p.data # "torn"
  BY <1>1, ParcelAssumption
<1>6. \A k \in Porters : porter[k] = NoOne /\ porter[k].at = "none" /\ porter[k].op = "none"
  BY <1>1 DEF NoOne
<1>7. SoundPorter(NoOne)
  BY DEF SoundPorter, NoOne, PorterFields, Works, Guards
<1>8. ImportTypes
  BY <1>1, <1>2, <1>3, <1>6, <1>7 DEF ImportTypes, RowsTyped, DomainsTyped
<1>9. FilesInv /\ OwnedInv
  BY <1>3, <1>4 DEF FilesInv, OwnedInv, FileSafe, Has
<1>10. RowsInv /\ KnownInv
  <2>1. \A id \in Ids : ~filed[id]
    BY <1>1
  <2> QED BY <1>2, <1>3, <2>1 DEF RowsInv, KnownInv, RowSafe
<1>11. PairsInv /\ LocksInv
  BY <1>6 DEF PairsInv, LocksInv, Apart
<1>12. PortersInv
  BY <1>6 DEF PortersInv, PorterSafe, DiskSafe, NameSafe, StreamSafe, Guards
<1>13. ParcelsInv
  BY <1>5 DEF ParcelsInv, ExportsWhole
<1> QED BY <1>8, <1>9, <1>10, <1>11, <1>12, <1>13 DEF ImportInv, Books

LEMMA ImportStep == ImportInv /\ [ImportNext]_importVars => ImportInv'
<1> SUFFICES ASSUME ImportInv, [ImportNext]_importVars
             PROVE  ImportInv'
  OBVIOUS
<1>1. CASE UNCHANGED importVars
  BY <1>1 DEF importVars, ImportInv, Books, ImportTypes, FilesInv, OwnedInv, RowsInv, KnownInv, PairsInv,
              PortersInv, LocksInv, ParcelsInv, ExportsWhole, Muddled
<1>2. CASE ImportNext
  <2> USE <1>2
  <2>1. ParcelsInv'
    BY ParcelsStep
  <2>2. CASE GuestWrites
    BY <2>1, <2>2, GuestWritesKeeps, LocksMeanwhile DEF ImportInv
  <2>3. CASE Deletion
    BY <2>1, <2>3, DeletionKeeps, LocksMeanwhile DEF ImportInv
  <2>4. ASSUME NEW k \in Porters, Export(k) \/ LockForExport(k) \/ LookAtDomain(k) \/ Stream(k)
        PROVE  ImportInv'
    BY <2>1, <2>4, ExportKeeps, LockForExportKeeps, LookAtDomainKeeps, StreamKeeps, LocksExport DEF ImportInv
  <2>5. ASSUME NEW k \in Porters, Working(k)
        PROVE  ImportInv'
    <3>1. Books'
      BY <2>5, CheckRowsKeeps, CheckDomainKeeps, CheckVolumeKeeps, RestoreVolumeKeeps, DefineImportedKeeps,
         RecordImportedKeeps, UndefineImportedKeeps, UnlinkImportedKeeps, AdoptedKeeps DEF ImportInv, Working
    <3> QED BY <2>1, <2>5, <3>1, LocksWorking DEF ImportInv
  <2>6. ASSUME NEW k \in Porters, Arriving(k)
        PROVE  ImportInv'
    <3>1. Books'
      BY <2>6, ImportKeeps, ImportVMsKeeps, CountRowsKeeps, AdoptKeeps, GuardedStepKeeps DEF ImportInv, Arriving
    <3> QED BY <2>1, <2>6, <3>1, LocksArriving DEF ImportInv
  <2>7. ASSUME NEW k \in Porters, PowerOrDelete(k)
        PROVE  ImportInv'
    BY <2>1, <2>7, PowerOrDeleteKeeps, LocksMeanwhile DEF ImportInv
  <2> QED BY <2>2, <2>3, <2>4, <2>5, <2>6, <2>7 DEF ImportNext, Working, Arriving
<1> QED BY <1>1, <1>2

LEMMA ImportInvHolds == ImportSpec => []ImportInv
BY ImportInitially, ImportStep, PTL DEF ImportSpec

(***************************************************************************)
(* Theorems                                                                *)
(***************************************************************************)
\* The row, the domain and the file of a machine are there together or not at all once the
\* requests for it have ended, if none of them met another (vm_export_import.go, Import,
\* cleanupImport).
THEOREM PiecesStayTogether == ImportSpec => []PiecesAgree
<1>1. ImportInv => PiecesAgree
  <2> SUFFICES ASSUME ImportInv, NEW id \in Ids, NEW n \in Labels, id \notin crossed, n \notin crossed,
                      \A k \in Porters : ~AtWork(k, id, n)
               PROVE  /\ Row(n, "live") \in registry[id] => Whole(id, n)
                      /\ (\E d \in domains[n] : d.id = id) => Row(n, "live") \in registry[id] \/ n \in outside \union litter
    BY DEF PiecesAgree
  <2>1. ASSUME Row(n, "live") \in registry[id]
        PROVE  Whole(id, n)
    <3>1. Row(n, "live").name = n /\ Row(n, "live").life = "live"
      BY DEF Row
    <3>2. PICK d \in domains[n] : d.id = id
      BY <2>1, <3>1 DEF ImportInv, Books, RowsInv, RowSafe
    <3>3. d.disk \in Paths /\ Has(domains, n, d.disk)
      BY DEF ImportInv, Books, ImportTypes, DomainsTyped, Has
    <3>4. d.disk \notin Muddled => pool[d.disk] # "none"
      BY <3>3 DEF ImportInv, Books, FilesInv, FileSafe
    <3> QED BY <3>2, <3>4 DEF Whole, Muddled
  <2>2. ASSUME NEW d \in domains[n], d.id = id
        PROVE  Row(n, "live") \in registry[id] \/ n \in outside \union litter
    <3>1. ~\E k \in Porters : Claims(porter[k], n)
      BY DEF AtWork, Claims
    <3> QED BY <2>2, <3>1 DEF ImportInv, Books, KnownInv
  <2> QED BY <2>1, <2>2
<1> QED BY <1>1, ImportInvHolds, PTL

\* No import replaces a file that is not its own, and it leaves none without a domain but for
\* what it reports (vm_export_import.go, Import, copyFileSync, cleanupImport).
THEOREM FilesAreKept == ImportSpec => []FilesKept
<1>1. ImportInv => FilesKept
  <2> SUFFICES ASSUME ImportInv, NEW x \in Paths \ crossed, \A k \in Porters : porter[k].disk # x
               PROVE  /\ x \in outside => pool[x] = "outside"
                      /\ pool[x] # "none" => x \in outside \union litter \/ \E n \in Labels : \E d \in domains[n] : d.disk = x
    BY DEF FilesKept
  <2>1. FileSafe(x, domains, pool, outside, Muddled)
    BY DEF ImportInv, Books, FilesInv
  <2>2. ~\E k \in Porters : Holds(porter[k], x)
    BY DEF Holds
  <2> QED BY <2>1, <2>2 DEF ImportInv, Books, OwnedInv, FileSafe, Has, Muddled
<1> QED BY <1>1, ImportInvHolds, PTL

\* A package is the disk as it was in one moment, unless requests met over the machine or a
\* clean-up left it (vm_export.go, Export, streamExportTarGz).
THEOREM PackagesAreWhole == ImportSpec => []ExportsWhole
<1>1. ImportInv => ExportsWhole
  BY DEF ImportInv, ParcelsInv
<1> QED BY <1>1, ImportInvHolds, PTL

=============================================================================
