--------------------------- MODULE ServicesProofs ---------------------------
(***************************************************************************)
(* Theorems about three of the services that run beside the task queue, for *)
(* any values of their constants: the alerts and settings of Watch, the SSH *)
(* requests of Shells and the runs of Ansible.  The three share no variable, *)
(* and each has an inductive invariant of its own.                         *)
(***************************************************************************)
EXTENDS Watch, Shells, Ansible, FiniteSetTheorems, TLAPS

(***************************************************************************)
(* Watch.  The invariant has two parts: what a request between the row of a *)
(* setting and the memory carries (SettingsInv), and the books on one alert, *)
(* which say how many notes are still owed for the times it turned to firing *)
(* (ToldInv).                                                              *)
(***************************************************************************)

ClerkFields == {"at", "items", "old", "to"}

\* A request at work has something left to do, and who is told includes those who stay.
GoodClerk(c) ==
  /\ DOMAIN c = ClerkFields
  /\ c.at # "none" => c.items \in Seq(AllItems) /\ c.items # <<>>
  /\ c.at \in {"grants", "insert"} => Lasting \subseteq c.to

\* A request that has the setting or the alert still to do.
Concerns(c, x) == c.at # "none" /\ \E i \in DOMAIN c.items : c.items[i].of = x

\* What the scenarios keep in range.
WatchTypes ==
  /\ DOMAIN saved = Keys /\ DOMAIN cached = Keys /\ DOMAIN alerts = Prints
  /\ DOMAIN pushed = Prints /\ DOMAIN sending = Prints /\ DOMAIN born = Prints /\ DOMAIN missed = Prints
  /\ \A x \in Prints : \A r \in alerts[x] : DOMAIN r = {"status", "aged"}
  /\ \A n \in notes : DOMAIN n = {"user", "of", "no", "read"}
  /\ Lasting \subseteq admins
  /\ \A q \in mail : /\ q.op \in {"settings", "deliver"} => q.items \in Seq(AllItems) /\ q.items # <<>>
                     /\ q.op = "staff" => Lasting \subseteq q.admins

ClerksInv == DOMAIN clerk = Clerks /\ \A k \in Clerks : GoodClerk(clerk[k])

\* What is not mixed has one request at work on it.
SoleClerk == \A x : x \notin mixed =>
  \A k, l \in Clerks : Concerns(clerk[k], x) /\ Concerns(clerk[l], x) => k = l

\* A request whose setting has its row, and is not in memory yet.
Caches(k, x) == clerk[k].at = "cache" /\ Item(k).of = x

\* A request between row and memory carries what the row has.
SettingsInv == \A x \in Keys : x \notin mixed =>
  /\ \A k \in Clerks : Caches(k, x) => saved[x] = Item(k).value
  /\ (\A k \in Clerks : ~Caches(k, x)) => cached[x] = saved[x]

\* A request that goes on has at most what it had to do.
LEMMA OneClerk ==
  ASSUME ClerksInv, SoleClerk, NEW k \in Clerks, NEW c, GoodClerk(c),
         \A x : Concerns(c, x) => Concerns(clerk[k], x),
         clerk' = [clerk EXCEPT ![k] = c], mixed' = mixed
  PROVE  /\ ClerksInv' /\ SoleClerk' /\ clerk'[k] = c
         /\ \A l \in Clerks : l # k => clerk'[l] = clerk[l]
<1>1. /\ DOMAIN clerk' = Clerks /\ clerk'[k] = c
      /\ \A l \in Clerks : l # k => clerk'[l] = clerk[l]
  BY DEF ClerksInv
<1>2. ClerksInv'
  BY <1>1 DEF ClerksInv
<1>3. SoleClerk'
  <2> HIDE DEF Concerns
  <2>1. \A l \in Clerks : \A x : Concerns(clerk'[l], x) => Concerns(clerk[l], x)
    BY <1>1
  <2>2. \A l \in Clerks : \A x : Concerns(clerk[l], x)' <=> Concerns(clerk'[l], x)
    BY DEF Concerns
  <2> QED BY <2>1, <2>2 DEF SoleClerk
<1> QED BY <1>1, <1>2, <1>3

LEMMA ItemIsFirst ==
  ASSUME NEW c, GoodClerk(c), c.at # "none"
  PROVE  /\ Head(c.items) = c.items[1] /\ 1 \in DOMAIN c.items
         /\ Head(c.items) \in AllItems /\ Concerns(c, Head(c.items).of)
<1>1. c.items \in Seq(AllItems) /\ c.items # <<>>
  BY DEF GoodClerk
<1>2. Head(c.items) = c.items[1] /\ 1 \in DOMAIN c.items /\ Head(c.items) \in AllItems
  BY <1>1
<1> QED BY <1>2 DEF Concerns

LEMMA NoWorkGood == GoodClerk(NoWork) /\ NoWork.at = "none" /\ \A x : ~Concerns(NoWork, x)
BY DEF GoodClerk, NoWork, ClerkFields, Concerns

\* The next item: what is left concerns no more than before.
LEMMA OnwardGood ==
  ASSUME ClerksInv, NEW k \in Clerks, clerk[k].at # "none", NEW place, place \in {"save", "read"},
         Onward(k, place)
  PROVE  \E c : /\ clerk' = [clerk EXCEPT ![k] = c] /\ GoodClerk(c) /\ c.at \in {"none", place}
                /\ \A x : Concerns(c, x) => Concerns(clerk[k], x)
<1>1. GoodClerk(clerk[k])
  BY DEF ClerksInv
<1> DEFINE s == clerk[k].items
<1>2. s \in Seq(AllItems) /\ s # <<>>
  BY <1>1 DEF GoodClerk
<1>3. CASE Len(s) = 1
  <2>1. clerk' = [clerk EXCEPT ![k] = NoWork]
    BY <1>3 DEF Onward
  <2> QED BY <2>1, NoWorkGood
<1>4. CASE Len(s) # 1
  <2>1. PICK c : c = [NoWork EXCEPT !.at = place, !.items = Tail(s)]
    OBVIOUS
  <2>2. clerk' = [clerk EXCEPT ![k] = c]
    BY <1>4, <2>1 DEF Onward
  <2>3. Tail(s) \in Seq(AllItems) /\ Tail(s) # <<>>
    <3>1. Tail(s) \in Seq(AllItems) /\ Len(Tail(s)) = Len(s) - 1 /\ Len(s) \in Nat /\ Len(s) # 0
      BY <1>2
    <3>2. Len(Tail(s)) # 0
      BY <1>4, <3>1
    <3>3. Len(<<>>) = 0
      OBVIOUS
    <3> QED BY ONLY <3>1, <3>2, <3>3
  <2>4. DOMAIN c = ClerkFields /\ c.at = place /\ c.items = Tail(s)
    BY <2>1 DEF NoWork, ClerkFields
  <2>5. \A i \in DOMAIN Tail(s) : i + 1 \in DOMAIN s /\ Tail(s)[i] = s[i + 1]
    BY <1>2
  <2>6. \A x : Concerns(c, x) => Concerns(clerk[k], x)
    BY <2>4, <2>5 DEF Concerns
  <2>7. GoodClerk(c)
    BY <2>3, <2>4 DEF GoodClerk
  <2> QED BY <2>2, <2>4, <2>6, <2>7
<1> QED BY <1>3, <1>4

BooksInv == WatchTypes /\ ClerksInv /\ SoleClerk
WatchInv == BooksInv /\ SettingsInv

\* A step that moves one request elsewhere than from row to memory leaves the settings alone.
LEMMA SettingsRest ==
  ASSUME SettingsInv, UNCHANGED <<saved, cached, mixed>>, DOMAIN clerk' = Clerks,
         \A k \in Clerks : clerk'[k] = clerk[k] \/ (clerk[k].at # "cache" /\ clerk'[k].at # "cache")
  PROVE  SettingsInv'
<1>1. \A k \in Clerks : \A x : Caches(k, x)' <=> Caches(k, x)
  BY DEF Caches, Item
<1>2. \A k \in Clerks : \A x : Caches(k, x) => Item(k)' = Item(k)
  BY DEF Caches, Item
<1> QED BY <1>1, <1>2 DEF SettingsInv

\* A new request is mixed with those that are at work on the same.
LEMMA ArrivesSound ==
  ASSUME WatchInv, NEW op, op \in {"settings", "deliver"}, NEW place, place \in {"save", "read"},
         Arrives(op, place)
  PROVE  /\ ClerksInv' /\ SoleClerk' /\ mixed \subseteq mixed' /\ mail' \subseteq mail
         /\ \A k \in Clerks : clerk'[k] = clerk[k] \/ (clerk[k].at = "none" /\ clerk'[k].at = place)
<1>1. PICK k \in Clerks, q \in mail :
        /\ q.op = op /\ clerk[k].at = "none" /\ mail' = mail \ {q}
        /\ clerk' = [clerk EXCEPT ![k] = [NoWork EXCEPT !.at = place, !.items = q.items]]
        /\ mixed' = mixed \union {x \in {q.items[i].of : i \in DOMAIN q.items} : \E other \in Clerks : Touches(other, x)}
  BY DEF Arrives
<1>2. PICK c : c = [NoWork EXCEPT !.at = place, !.items = q.items]
  OBVIOUS
<1>3. DOMAIN c = ClerkFields /\ c.at = place /\ c.items = q.items
  BY <1>2 DEF NoWork, ClerkFields
<1>4. GoodClerk(c)
  BY <1>1, <1>3 DEF GoodClerk, BooksInv, WatchInv, WatchTypes
<1>5. DOMAIN clerk' = Clerks /\ clerk'[k] = c /\ \A l \in Clerks : l # k => clerk'[l] = clerk[l]
  BY <1>1, <1>2 DEF BooksInv, WatchInv, ClerksInv
<1>6. ClerksInv'
  BY <1>4, <1>5 DEF BooksInv, WatchInv, ClerksInv
<1>7. \A x : Concerns(c, x) => \/ x \in mixed' \/ \A l \in Clerks : ~Concerns(clerk[l], x)
  BY <1>1, <1>3 DEF Concerns, Touches
<1>8. SoleClerk'
  <2> SUFFICES ASSUME NEW x, x \notin mixed', NEW l \in Clerks, NEW m \in Clerks,
                      Concerns(clerk'[l], x), Concerns(clerk'[m], x), l # m
               PROVE  FALSE
    BY DEF SoleClerk, Concerns
  <2>1. ~(l # k /\ m # k)
    BY <1>1, <1>5 DEF BooksInv, WatchInv, SoleClerk
  <2>2. Concerns(c, x) /\ \E n \in Clerks : Concerns(clerk[n], x)
    BY <1>5, <2>1
  <2> QED BY <1>7, <2>2
<1> QED BY <1>1, <1>3, <1>5, <1>6, <1>8

LEMMA SaveRowSound ==
  ASSUME WatchInv, NEW k \in Clerks, SaveRow(k)
  PROVE  ClerksInv' /\ SoleClerk' /\ SettingsInv'
<1>1. ClerksInv /\ SoleClerk /\ SettingsInv /\ GoodClerk(clerk[k])
  BY DEF BooksInv, WatchInv, ClerksInv
<1>2. clerk[k].at = "save" /\ mixed' = mixed /\ cached' = cached
  BY DEF SaveRow
<1>3. CASE clerk' = [clerk EXCEPT ![k] = NoWork] /\ saved' = saved
  <2>1. ClerksInv' /\ SoleClerk' /\ clerk'[k] = NoWork /\ \A l \in Clerks : l # k => clerk'[l] = clerk[l]
    BY <1>1, <1>2, <1>3, NoWorkGood, OneClerk
  <2> QED BY <1>1, <1>2, <1>3, <2>1, NoWorkGood, SettingsRest DEF ClerksInv
<1>4. CASE saved' = [saved EXCEPT ![Item(k).of] = Item(k).value] /\ StepTo(k, "cache")
  <2>1. PICK c : c = [clerk[k] EXCEPT !.at = "cache"]
    OBVIOUS
  <2>2. DOMAIN c = ClerkFields /\ c.at = "cache" /\ c.items = clerk[k].items
    BY <1>1, <2>1 DEF GoodClerk, ClerkFields
  <2>3. GoodClerk(c) /\ \A x : Concerns(c, x) => Concerns(clerk[k], x)
    BY <1>1, <1>2, <2>2 DEF GoodClerk, Concerns
  <2>4. /\ ClerksInv' /\ SoleClerk' /\ clerk'[k] = c /\ \A l \in Clerks : l # k => clerk'[l] = clerk[l]
    BY <1>1, <1>2, <1>4, <2>1, <2>3, OneClerk DEF StepTo
  <2>5. PICK it : it = Item(k)
    OBVIOUS
  <2>6. Concerns(clerk[k], it.of)
    BY <1>1, <1>2, <2>5, ItemIsFirst DEF Item
  <2>7. \A l \in Clerks : \A x : Caches(l, x) => Concerns(clerk[l], x)
    BY <1>1, ItemIsFirst DEF ClerksInv, Caches, Item
  <2>8. \A l \in Clerks : \A x : Caches(l, x)' <=> IF l = k THEN x = it.of ELSE Caches(l, x)
    BY <2>2, <2>4, <2>5 DEF Caches, Item
  <2>9. \A l \in Clerks : Item(l)' = Item(l)
    BY <2>2, <2>4 DEF Item
  <2>10. ASSUME NEW x \in Keys, x \notin mixed
         PROVE  /\ \A l \in Clerks : Caches(l, x)' => saved'[x] = Item(l)'.value
                /\ (\A l \in Clerks : ~Caches(l, x)') => cached'[x] = saved'[x]
    <3>1. CASE x = it.of
      <4>1. saved'[x] = it.value
        BY <1>4, <2>5, <3>1 DEF BooksInv, WatchInv, WatchTypes
      <4>2. \A l \in Clerks : Caches(l, x)' => l = k
        BY <1>1, <2>6, <2>7, <2>8, <2>10, <3>1 DEF SoleClerk
      <4>3. Caches(k, x)'
        BY <2>8, <3>1
      <4> QED BY <2>5, <2>9, <4>1, <4>2, <4>3
    <3>2. CASE x # it.of
      <4>1. saved'[x] = saved[x]
        BY <1>4, <2>5, <3>2 DEF BooksInv, WatchInv, WatchTypes
      <4>2. \A l \in Clerks : Caches(l, x)' => Caches(l, x)
        BY <2>8, <3>2
      <4>3. \A l \in Clerks : Caches(l, x) => Caches(l, x)'
        BY <1>2, <2>8 DEF Caches
      <4> QED BY <1>1, <1>2, <2>9, <2>10, <4>1, <4>2, <4>3 DEF SettingsInv
    <3> QED BY <3>1, <3>2
  <2>11. SettingsInv'
    BY <1>2, <2>10 DEF SettingsInv
  <2> QED BY <2>4, <2>11
<1> QED BY <1>3, <1>4 DEF SaveRow

LEMMA RefreshSound ==
  ASSUME WatchInv, NEW k \in Clerks, Refresh(k)
  PROVE  ClerksInv' /\ SoleClerk' /\ SettingsInv'
<1>1. ClerksInv /\ SoleClerk /\ SettingsInv /\ GoodClerk(clerk[k])
  BY DEF BooksInv, WatchInv, ClerksInv
<1>2. clerk[k].at = "cache" /\ mixed' = mixed /\ saved' = saved /\ Onward(k, "save")
      /\ cached' = [cached EXCEPT ![Item(k).of] = Item(k).value]
  BY DEF Refresh
<1>3. PICK c : /\ clerk' = [clerk EXCEPT ![k] = c] /\ GoodClerk(c) /\ c.at \in {"none", "save"}
               /\ \A x : Concerns(c, x) => Concerns(clerk[k], x)
  BY <1>1, <1>2, OnwardGood
<1>4. ClerksInv' /\ SoleClerk' /\ clerk'[k] = c /\ \A l \in Clerks : l # k => clerk'[l] = clerk[l]
  BY <1>1, <1>2, <1>3, OneClerk
<1>5. PICK it : it = Item(k)
  OBVIOUS
<1>6. \A l \in Clerks : \A x : Caches(l, x)' <=> l # k /\ Caches(l, x)
  BY <1>3, <1>4 DEF Caches, Item
<1>7. \A l \in Clerks : l # k => Item(l)' = Item(l)
  BY <1>4 DEF Item
<1>8. ASSUME NEW x \in Keys, x \notin mixed
      PROVE  /\ \A l \in Clerks : Caches(l, x)' => saved'[x] = Item(l)'.value
             /\ (\A l \in Clerks : ~Caches(l, x)') => cached'[x] = saved'[x]
  <2>1. CASE x = it.of
    <3>1. cached'[x] = it.value /\ Caches(k, x)
      BY <1>2, <1>5, <2>1 DEF BooksInv, WatchInv, WatchTypes, Caches
    <3>2. saved[x] = it.value
      BY <1>1, <1>5, <1>8, <3>1 DEF SettingsInv
    <3> QED BY <1>1, <1>2, <1>6, <1>7, <1>8, <3>1, <3>2 DEF SettingsInv
  <2>2. CASE x # it.of
    <3>1. cached'[x] = cached[x]
      BY <1>2, <1>5, <2>2 DEF BooksInv, WatchInv, WatchTypes
    <3>2. ~Caches(k, x)
      BY <1>5, <2>2 DEF Caches
    <3> QED BY <1>1, <1>2, <1>6, <1>7, <1>8, <3>1, <3>2 DEF SettingsInv
  <2> QED BY <2>1, <2>2
<1> QED BY <1>2, <1>4, <1>8 DEF SettingsInv

(***************************************************************************)
(* Alerts                                                                  *)
(***************************************************************************)
\* The notes of one user on one alert are numbered from nought, each number once.
Counted(N, u, x, c) ==
  /\ c \in Nat
  /\ \A n \in N : n.of = x /\ n.user = u => n.no \in 0 .. (c - 1)
  /\ \A i \in 0 .. (c - 1) : \E n \in N : n.of = x /\ n.user = u /\ n.no = i
  /\ \A m, n \in N : m.of = x /\ m.user = u /\ n.of = x /\ n.user = u /\ m.no = n.no => m = n

LEMMA CountedIsCardinality ==
  ASSUME NEW N, NEW u, NEW x, NEW c, Counted(N, u, x, c)
  PROVE  Cardinality({n \in N : n.of = x /\ n.user = u}) = c
<1> DEFINE S == {n \in N : n.of = x /\ n.user = u}
           T == 0 .. (c - 1)
           f == [n \in S |-> n.no]
<1>1. c \in Nat
  BY DEF Counted
<1>2. IsFiniteSet(T) /\ Cardinality(T) = c
  <2>1. 0 \in Int /\ c - 1 \in Int
    BY <1>1
  <2>2. IsFiniteSet(T) /\ Cardinality(T) = IF 0 > c - 1 THEN 0 ELSE c - 1 - 0 + 1
    BY <2>1, FS_Interval
  <2> QED BY <1>1, <2>2
<1>3. f \in [S -> T]
  BY DEF Counted
<1>4. \A a, b \in S : f[a] = f[b] => a = b
  BY DEF Counted
<1>5. \A t \in T : \E n \in S : f[n] = t
  BY DEF Counted
<1> HIDE DEF f, S, T
<1>6. f \in Injection(S, T)
  BY <1>3, <1>4 DEF Injection, IsInjective
<1>7. f \in Surjection(S, T)
  BY <1>3, <1>5 DEF Surjection
<1>8. Cardinality(S) = Cardinality(T)
  BY <1>2, <1>6, <1>7, FS_Injection
<1> QED BY <1>2, <1>8 DEF S

\* The stages of a request that matter to an alert, and who is at them.
Telling(k, x) == clerk[k].at \in {"push", "admins", "grants", "insert"} /\ Item(k).of = x
Pushing(k, x) == clerk[k].at = "push" /\ Item(k).of = x
Tellers(x) == {k \in Clerks : Telling(k, x)}
Pushers(x) == {k \in Clerks : Pushing(k, x)}

\* The books on one alert, with the notes still owed and the messages still to be pushed.
Account(x, owed, due) ==
  /\ born[x] \in Nat /\ missed[x] \in Nat /\ pushed[x] \in Nat /\ sending[x] \in Nat
  /\ born[x] - missed[x] - owed \in Nat
  /\ \A u \in Lasting : Counted(notes, u, x, born[x] - missed[x] - owed)
  /\ pushed[x] + sending[x] + due <= born[x]

\* Everyone who tells of an alert owes one note to each, and one message before that.
ToldOf(x) == Account(x, Cardinality(Tellers(x)), Cardinality(Pushers(x)))

ToldInv == \A x \in Prints : ToldOf(x)

\* One or none.
One(b) == IF b THEN 1 ELSE 0

\* What one member more or less does to a subset of the requests.
LEMMA OneMember ==
  ASSUME NEW S, NEW T, S \subseteq Clerks, T \subseteq Clerks, NEW k \in Clerks,
         \A l \in Clerks : l # k => (l \in S <=> l \in T)
  PROVE  \E n \in Nat : /\ Cardinality(S) = n + One(k \in S)
                        /\ Cardinality(T) = n + One(k \in T)
<1>1. S \ {k} = T \ {k} /\ IsFiniteSet(S) /\ IsFiniteSet(T) /\ IsFiniteSet(S \ {k})
  BY WatchAssumption, FS_Subset
<1>2. PICK n \in Nat : n = Cardinality(S \ {k})
  BY <1>1, FS_CardinalityType
<1>3. ASSUME NEW R, IsFiniteSet(R)
      PROVE  Cardinality(R) = Cardinality(R \ {k}) + One(k \in R)
  <2>1. CASE k \in R
    <3>1. Cardinality(R) \in Nat /\ Cardinality(R \ {k}) = Cardinality(R) - 1
      BY <1>3, <2>1, FS_RemoveElement, FS_CardinalityType
    <3>2. PICK c \in Nat : c = Cardinality(R)
      BY <3>1
    <3> QED BY <2>1, <3>1, <3>2 DEF One
  <2>2. CASE k \notin R
    <3>1. R \ {k} = R
      BY <2>2
    <3> QED BY <1>3, <2>2, <3>1, FS_CardinalityType DEF One
  <2> QED BY <2>1, <2>2
<1> QED BY <1>1, <1>2, <1>3

\* So only the stage of the request that moves decides what is owed.
LEMMA OneMoves ==
  ASSUME NEW k \in Clerks, \A l \in Clerks : l # k => clerk'[l] = clerk[l], NEW x
  PROVE  \E n, m \in Nat :
           /\ Cardinality(Tellers(x)) = n + One(Telling(k, x)) /\ Cardinality(Tellers(x)') = n + One(Telling(k, x)')
           /\ Cardinality(Pushers(x)) = m + One(Pushing(k, x)) /\ Cardinality(Pushers(x)') = m + One(Pushing(k, x)')
<1>1. \A l \in Clerks : l # k => (Telling(l, x)' <=> Telling(l, x)) /\ (Pushing(l, x)' <=> Pushing(l, x))
  BY DEF Telling, Pushing, Item
<1>2. /\ k \in Tellers(x) <=> Telling(k, x)
      /\ k \in Tellers(x)' <=> Telling(k, x)'
      /\ k \in Pushers(x) <=> Pushing(k, x)
      /\ k \in Pushers(x)' <=> Pushing(k, x)'
  BY DEF Tellers, Pushers
<1>3. PICK n \in Nat : Cardinality(Tellers(x)) = n + One(k \in Tellers(x)) /\ Cardinality(Tellers(x)') = n + One(k \in Tellers(x)')
  <2>1. Tellers(x) \subseteq Clerks /\ Tellers(x)' \subseteq Clerks
    BY DEF Tellers
  <2>2. \A l \in Clerks : l # k => (l \in Tellers(x) <=> l \in Tellers(x)')
    BY <1>1 DEF Tellers
  <2> QED BY <2>1, <2>2, OneMember
<1>4. PICK m \in Nat : Cardinality(Pushers(x)) = m + One(k \in Pushers(x)) /\ Cardinality(Pushers(x)') = m + One(k \in Pushers(x)')
  <2>1. Pushers(x) \subseteq Clerks /\ Pushers(x)' \subseteq Clerks
    BY DEF Pushers
  <2>2. \A l \in Clerks : l # k => (l \in Pushers(x) <=> l \in Pushers(x)')
    BY <1>1 DEF Pushers
  <2> QED BY <2>1, <2>2, OneMember
<1> QED BY <1>2, <1>3, <1>4 DEF One

\* Without any of them nothing is owed.
LEMMA Nobody ==
  ASSUME NEW x, \A k \in Clerks : ~Telling(k, x) /\ ~Pushing(k, x)
  PROVE  Cardinality(Tellers(x)) = 0 /\ Cardinality(Pushers(x)) = 0
<1>1. Tellers(x) = {} /\ Pushers(x) = {}
  BY DEF Tellers, Pushers
<1> QED BY <1>1, FS_EmptySet

\* Books whose entries stay, and whose user have as many notes as before.
LEMMA SameAccount ==
  ASSUME NEW x, NEW o, NEW d, Account(x, o, d),
         born'[x] = born[x], missed'[x] = missed[x], pushed'[x] = pushed[x], sending'[x] = sending[x],
         \A u \in Lasting : \A c : Counted(notes, u, x, c) => Counted(notes', u, x, c)
  PROVE  Account(x, o, d)'
<1>1. PICK c : c = born[x] - missed[x] - o
  OBVIOUS
<1>2. c = born'[x] - missed'[x] - o /\ \A u \in Lasting : Counted(notes', u, x, c)
  BY <1>1 DEF Account
<1> QED BY <1>1, <1>2 DEF Account, Counted

\* Requests that neither begin nor cease to tell of an alert, whose books stay, owe what they owed.
LEMMA SameTold ==
  ASSUME NEW x, ToldOf(x),
         \A k \in Clerks : (Telling(k, x)' <=> Telling(k, x)) /\ (Pushing(k, x)' <=> Pushing(k, x)),
         born'[x] = born[x], missed'[x] = missed[x], pushed'[x] = pushed[x], sending'[x] = sending[x],
         \A u \in Lasting : \A c : Counted(notes, u, x, c) => Counted(notes', u, x, c)
  PROVE  ToldOf(x)'
<1>1. Tellers(x)' = Tellers(x) /\ Pushers(x)' = Pushers(x)
  BY DEF Tellers, Pushers
<1>2. PICK o, d : o = Cardinality(Tellers(x)) /\ d = Cardinality(Pushers(x))
  OBVIOUS
<1>3. o = Cardinality(Tellers(x)') /\ d = Cardinality(Pushers(x)')
  BY <1>1, <1>2
<1>4. Account(x, o, d)
  BY <1>2 DEF ToldOf
<1>5. Account(x, o, d)'
  BY <1>4, SameAccount
<1> QED BY <1>3, <1>5 DEF ToldOf

\* What keeps every alert but the one the request is at work on.
LEMMA OtherAlerts ==
  ASSUME ClerksInv, ToldInv, NEW k \in Clerks, clerk[k].at # "none",
         NEW c, clerk' = [clerk EXCEPT ![k] = c],
         c.at \in {"none", "read"} \/ Head(c.items).of = Item(k).of,
         \A x \in Prints : x # Item(k).of =>
            /\ born'[x] = born[x] /\ missed'[x] = missed[x]
            /\ pushed'[x] = pushed[x] /\ sending'[x] = sending[x]
            /\ \A u \in Lasting : \A n : Counted(notes, u, x, n) => Counted(notes', u, x, n)
  PROVE  \A x \in Prints : x # Item(k).of => ToldOf(x)'
<1> SUFFICES ASSUME NEW x \in Prints, x # Item(k).of
             PROVE  ToldOf(x)'
  OBVIOUS
<1>1. clerk'[k] = c /\ \A l \in Clerks : l # k => clerk'[l] = clerk[l]
  BY DEF ClerksInv
<1>2. ToldOf(x)
  BY DEF ToldInv
<1>3. ~Telling(k, x) /\ ~Pushing(k, x) /\ ~Telling(k, x)' /\ ~Pushing(k, x)'
  BY <1>1 DEF Telling, Pushing, Item
<1>4. \A l \in Clerks : (Telling(l, x)' <=> Telling(l, x)) /\ (Pushing(l, x)' <=> Pushing(l, x))
  BY <1>1, <1>3 DEF Telling, Pushing, Item
<1> QED BY <1>2, <1>4, SameTold

\* A request that says nothing to anybody.
LEMMA QuietClerk ==
  ASSUME ToldInv, UNCHANGED <<notes, pushed, sending, born, missed>>,
         \A k \in Clerks : clerk'[k] = clerk[k] \/
            (clerk[k].at \in {"none", "save", "cache", "read", "write"} /\ clerk'[k].at \in {"none", "save", "cache", "read", "write"})
  PROVE  ToldInv'
<1>1. ASSUME NEW x \in Prints
      PROVE  ToldOf(x)'
  <2>1. ToldOf(x)
    BY DEF ToldInv
  <2>2. \A l \in Clerks : (Telling(l, x)' <=> Telling(l, x)) /\ (Pushing(l, x)' <=> Pushing(l, x))
    BY DEF Telling, Pushing, Item
  <2> QED BY <2>1, <2>2, SameTold
<1> QED BY <1>1 DEF ToldInv

LEMMA ReadAlertSound ==
  ASSUME BooksInv, ToldInv, NEW k \in Clerks, ReadAlert(k)
  PROVE  ClerksInv' /\ SoleClerk' /\ ToldInv' /\ clerk'[k].at # "cache"
         /\ \A l \in Clerks : l # k => clerk'[l] = clerk[l]
<1>1. ClerksInv /\ SoleClerk /\ GoodClerk(clerk[k]) /\ clerk[k].at = "read" /\ mixed' = mixed /\ UNCHANGED alertRows
  BY DEF BooksInv, ClerksInv, ReadAlert
<1>2. PICK c : /\ clerk' = [clerk EXCEPT ![k] = c] /\ GoodClerk(c)
               /\ c.at \in {"none", "read", "write"}
               /\ \A x : Concerns(c, x) => Concerns(clerk[k], x)
  <2>1. CASE Onward(k, "read")
    BY <1>1, <2>1, OnwardGood
  <2>2. CASE clerk' = [clerk EXCEPT ![k].at = "write", ![k].old = alerts[Item(k).of]]
    <3>1. PICK c : c = [clerk[k] EXCEPT !.at = "write", !.old = alerts[Item(k).of]]
      OBVIOUS
    <3>2. DOMAIN c = ClerkFields /\ c.at = "write" /\ c.items = clerk[k].items
      BY <1>1, <3>1 DEF GoodClerk, ClerkFields
    <3>3. GoodClerk(c) /\ \A x : Concerns(c, x) => Concerns(clerk[k], x)
      BY <1>1, <3>2 DEF GoodClerk, Concerns
    <3>4. clerk' = [clerk EXCEPT ![k] = c]
      BY <2>2, <3>1
    <3> QED BY <3>2, <3>3, <3>4
  <2> QED BY <2>1, <2>2 DEF ReadAlert
<1>3. ClerksInv' /\ SoleClerk' /\ clerk'[k] = c /\ \A l \in Clerks : l # k => clerk'[l] = clerk[l]
  BY <1>1, <1>2, OneClerk
<1>4. ToldInv'
  BY <1>1, <1>2, <1>3, QuietClerk DEF alertRows
<1> QED BY <1>1, <1>2, <1>3, <1>4

\* A row that was created firing is told of by the one who created it, and no other row is.
LEMMA WriteAlertSound ==
  ASSUME BooksInv, ToldInv, NEW k \in Clerks, WriteAlert(k)
  PROVE  ClerksInv' /\ SoleClerk' /\ ToldInv' /\ clerk'[k].at # "cache"
         /\ \A l \in Clerks : l # k => clerk'[l] = clerk[l]
<1>1. /\ ClerksInv /\ SoleClerk /\ WatchTypes /\ GoodClerk(clerk[k]) /\ clerk[k].at = "write"
      /\ mixed' = mixed /\ UNCHANGED <<notes, pushed, sending, missed>>
  BY DEF BooksInv, ClerksInv, WriteAlert
<1>2. PICK it : it = Item(k)
  OBVIOUS
<1>3. PICK of, status : of = it.of /\ status = it.status
  OBVIOUS
<1>4. PICK existing : existing = {[status |-> status, aged |-> r.aged] : r \in clerk[k].old}
  OBVIOUS
<1>5. PICK new : new = IF existing = {} THEN {[status |-> status, aged |-> FALSE]}
                       ELSE {[r EXCEPT !.status = status] : r \in alerts[of]}
  OBVIOUS
<1>6. \/ /\ born' = IF existing = {} /\ Firing(new) THEN [born EXCEPT ![of] = born[of] + 1] ELSE born
         /\ IF TurnsFiring(existing, status) THEN StepTo(k, "push") ELSE Onward(k, "read")
      \/ Onward(k, "read") /\ born' = born
  BY <1>2, <1>3, <1>4, <1>5 DEF WriteAlert
<1>7. TurnsFiring(existing, status) <=> existing = {} /\ Firing(new)
  <2>2. CASE existing = {}
    BY <1>5, <2>2 DEF TurnsFiring, Firing
  <2>3. CASE existing # {}
    <3>1. \E r \in existing : r.status = status
      BY <1>4, <2>3
    <3> QED BY <2>3, <3>1 DEF TurnsFiring, Firing
  <2> QED BY <2>2, <2>3
<1>8. CASE StepTo(k, "push") /\ born' = [born EXCEPT ![of] = born[of] + 1]
  <2>1. PICK c : c = [clerk[k] EXCEPT !.at = "push"]
    OBVIOUS
  <2>2. DOMAIN c = ClerkFields /\ c.at = "push" /\ c.items = clerk[k].items /\ c.old = clerk[k].old
    BY <1>1, <2>1 DEF GoodClerk, ClerkFields
  <2>3. GoodClerk(c) /\ \A x : Concerns(c, x) => Concerns(clerk[k], x)
    BY <1>1, <2>2 DEF GoodClerk, Concerns
  <2>4. clerk' = [clerk EXCEPT ![k] = c]
    BY <1>8, <2>1 DEF StepTo
  <2>5. ClerksInv' /\ SoleClerk' /\ clerk'[k] = c /\ \A l \in Clerks : l # k => clerk'[l] = clerk[l]
    BY <1>1, <2>3, <2>4, OneClerk
  <2>6. \A x \in Prints : x # of => born'[x] = born[x]
    BY <1>1, <1>8 DEF WatchTypes
  <2>7. \A x \in Prints : x # Item(k).of => ToldOf(x)'
    BY <1>1, <1>2, <1>3, <2>2, <2>4, <2>6, OtherAlerts DEF Item
  <2>8. ASSUME of \in Prints
        PROVE  ToldOf(of)'
    <3>1. ~Telling(k, of) /\ ~Pushing(k, of) /\ Telling(k, of)' /\ Pushing(k, of)'
      BY <1>1, <1>2, <1>3, <2>2, <2>5 DEF Telling, Pushing, Item
    <3>2. PICK n, m \in Nat :
            /\ Cardinality(Tellers(of)) = n + One(Telling(k, of)) /\ Cardinality(Tellers(of)') = n + One(Telling(k, of)')
            /\ Cardinality(Pushers(of)) = m + One(Pushing(k, of)) /\ Cardinality(Pushers(of)') = m + One(Pushing(k, of)')
      BY <2>5, OneMoves
    <3>3. /\ Cardinality(Tellers(of)) = n /\ Cardinality(Tellers(of)') = n + 1
          /\ Cardinality(Pushers(of)) = m /\ Cardinality(Pushers(of)') = m + 1
      BY <3>1, <3>2 DEF One
    <3>4. Account(of, n, m)
      BY <2>8, <3>3 DEF ToldInv, ToldOf
    <3>5. PICK r, a, p, t : r = born[of] /\ a = missed[of] /\ p = pushed[of] /\ t = sending[of]
      OBVIOUS
    <3>6. born'[of] = r + 1 /\ missed'[of] = a /\ pushed'[of] = p /\ sending'[of] = t
      BY <1>1, <1>8, <2>8, <3>5 DEF WatchTypes
    <3>7. /\ r \in Nat /\ a \in Nat /\ p \in Nat /\ t \in Nat
          /\ r - a - n \in Nat /\ p + t + m <= r
          /\ \A u \in Lasting : Counted(notes, u, of, r - a - n)
      BY <3>4, <3>5 DEF Account
    <3>8. (r + 1) - a - (n + 1) = r - a - n /\ p + t + (m + 1) <= r + 1 /\ r + 1 \in Nat
      BY <3>2, <3>7
    <3>9. \A u \in Lasting : Counted(notes', u, of, (r + 1) - a - (n + 1))
      BY <1>1, <3>7, <3>8
    <3>10. Account(of, n + 1, m + 1)'
      BY <3>2, <3>6, <3>7, <3>8, <3>9 DEF Account, Counted
    <3> QED BY <3>3, <3>10 DEF ToldOf
  <2> QED BY <1>1, <1>2, <1>3, <2>2, <2>5, <2>7, <2>8 DEF ToldInv
<1>9. CASE Onward(k, "read") /\ born' = born
  <2>1. PICK c : /\ clerk' = [clerk EXCEPT ![k] = c] /\ GoodClerk(c) /\ c.at \in {"none", "read"}
                 /\ \A x : Concerns(c, x) => Concerns(clerk[k], x)
    BY <1>1, <1>9, OnwardGood
  <2>2. ClerksInv' /\ SoleClerk' /\ clerk'[k] = c /\ \A l \in Clerks : l # k => clerk'[l] = clerk[l]
    BY <1>1, <2>1, OneClerk
  <2>3. ToldInv'
    BY <1>1, <1>9, <2>1, <2>2, QuietClerk
  <2> QED BY <2>1, <2>2, <2>3
<1> QED BY <1>6, <1>7, <1>8, <1>9

\* A request that tells goes on, or is done and owes nothing more.
LEMMA TellingSound ==
  ASSUME ClerksInv, SoleClerk, ToldInv, NEW k \in Clerks, mixed' = mixed,
         clerk[k].at \in {"push", "admins", "grants", "insert"},
         NEW c, clerk' = [clerk EXCEPT ![k] = c], GoodClerk(c),
         \A x : Concerns(c, x) => Concerns(clerk[k], x),
         \/ c.at \in {"none", "read"}
         \/ c.at \in {"admins", "grants", "insert"} /\ c.items = clerk[k].items,
         \A x \in Prints : x # Item(k).of =>
            /\ born'[x] = born[x] /\ missed'[x] = missed[x]
            /\ pushed'[x] = pushed[x] /\ sending'[x] = sending[x]
            /\ \A u \in Lasting : \A n : Counted(notes, u, x, n) => Counted(notes', u, x, n),
         \A n, m \in Nat : Item(k).of \in Prints /\ Account(Item(k).of, n + 1, m + One(clerk[k].at = "push"))
            => \E of : of = Item(k).of /\ Account(of, n + One(c.at \notin {"none", "read"}), m)'
  PROVE  ClerksInv' /\ SoleClerk' /\ ToldInv' /\ clerk'[k].at # "cache"
         /\ \A l \in Clerks : l # k => clerk'[l] = clerk[l]
<1>1. ClerksInv' /\ SoleClerk' /\ clerk'[k] = c /\ \A l \in Clerks : l # k => clerk'[l] = clerk[l]
  BY OneClerk
<1>2. \A x \in Prints : x # Item(k).of => ToldOf(x)'
  <2>1. c.at \in {"none", "read"} \/ Head(c.items).of = Item(k).of
    BY DEF Item
  <2> QED BY <2>1, OtherAlerts
<1>3. ASSUME NEW x \in Prints, x = Item(k).of
      PROVE  ToldOf(x)'
  <2>1. Telling(k, x) /\ (Pushing(k, x) <=> clerk[k].at = "push")
    BY <1>3 DEF Telling, Pushing
  <2>2. ~Pushing(k, x)' /\ (Telling(k, x)' <=> c.at \notin {"none", "read"})
    BY <1>1, <1>3 DEF Pushing, Telling, Item
  <2>3. PICK n, m \in Nat :
           /\ Cardinality(Tellers(x)) = n + One(Telling(k, x)) /\ Cardinality(Tellers(x)') = n + One(Telling(k, x)')
           /\ Cardinality(Pushers(x)) = m + One(Pushing(k, x)) /\ Cardinality(Pushers(x)') = m + One(Pushing(k, x)')
    BY <1>1, OneMoves
  <2>4. /\ Cardinality(Tellers(x)) = n + 1 /\ Cardinality(Tellers(x)') = n + One(c.at \notin {"none", "read"})
        /\ Cardinality(Pushers(x)) = m + One(clerk[k].at = "push") /\ Cardinality(Pushers(x)') = m
    BY <2>1, <2>2, <2>3 DEF One
  <2>5. Account(x, n + 1, m + One(clerk[k].at = "push"))
    BY <2>4 DEF ToldInv, ToldOf
  <2>6. Account(x, n + One(c.at \notin {"none", "read"}), m)'
    BY <1>3, <2>3, <2>5
  <2> QED BY <2>4, <2>6 DEF ToldOf
<1> QED BY <1>1, <1>2, <1>3 DEF ToldInv

LEMMA MoveGood ==
  ASSUME NEW q, GoodClerk(q), q.at # "none", NEW p, p \in {"admins", "grants", "insert"}, NEW c,
         c = [q EXCEPT !.at = p], p = "insert" => Lasting \subseteq q.to, p # "grants"
  PROVE  GoodClerk(c) /\ c.at = p /\ c.items = q.items /\ \A x : Concerns(c, x) => Concerns(q, x)
<1>1. DOMAIN c = ClerkFields /\ c.at = p /\ c.items = q.items
  BY DEF GoodClerk, ClerkFields
<1>2. p = "insert" => Lasting \subseteq c.to
  BY DEF GoodClerk, ClerkFields
<1> QED BY <1>1, <1>2 DEF GoodClerk, Concerns

LEMMA TellGood ==
  ASSUME NEW q, GoodClerk(q), q.at # "none", NEW c,
         DOMAIN c = ClerkFields, c.items = q.items, Lasting \subseteq c.to
  PROVE  GoodClerk(c) /\ \A x : Concerns(c, x) => Concerns(q, x)
BY DEF GoodClerk, Concerns

LEMMA PushSound ==
  ASSUME BooksInv, ToldInv, NEW k \in Clerks, Push(k)
  PROVE  ClerksInv' /\ SoleClerk' /\ ToldInv' /\ clerk'[k].at # "cache"
         /\ \A l \in Clerks : l # k => clerk'[l] = clerk[l]
<1>1. /\ ClerksInv /\ SoleClerk /\ WatchTypes /\ GoodClerk(clerk[k]) /\ clerk[k].at = "push"
      /\ mixed' = mixed /\ UNCHANGED <<alerts, notes, pushed, born, missed>>
      /\ StepTo(k, "admins")
  BY DEF BooksInv, ClerksInv, Push
<1>2. PICK of : of = Item(k).of
  OBVIOUS
<1>3. sending' = sending \/ sending' = [sending EXCEPT ![of] = sending[of] + 1]
  BY <1>2 DEF Push
<1>4. PICK c : c = [clerk[k] EXCEPT !.at = "admins"]
  OBVIOUS
<1>5. GoodClerk(c) /\ c.at = "admins" /\ c.items = clerk[k].items /\ \A x : Concerns(c, x) => Concerns(clerk[k], x)
  BY <1>1, <1>4, MoveGood
<1>6. clerk' = [clerk EXCEPT ![k] = c]
  BY <1>1, <1>4 DEF StepTo
<1>7. \A x \in Prints : x # of =>
            /\ born'[x] = born[x] /\ missed'[x] = missed[x]
            /\ pushed'[x] = pushed[x] /\ sending'[x] = sending[x]
            /\ \A u \in Lasting : \A n : Counted(notes, u, x, n) => Counted(notes', u, x, n)
  BY <1>1, <1>3 DEF WatchTypes
<1>8. ASSUME NEW o \in Nat, NEW d \in Nat, of \in Prints, Account(of, o + 1, d + 1)
      PROVE  Account(of, o + 1, d)'
  <2>1. PICK r, m, p, t : r = born[of] /\ m = missed[of] /\ p = pushed[of] /\ t = sending[of]
    OBVIOUS
  <2>2. born'[of] = r /\ missed'[of] = m /\ pushed'[of] = p /\ sending'[of] \in {t, t + 1}
    BY <1>1, <1>3, <1>8, <2>1 DEF WatchTypes
  <2>3. /\ r \in Nat /\ m \in Nat /\ p \in Nat /\ t \in Nat /\ r - m - (o + 1) \in Nat /\ p + t + (d + 1) <= r
        /\ \A u \in Lasting : Counted(notes, u, of, r - m - (o + 1))
    BY <1>8, <2>1 DEF Account
  <2>4. sending'[of] \in Nat /\ p + sending'[of] + d <= r
    BY <2>2, <2>3
  <2>5. \A u \in Lasting : Counted(notes', u, of, r - m - (o + 1))
    BY <1>1, <2>3
  <2> QED BY <2>2, <2>3, <2>4, <2>5 DEF Account, Counted
<1>9. \A o, d \in Nat : of \in Prints /\ Account(of, o + 1, d + One(clerk[k].at = "push"))
            => Account(of, o + One(c.at \notin {"none", "read"}), d)'
  BY <1>1, <1>5, <1>8 DEF One
<1> QED BY <1>1, <1>2, <1>5, <1>6, <1>7, <1>9, TellingSound

LEMMA HowMany ==
  ASSUME NEW x
  PROVE  Cardinality(Tellers(x)) \in Nat /\ Cardinality(Pushers(x)) \in Nat
<1>1. Tellers(x) \subseteq Clerks /\ Pushers(x) \subseteq Clerks
  BY DEF Tellers, Pushers
<1> QED BY <1>1, WatchAssumption, FS_Subset, FS_CardinalityType

\* A message that is sent, or lost.
LEMMA SendSound ==
  ASSUME WatchTypes, ToldInv, NEW x \in Prints, Send(x)
  PROVE  ToldInv'
<1>1. /\ UNCHANGED <<alerts, notes, born, missed, clerk, mixed>>
      /\ sending[x] > 0 /\ sending' = [sending EXCEPT ![x] = sending[x] - 1]
      /\ pushed' = pushed \/ pushed' = [pushed EXCEPT ![x] = pushed[x] + 1]
  BY DEF Send
<1>2. ASSUME NEW y \in Prints, NEW o \in Nat, NEW d \in Nat, Account(y, o, d)
      PROVE  Account(y, o, d)'
  <2>1. PICK r, m, p, t : r = born[y] /\ m = missed[y] /\ p = pushed[y] /\ t = sending[y]
    OBVIOUS
  <2>3. /\ r \in Nat /\ m \in Nat /\ p \in Nat /\ t \in Nat /\ r - m - o \in Nat /\ p + t + d <= r
        /\ \A u \in Lasting : Counted(notes, u, y, r - m - o)
    BY <1>2, <2>1 DEF Account
  <2>2. /\ born'[y] = r /\ missed'[y] = m
        /\ pushed'[y] \in {p, p + 1} /\ sending'[y] \in {t, t - 1}
        /\ sending'[y] = t => pushed'[y] = p
        /\ sending'[y] # t => t > 0
    <3>0. DOMAIN pushed = Prints /\ DOMAIN sending = Prints  BY DEF WatchTypes
    <3>1. CASE y = x
      <4>1. sending'[y] = t - 1 /\ t > 0  BY <1>1, <2>1, <3>0, <3>1
      <4>2. pushed'[y] = p \/ pushed'[y] = p + 1  BY <1>1, <2>1, <3>0, <3>1
      <4>3. born'[y] = r /\ missed'[y] = m  BY <1>1, <2>1
      <4> QED  BY <2>3, <4>1, <4>2, <4>3
    <3>2. CASE y # x
      BY <1>1, <2>1, <2>3, <3>2 DEF WatchTypes
    <3> QED BY <3>1, <3>2
  <2>4. pushed'[y] \in Nat /\ sending'[y] \in Nat /\ pushed'[y] + sending'[y] + d <= r
    BY <2>2, <2>3, <1>2
  <2>5. \A u \in Lasting : Counted(notes', u, y, r - m - o)
    BY <1>1, <2>3
  <2> QED BY <2>2, <2>3, <2>4, <2>5 DEF Account, Counted
<1>3. ASSUME NEW y \in Prints
      PROVE  ToldOf(y)'
  <2>1. Tellers(y)' = Tellers(y) /\ Pushers(y)' = Pushers(y)
    BY <1>1 DEF Tellers, Pushers, Telling, Pushing, Item
  <2>2. PICK o, d \in Nat : o = Cardinality(Tellers(y)) /\ d = Cardinality(Pushers(y))
    BY HowMany
  <2>3. o = Cardinality(Tellers(y)') /\ d = Cardinality(Pushers(y)')
    BY <2>1, <2>2
  <2>4. Account(y, o, d)
    BY <2>2 DEF ToldInv, ToldOf
  <2>5. Account(y, o, d)'
    BY <1>2, <2>4
  <2> QED BY <2>3, <2>5 DEF ToldOf
<1> QED BY <1>1, <1>3 DEF ToldInv

\* A note that is owed no longer since telling failed.
LEMMA MissedOne ==
  ASSUME WatchTypes, NEW of, missed' = [missed EXCEPT ![of] = missed[of] + 1],
         UNCHANGED <<notes, born, pushed, sending>>
  PROVE  /\ \A o, d \in Nat : of \in Prints /\ Account(of, o + 1, d) => Account(of, o, d)'
         /\ \A x \in Prints : x # of => missed'[x] = missed[x]
<1>1. \A x \in Prints : x # of => missed'[x] = missed[x]
  BY DEF WatchTypes
<1>2. ASSUME NEW o \in Nat, NEW d \in Nat, of \in Prints, Account(of, o + 1, d)
      PROVE  Account(of, o, d)'
  <2>1. PICK r, m, p, t : r = born[of] /\ m = missed[of] /\ p = pushed[of] /\ t = sending[of]
    OBVIOUS
  <2>2. born'[of] = r /\ missed'[of] = m + 1 /\ pushed'[of] = p /\ sending'[of] = t
    BY <1>2, <2>1 DEF WatchTypes
  <2>3. /\ r \in Nat /\ m \in Nat /\ p \in Nat /\ t \in Nat /\ r - m - (o + 1) \in Nat /\ p + t + d <= r
        /\ \A u \in Lasting : Counted(notes, u, of, r - m - (o + 1))
    BY <1>2, <2>1 DEF Account
  <2>4. r - (m + 1) - o = r - m - (o + 1) /\ m + 1 \in Nat
    BY <2>3
  <2>5. \A u \in Lasting : Counted(notes', u, of, r - (m + 1) - o)
    BY <2>3, <2>4
  <2> QED BY <2>2, <2>3, <2>4, <2>5 DEF Account, Counted
<1> QED BY <1>1, <1>2

LEMMA ReadAdminsSound ==
  ASSUME BooksInv, ToldInv, NEW k \in Clerks, ReadAdmins(k)
  PROVE  ClerksInv' /\ SoleClerk' /\ ToldInv' /\ clerk'[k].at # "cache"
         /\ \A l \in Clerks : l # k => clerk'[l] = clerk[l]
<1>1. /\ ClerksInv /\ SoleClerk /\ WatchTypes /\ GoodClerk(clerk[k]) /\ clerk[k].at = "admins"
      /\ mixed' = mixed /\ UNCHANGED <<alerts, notes, pushed, sending, born>>
  BY DEF BooksInv, ClerksInv, ReadAdmins
<1>2. PICK of : of = Item(k).of
  OBVIOUS
<1>3. CASE clerk' = [clerk EXCEPT ![k].at = "grants", ![k].to = admins] /\ missed' = missed
  <2>1. PICK c : c = [clerk[k] EXCEPT !.at = "grants", !.to = admins]
    OBVIOUS
  <2>2. GoodClerk(c) /\ c.at = "grants" /\ c.items = clerk[k].items /\ \A x : Concerns(c, x) => Concerns(clerk[k], x)
    <3>1. DOMAIN c = ClerkFields /\ c.at = "grants" /\ c.items = clerk[k].items /\ c.to = admins
      BY <1>1, <2>1 DEF GoodClerk, ClerkFields
    <3> QED BY <1>1, <3>1, TellGood DEF WatchTypes
  <2>3. clerk' = [clerk EXCEPT ![k] = c]
    BY <1>3, <2>1
  <2>4. \A o, d \in Nat : Account(of, o + 1, d) => Account(of, o + 1, d)'
    BY <1>1, <1>3, SameAccount
  <2>5. \A o, d \in Nat : of \in Prints /\ Account(of, o + 1, d + One(clerk[k].at = "push"))
            => Account(of, o + One(c.at \notin {"none", "read"}), d)'
    BY <1>1, <2>2, <2>4 DEF One
  <2> QED BY <1>1, <1>2, <1>3, <2>2, <2>3, <2>5, TellingSound
<1>4. CASE Onward(k, "read") /\ missed' = [missed EXCEPT ![of] = missed[of] + 1]
  <2>1. PICK c : /\ clerk' = [clerk EXCEPT ![k] = c] /\ GoodClerk(c) /\ c.at \in {"none", "read"}
                 /\ \A x : Concerns(c, x) => Concerns(clerk[k], x)
    BY <1>1, <1>4, OnwardGood
  <2>2. \A o, d \in Nat : of \in Prints /\ Account(of, o + 1, d) => Account(of, o, d)'
    BY <1>1, <1>4, MissedOne
  <2>3. \A x \in Prints : x # of => missed'[x] = missed[x]
    BY <1>1, <1>4, MissedOne
  <2>4. \A o, d \in Nat : of \in Prints /\ Account(of, o + 1, d + One(clerk[k].at = "push"))
            => Account(of, o + One(c.at \notin {"none", "read"}), d)'
    BY <1>1, <2>1, <2>2 DEF One
  <2> QED BY <1>1, <1>2, <1>4, <2>1, <2>3, <2>4, TellingSound
<1> QED BY <1>2, <1>3, <1>4 DEF ReadAdmins

LEMMA ReadGrantsSound ==
  ASSUME BooksInv, ToldInv, NEW k \in Clerks, ReadGrants(k)
  PROVE  ClerksInv' /\ SoleClerk' /\ ToldInv' /\ clerk'[k].at # "cache"
         /\ \A l \in Clerks : l # k => clerk'[l] = clerk[l]
<1>1. /\ ClerksInv /\ SoleClerk /\ GoodClerk(clerk[k]) /\ clerk[k].at = "grants"
      /\ mixed' = mixed /\ UNCHANGED alertRows
  BY DEF BooksInv, ClerksInv, ReadGrants
<1>2. PICK of : of = Item(k).of
  OBVIOUS
<1>3. Lasting \subseteq clerk[k].to
  BY <1>1 DEF GoodClerk
<1>4. PICK c : /\ clerk' = [clerk EXCEPT ![k] = c] /\ GoodClerk(c) /\ c.at = "insert" /\ c.items = clerk[k].items
               /\ \A x : Concerns(c, x) => Concerns(clerk[k], x)
  <2>1. CASE StepTo(k, "insert")
    <3>1. PICK c : c = [clerk[k] EXCEPT !.at = "insert"]
      OBVIOUS
    <3>2. GoodClerk(c) /\ c.at = "insert" /\ c.items = clerk[k].items /\ \A x : Concerns(c, x) => Concerns(clerk[k], x)
      BY <1>1, <1>3, <3>1, MoveGood
    <3> QED BY <2>1, <3>1, <3>2 DEF StepTo
  <2>2. CASE ~StepTo(k, "insert")
    <3>1. PICK t : t = clerk[k].to \union (IF Item(k).vm THEN {u \in People : holders[u] = "valid"} ELSE {})
      OBVIOUS
    <3>2. PICK c : c = [clerk[k] EXCEPT !.at = "insert", !.to = t]
      OBVIOUS
    <3>3. clerk' = [clerk EXCEPT ![k] = c]
      BY <2>2, <3>1, <3>2 DEF ReadGrants
    <3>4. GoodClerk(c) /\ c.at = "insert" /\ c.items = clerk[k].items /\ \A x : Concerns(c, x) => Concerns(clerk[k], x)
      <4>1. DOMAIN c = ClerkFields /\ c.at = "insert" /\ c.items = clerk[k].items /\ c.to = t
        BY <1>1, <3>2 DEF GoodClerk, ClerkFields
      <4> QED BY <1>1, <1>3, <3>1, <4>1, TellGood
    <3> QED BY <3>3, <3>4
  <2> QED BY <2>1, <2>2
<1>5. UNCHANGED <<notes, pushed, sending, born, missed>>
  BY <1>1 DEF alertRows
<1>6. \A o, d \in Nat : Account(of, o + 1, d) => Account(of, o + 1, d)'
  BY <1>5, SameAccount
<1>7. \A o, d \in Nat : of \in Prints /\ Account(of, o + 1, d + One(clerk[k].at = "push"))
            => Account(of, o + One(c.at \notin {"none", "read"}), d)'
  BY <1>1, <1>4, <1>6 DEF One
<1> QED BY <1>1, <1>2, <1>4, <1>5, <1>7, TellingSound

\* The notes that Insert leaves.
NotesFor(of, to) == {[user |-> u, of |-> of, no |-> Cardinality({n \in notes : n.user = u /\ n.of = of}),
                      read |-> FALSE] : u \in to}

\* One note more for every user who is told, with a number of its own.
LEMMA NotesInserted ==
  ASSUME NEW of, NEW to, NEW u, NEW x, NEW c, Counted(notes, u, x, c), u \in to,
         notes' = notes \union NotesFor(of, to)
  PROVE  Counted(notes', u, x, IF x = of THEN c + 1 ELSE c)
<1> DEFINE Note(v) == [user |-> v, of |-> of, no |-> Cardinality({n \in notes : n.user = v /\ n.of = of}), read |-> FALSE]
<1>1. \A n \in notes' : n \in notes \/ \E v \in to : n = Note(v)
  BY DEF NotesFor
<1>2. \A v \in to : Note(v) \in notes'
  BY DEF NotesFor
<1>3. \A v \in to : Note(v).of = of /\ Note(v).user = v
  OBVIOUS
<1>4. notes \subseteq notes'
  OBVIOUS
<1>5. CASE x # of
  <2> HIDE DEF Note
  <2>1. \A n \in notes' : n.of = x => n \in notes
    BY <1>1, <1>3, <1>5
  <2> QED BY <1>4, <1>5, <2>1 DEF Counted
<1>6. CASE x = of
  <2>1. Cardinality({n \in notes : n.of = of /\ n.user = u}) = c
    BY <1>6, CountedIsCardinality
  <2>2. {n \in notes : n.user = u /\ n.of = of} = {n \in notes : n.of = of /\ n.user = u}
    OBVIOUS
  <2>3. Note(u).no = c
    BY <2>1, <2>2
  <2> HIDE DEF Note
  <2>4. \A n \in notes' : n.of = of /\ n.user = u => n \in notes \/ n = Note(u)
    <3> SUFFICES ASSUME NEW n \in notes', n.of = of, n.user = u, n \notin notes
                 PROVE  n = Note(u)
      OBVIOUS
    <3>1. PICK v \in to : n = Note(v)
      BY <1>1
    <3>2. v = u
      BY <1>3, <3>1
    <3> QED BY <3>1, <3>2
  <2>5. c \in Nat /\ 0 .. ((c + 1) - 1) = (0 .. (c - 1)) \union {c} /\ c \notin 0 .. (c - 1)
    BY DEF Counted
  <2>6. \A n \in notes' : n.of = of /\ n.user = u => n.no \in 0 .. ((c + 1) - 1)
    BY <1>6, <2>3, <2>4, <2>5 DEF Counted
  <2>7. \A i \in 0 .. ((c + 1) - 1) : \E n \in notes' : n.of = of /\ n.user = u /\ n.no = i
    BY <1>2, <1>3, <1>4, <1>6, <2>3, <2>5 DEF Counted
  <2>8. \A m, n \in notes' : m.of = of /\ m.user = u /\ n.of = of /\ n.user = u /\ m.no = n.no => m = n
    BY <1>6, <2>3, <2>4, <2>5 DEF Counted
  <2>9. c + 1 \in Nat
    BY <2>5
  <2> QED BY <1>6, <2>6, <2>7, <2>8, <2>9 DEF Counted
<1> QED BY <1>5, <1>6

LEMMA InsertSound ==
  ASSUME BooksInv, ToldInv, NEW k \in Clerks, Insert(k)
  PROVE  ClerksInv' /\ SoleClerk' /\ ToldInv' /\ clerk'[k].at # "cache"
         /\ \A l \in Clerks : l # k => clerk'[l] = clerk[l]
<1>1. /\ ClerksInv /\ SoleClerk /\ WatchTypes /\ GoodClerk(clerk[k]) /\ clerk[k].at = "insert"
      /\ mixed' = mixed /\ UNCHANGED <<alerts, pushed, sending, born>> /\ Onward(k, "read")
  BY DEF BooksInv, ClerksInv, Insert
<1>2. PICK of, to : of = Item(k).of /\ to = clerk[k].to
  OBVIOUS
<1>3. Lasting \subseteq to
  BY <1>1, <1>2 DEF GoodClerk
<1>4. PICK c : /\ clerk' = [clerk EXCEPT ![k] = c] /\ GoodClerk(c) /\ c.at \in {"none", "read"}
               /\ \A x : Concerns(c, x) => Concerns(clerk[k], x)
  BY <1>1, OnwardGood
<1>5. CASE missed' = [missed EXCEPT ![of] = missed[of] + 1] /\ notes' = notes
  <2>1. \A o, d \in Nat : of \in Prints /\ Account(of, o + 1, d) => Account(of, o, d)'
    BY <1>1, <1>5, MissedOne
  <2>2. \A x \in Prints : x # of => missed'[x] = missed[x]
    BY <1>1, <1>5, MissedOne
  <2>3. \A o, d \in Nat : of \in Prints /\ Account(of, o + 1, d + One(clerk[k].at = "push"))
            => Account(of, o + One(c.at \notin {"none", "read"}), d)'
    BY <1>1, <1>4, <2>1 DEF One
  <2> QED BY <1>1, <1>2, <1>4, <1>5, <2>2, <2>3, TellingSound
<1>6. CASE notes' = notes \union NotesFor(of, to) /\ missed' = missed
  <2>1. \A u \in Lasting : \A x, n : Counted(notes, u, x, n) => Counted(notes', u, x, IF x = of THEN n + 1 ELSE n)
    <3> SUFFICES ASSUME NEW u \in Lasting, NEW x, NEW n, Counted(notes, u, x, n)
                 PROVE  Counted(notes', u, x, IF x = of THEN n + 1 ELSE n)
      OBVIOUS
    <3>1. u \in to
      BY <1>3
    <3> QED BY <1>6, <3>1, NotesInserted
  <2>2. ASSUME NEW o \in Nat, NEW d \in Nat, of \in Prints, Account(of, o + 1, d)
        PROVE  Account(of, o, d)'
    <3>1. PICK r, m, p, t : r = born[of] /\ m = missed[of] /\ p = pushed[of] /\ t = sending[of]
      OBVIOUS
    <3>2. born'[of] = r /\ missed'[of] = m /\ pushed'[of] = p /\ sending'[of] = t
      BY <1>1, <1>6, <3>1
    <3>3. /\ r \in Nat /\ m \in Nat /\ p \in Nat /\ t \in Nat /\ r - m - (o + 1) \in Nat /\ p + t + d <= r
          /\ \A u \in Lasting : Counted(notes, u, of, r - m - (o + 1))
      BY <2>2, <3>1 DEF Account
    <3>4. (r - m - (o + 1)) + 1 = r - m - o /\ r - m - o \in Nat
      BY <3>3
    <3>5. \A u \in Lasting : Counted(notes', u, of, (r - m - (o + 1)) + 1)
      BY <2>1, <3>3
    <3>6. \A u \in Lasting : Counted(notes', u, of, r - m - o)
      BY <3>4, <3>5
    <3> QED BY <3>2, <3>3, <3>4, <3>6 DEF Account, Counted
  <2>3. \A x \in Prints : x # of => \A u \in Lasting : \A n : Counted(notes, u, x, n) => Counted(notes', u, x, n)
    BY <2>1
  <2>4. \A o, d \in Nat : of \in Prints /\ Account(of, o + 1, d + One(clerk[k].at = "push"))
            => Account(of, o + One(c.at \notin {"none", "read"}), d)'
    BY <1>1, <1>4, <2>2 DEF One
  <2> QED BY <1>1, <1>2, <1>4, <1>6, <2>3, <2>4, TellingSound
<1> QED BY <1>2, <1>5, <1>6 DEF Insert, NotesFor

\* Notes that are marked as read stay as many.
LEMMA MarksKeep ==
  ASSUME WatchTypes, MarkRead \/ MarkAllRead, NEW u, NEW x, NEW c, Counted(notes, u, x, c)
  PROVE  Counted(notes', u, x, c)
<1>1. ASSUME NEW n \in notes
      PROVE  LET m == [n EXCEPT !.read = TRUE]
             IN  m.user = n.user /\ m.of = n.of /\ m.no = n.no
  BY DEF WatchTypes
<1>2. CASE MarkRead
  <2>1. PICK n \in notes : notes' = (notes \ {n}) \union {[n EXCEPT !.read = TRUE]}
    BY <1>2 DEF MarkRead
  <2>2. PICK m : m = [n EXCEPT !.read = TRUE]
    OBVIOUS
  <2>3. m.user = n.user /\ m.of = n.of /\ m.no = n.no /\ notes' = (notes \ {n}) \union {m}
    BY <1>1, <2>1, <2>2
  <2> QED BY <2>3 DEF Counted
<1>3. CASE MarkAllRead
  <2>1. PICK by : notes' = {IF n.user = by THEN [n EXCEPT !.read = TRUE] ELSE n : n \in notes}
    BY <1>3 DEF MarkAllRead
  <2> DEFINE Marked(n) == IF n.user = by THEN [n EXCEPT !.read = TRUE] ELSE n
  <2>2. \A n \in notes : Marked(n).user = n.user /\ Marked(n).of = n.of /\ Marked(n).no = n.no
    BY <1>1
  <2>3. /\ \A m \in notes' : \E n \in notes : m = Marked(n)
        /\ \A n \in notes : Marked(n) \in notes'
    BY <2>1
  <2> HIDE DEF Marked
  <2>4. \A m \in notes' : m.of = x /\ m.user = u => m.no \in 0 .. (c - 1)
    BY <2>2, <2>3 DEF Counted
  <2>5. \A i \in 0 .. (c - 1) : \E m \in notes' : m.of = x /\ m.user = u /\ m.no = i
    BY <2>2, <2>3 DEF Counted
  <2>6. \A m, o \in notes' : m.of = x /\ m.user = u /\ o.of = x /\ o.user = u /\ m.no = o.no => m = o
    <3> SUFFICES ASSUME NEW m \in notes', NEW o \in notes', m.of = x, m.user = u, o.of = x, o.user = u, m.no = o.no
                 PROVE  m = o
      OBVIOUS
    <3>1. PICK m1 \in notes : m = Marked(m1)
      BY <2>3
    <3>2. PICK o1 \in notes : o = Marked(o1)
      BY <2>3
    <3>3. m1 = o1
      BY <2>2, <3>1, <3>2 DEF Counted
    <3> QED BY <3>1, <3>2, <3>3
  <2> QED BY <2>4, <2>5, <2>6 DEF Counted
<1> QED BY <1>2, <1>3

\* Requests at work stay.
LEMMA SameClerks ==
  ASSUME ToldInv, UNCHANGED <<clerk, pushed, sending, born, missed>>,
         \A u \in Lasting : \A x, c : Counted(notes, u, x, c) => Counted(notes', u, x, c)
  PROVE  ToldInv'
<1>1. ASSUME NEW x \in Prints
      PROVE  ToldOf(x)'
  <2>1. ToldOf(x)
    BY DEF ToldInv
  <2>2. \A l \in Clerks : (Telling(l, x)' <=> Telling(l, x)) /\ (Pushing(l, x)' <=> Pushing(l, x))
    BY DEF Telling, Pushing, Item
  <2> QED BY <2>1, <2>2, SameTold
<1> QED BY <1>1 DEF ToldInv

LEMMA MarksSound ==
  ASSUME WatchTypes, ToldInv, MarkRead \/ MarkAllRead
  PROVE  ToldInv'
<1>1. UNCHANGED <<clerk, pushed, sending, born, missed>>
  BY DEF MarkRead, MarkAllRead
<1>2. \A u \in Lasting : \A x, c : Counted(notes, u, x, c) => Counted(notes', u, x, c)
  BY MarksKeep
<1> QED BY <1>1, <1>2, SameClerks

LEMMA AgesSound ==
  ASSUME WatchTypes, ToldInv, Ages
  PROVE  ToldInv' /\ \A x \in Prints : \A r \in alerts'[x] : DOMAIN r = {"status", "aged"}
<1>1. UNCHANGED <<notes, clerk, mixed, pushed, sending, born, missed>>
  BY DEF Ages
<1>2. PICK x \in Prints : alerts' = [alerts EXCEPT ![x] = {[r EXCEPT !.aged = TRUE] : r \in alerts[x]}]
  BY DEF Ages
<1> DEFINE old(r) == [r EXCEPT !.aged = TRUE]
<1>3. \A r \in alerts[x] : DOMAIN old(r) = {"status", "aged"}
  BY DEF WatchTypes
<1>4. /\ \A r \in alerts'[x] : \E q \in alerts[x] : r = old(q)
      /\ \A y \in Prints : y # x => alerts'[y] = alerts[y]
  BY <1>2 DEF WatchTypes
<1> HIDE DEF old
<1>5. ToldInv'
  BY <1>1, SameClerks
<1> QED BY <1>3, <1>4, <1>5 DEF WatchTypes

\* Retention removes a row, and nobody is told of that.
LEMMA RetainSound ==
  ASSUME BooksInv, ToldInv, Retain
  PROVE  ToldInv' /\ mixed \subseteq mixed' /\ \A x \in Prints : alerts'[x] \subseteq alerts[x]
<1>1. PICK x \in Prints :
        /\ alerts' = [alerts EXCEPT ![x] = {}]
        /\ mixed \subseteq mixed'
        /\ UNCHANGED <<notes, pushed, sending, born, missed, clerk>>
  BY DEF Retain
<1>2. \A y \in Prints : alerts'[y] = IF y = x THEN {} ELSE alerts[y]
  BY <1>1 DEF BooksInv, WatchTypes
<1>3. ToldInv'
  BY <1>1, SameClerks
<1> QED BY <1>1, <1>2, <1>3

(***************************************************************************)
(* Restarts, and all of them                                               *)
(***************************************************************************)
\* A restart tells nobody any more of what was being told, and counts it.
LEMMA RestartSound ==
  ASSUME WatchInv, ToldInv, WatchRestarts
  PROVE  ClerksInv' /\ SoleClerk' /\ SettingsInv' /\ ToldInv' /\ DOMAIN cached' = Keys
<1>1. ClerksInv /\ SoleClerk /\ WatchTypes
  BY DEF WatchInv, BooksInv
<1>2. /\ \/ cached' = saved /\ mixed' = mixed
         \/ cached' = [x \in Keys |-> "none"] /\ mixed' = mixed \union Keys
      /\ missed' = [x \in Prints |-> missed[x] + Cardinality({k \in Clerks : clerk[k].at \in {"push", "admins", "grants", "insert"} /\ Item(k).of = x})]
      /\ clerk' = [k \in Clerks |-> NoWork] /\ sending' = [x \in Prints |-> 0]
      /\ UNCHANGED <<saved, alerts, notes, pushed, born>>
  BY DEF WatchRestarts
<1>3. \A k \in Clerks : clerk'[k] = NoWork
  BY <1>2
<1>4. ClerksInv'
  BY <1>2, <1>3, NoWorkGood DEF ClerksInv
<1>5. SoleClerk'
  BY <1>3, NoWorkGood DEF SoleClerk, Concerns
<1>6. mixed \subseteq mixed' /\ DOMAIN cached' = Keys
  BY <1>1, <1>2 DEF WatchTypes
<1>7. \A k \in Clerks : \A x : ~Caches(k, x)' /\ ~Telling(k, x)' /\ ~Pushing(k, x)'
  BY <1>3, NoWorkGood DEF Caches, Telling, Pushing
<1>8. SettingsInv'
  <2>1. \A x \in Keys : x \notin mixed' => cached'[x] = saved'[x]
    BY <1>2
  <2> QED BY <1>7, <2>1 DEF SettingsInv
<1>9. ASSUME NEW x \in Prints
      PROVE  ToldOf(x)'
  <2>1. {k \in Clerks : clerk[k].at \in {"push", "admins", "grants", "insert"} /\ Item(k).of = x} = Tellers(x)
    BY DEF Tellers, Telling
  <2>2. PICK o, d \in Nat : o = Cardinality(Tellers(x)) /\ d = Cardinality(Pushers(x))
    BY HowMany
  <2>3. Account(x, o, d)
    BY <2>2 DEF ToldInv, ToldOf
  <2>4. PICK r, m, p, t : r = born[x] /\ m = missed[x] /\ p = pushed[x] /\ t = sending[x]
    OBVIOUS
  <2>5. born'[x] = r /\ missed'[x] = m + o /\ pushed'[x] = p /\ sending'[x] = 0 /\ notes' = notes
    BY <1>2, <2>1, <2>2, <2>4
  <2>6. /\ r \in Nat /\ m \in Nat /\ p \in Nat /\ t \in Nat /\ r - m - o \in Nat /\ p + t + d <= r
        /\ \A u \in Lasting : Counted(notes, u, x, r - m - o)
    BY <2>3, <2>4 DEF Account
  <2>7. r - (m + o) - 0 = r - m - o /\ m + o \in Nat /\ p + 0 + 0 <= r
    BY <2>2, <2>6
  <2>8. \A u \in Lasting : Counted(notes', u, x, r - (m + o) - 0)
    BY <2>5, <2>6, <2>7
  <2>9. Account(x, 0, 0)'
    BY <2>5, <2>6, <2>7, <2>8 DEF Account, Counted
  <2>10. Cardinality(Tellers(x)') = 0 /\ Cardinality(Pushers(x)') = 0
    <3>1. Tellers(x)' = {} /\ Pushers(x)' = {}
      BY <1>7 DEF Tellers, Pushers
    <3> QED BY <3>1, FS_EmptySet
  <2> QED BY <2>9, <2>10 DEF ToldOf
<1>10. ToldInv'
  BY <1>9 DEF ToldInv
<1> QED BY <1>4, <1>5, <1>6, <1>8, <1>10

\* The inductive invariant holds in the beginning, is kept by every step, and so holds always.
LEMMA WatchInitially == WatchInit => WatchInv /\ ToldInv
<1> SUFFICES ASSUME WatchInit PROVE WatchInv /\ ToldInv
  OBVIOUS
<1>1. PICK mix \in WatchMixes :
        /\ saved = mix.saved /\ cached = saved /\ alerts = mix.alerts /\ notes = {} /\ admins = mix.admins
        /\ pushed = [x \in Prints |-> 0] /\ sending = pushed /\ born = pushed /\ missed = pushed
        /\ clerk = [k \in Clerks |-> NoWork] /\ mail = mix.mail
  BY DEF WatchInit
<1>2. WatchTypes
  BY <1>1, MailAssumption DEF WatchTypes
<1>3. \A k \in Clerks : clerk[k] = NoWork
  BY <1>1
<1>4. ClerksInv /\ SoleClerk
  BY <1>1, <1>3, NoWorkGood DEF ClerksInv, SoleClerk
<1>5. \A k \in Clerks : \A x : ~Caches(k, x) /\ ~Telling(k, x) /\ ~Pushing(k, x)
  BY <1>3, NoWorkGood DEF Caches, Telling, Pushing
<1>6. SettingsInv
  BY <1>1, <1>5 DEF SettingsInv
<1>7. \A x \in Prints : Account(x, 0, 0)
  <2> SUFFICES ASSUME NEW x \in Prints PROVE Account(x, 0, 0)
    OBVIOUS
  <2>1. born[x] = 0 /\ missed[x] = 0 /\ pushed[x] = 0 /\ sending[x] = 0
    BY <1>1
  <2>2. \A u \in Lasting : Counted(notes, u, x, 0)
    BY <1>1 DEF Counted
  <2> QED BY <2>1, <2>2 DEF Account
<1>8. ToldInv
  BY <1>5, <1>7, Nobody DEF ToldInv, ToldOf
<1> QED BY <1>2, <1>4, <1>6, <1>8 DEF WatchInv, BooksInv

LEMMA WatchTypesStep == WatchInv /\ ToldInv /\ WatchNext => WatchTypes'
<1> SUFFICES ASSUME WatchInv, ToldInv, WatchNext PROVE WatchTypes'
  OBVIOUS
<1>1. WatchTypes /\ BooksInv
  BY DEF WatchInv, BooksInv
<1> DEFINE Rows == /\ DOMAIN saved = Keys /\ DOMAIN cached = Keys /\ DOMAIN alerts = Prints
                   /\ \A x \in Prints : \A r \in alerts[x] : DOMAIN r = {"status", "aged"}
           Counts == DOMAIN pushed = Prints /\ DOMAIN sending = Prints /\ DOMAIN born = Prints /\ DOMAIN missed = Prints
           Shape == \A n \in notes : DOMAIN n = {"user", "of", "no", "read"}
           Post == /\ Lasting \subseteq admins
                   /\ \A q \in mail : /\ q.op \in {"settings", "deliver"} => q.items \in Seq(AllItems) /\ q.items # <<>>
                                      /\ q.op = "staff" => Lasting \subseteq q.admins
<1>2. Rows /\ Counts /\ Shape /\ Post
  BY <1>1 DEF WatchTypes
<1>3. SUFFICES Rows' /\ Counts' /\ Shape' /\ Post'
  BY DEF WatchTypes
<1>4. Post'
  <2>1. mail' \subseteq mail
    BY DEF WatchNext, UpdateSettings, Deliver, Arrives, MarkRead, MarkAllRead, Ages, Retain, Staff, WatchRestarts,
           SaveRow, Refresh, ReadAlert, WriteAlert, Push, ReadAdmins, ReadGrants, Insert, Send
  <2>2. admins' = admins \/ Staff
    BY DEF WatchNext, UpdateSettings, Deliver, Arrives, MarkRead, MarkAllRead, Ages, Retain, WatchRestarts,
           SaveRow, Refresh, ReadAlert, WriteAlert, Push, ReadAdmins, ReadGrants, Insert, Send, directory
  <2>3. Staff => \E q \in mail : q.op = "staff" /\ admins' = q.admins
    BY DEF Staff
  <2> QED BY <1>2, <2>1, <2>2, <2>3
<1>5. Shape'
  <2>1. notes' = notes \/ MarkRead \/ MarkAllRead \/ \E k \in Clerks : Insert(k)
    BY DEF WatchNext, UpdateSettings, Deliver, Ages, Retain, Staff, WatchRestarts, alertRows,
           SaveRow, Refresh, ReadAlert, WriteAlert, Push, ReadAdmins, ReadGrants, Send
  <2>2. \A n \in notes : DOMAIN [n EXCEPT !.read = TRUE] = {"user", "of", "no", "read"}
    BY <1>2
  <2>3. CASE MarkRead
    <3>1. \E n \in notes : notes' = (notes \ {n}) \union {[n EXCEPT !.read = TRUE]}
      BY <2>3 DEF MarkRead
    <3> QED BY <1>2, <2>2, <3>1
  <2>4. CASE MarkAllRead
    <3>1. PICK q \in mail : notes' = {IF n.user = q.by THEN [n EXCEPT !.read = TRUE] ELSE n : n \in notes}
      BY <2>4 DEF MarkAllRead
    <3> QED BY <1>2, <2>2, <3>1
  <2>5. ASSUME NEW k \in Clerks, Insert(k)
        PROVE  Shape'
    <3>1. PICK of, to : of = Item(k).of /\ to = clerk[k].to
      OBVIOUS
    <3>2. notes' = notes \/ notes' = notes \union NotesFor(of, to)
      BY <2>5, <3>1 DEF Insert, NotesFor
    <3>3. \A n \in NotesFor(of, to) : DOMAIN n = {"user", "of", "no", "read"}
      <4> SUFFICES ASSUME NEW n \in NotesFor(of, to) PROVE DOMAIN n = {"user", "of", "no", "read"}
        OBVIOUS
      <4>1. \E u, c : n = [user |-> u, of |-> of, no |-> c, read |-> FALSE]
        BY DEF NotesFor
      <4> QED BY <4>1
    <3> QED BY <1>2, <3>2, <3>3
  <2> QED BY <1>2, <2>1, <2>3, <2>4, <2>5
<1>6. Rows'
  <2>1. \/ UNCHANGED <<saved, cached, alerts>>
        \/ Ages \/ Retain \/ WatchRestarts \/ \E k \in Clerks : SaveRow(k) \/ Refresh(k) \/ WriteAlert(k)
    BY DEF WatchNext, UpdateSettings, Deliver, MarkRead, MarkAllRead, Staff, alertRows, settingsRows,
           ReadAlert, Push, ReadAdmins, ReadGrants, Insert, Send
  <2>2. CASE Ages
    <3>1. UNCHANGED <<saved, cached>> /\ DOMAIN alerts' = Prints
      BY <1>2, <2>2 DEF Ages, settingsRows
    <3> QED BY <1>1, <1>2, <2>2, <3>1, AgesSound
  <2>3. CASE Retain
    <3>1. UNCHANGED <<saved, cached>> /\ DOMAIN alerts' = Prints
      BY <1>2, <2>3 DEF Retain, settingsRows
    <3> QED BY <1>1, <1>2, <2>3, <3>1, RetainSound
  <2>4. CASE WatchRestarts
    <3>1. UNCHANGED <<saved, alerts>>
      BY <2>4 DEF WatchRestarts
    <3> QED BY <1>2, <2>4, <3>1, RestartSound
  <2>5. ASSUME NEW k \in Clerks, SaveRow(k) \/ Refresh(k)
        PROVE  Rows'
    <3>1. alerts' = alerts
      BY <2>5 DEF SaveRow, Refresh, alertRows
    <3>2. \E x, v : (saved' = saved \/ saved' = [saved EXCEPT ![x] = v]) /\ (cached' = cached \/ cached' = [cached EXCEPT ![x] = v])
      BY <2>5 DEF SaveRow, Refresh
    <3> QED BY <1>2, <3>1, <3>2
  <2>6. ASSUME NEW k \in Clerks, WriteAlert(k)
        PROVE  Rows'
    <3>1. UNCHANGED <<saved, cached>>
      BY <2>6 DEF WriteAlert, settingsRows
    <3>2. PICK of, s : of = Item(k).of /\ s = Item(k).status
      OBVIOUS
    <3>3. \/ alerts' = alerts
          \/ alerts' = [alerts EXCEPT ![of] = {[status |-> s, aged |-> FALSE]}]
          \/ alerts' = [alerts EXCEPT ![of] = {[r EXCEPT !.status = s] : r \in alerts[of]}]
      BY <2>6, <3>2 DEF WriteAlert
    <3>4. ASSUME of \in Prints
          PROVE  \A r \in {[r EXCEPT !.status = s] : r \in alerts[of]} : DOMAIN r = {"status", "aged"}
      BY <1>2, <3>4
    <3>5. DOMAIN [status |-> s, aged |-> FALSE] = {"status", "aged"}
      OBVIOUS
    <3> QED BY <1>2, <3>1, <3>3, <3>4, <3>5
  <2> QED BY <1>2, <2>1, <2>2, <2>3, <2>4, <2>5, <2>6
<1>7. Counts'
  <2>1. CASE WatchRestarts
    BY <1>2, <2>1 DEF WatchRestarts
  <2>2. CASE ~WatchRestarts
    <3>1. /\ pushed' = pushed \/ \E x, v : pushed' = [pushed EXCEPT ![x] = v]
          /\ sending' = sending \/ \E x, v : sending' = [sending EXCEPT ![x] = v]
          /\ born' = born \/ \E x, v : born' = [born EXCEPT ![x] = v]
          /\ missed' = missed \/ \E x, v : missed' = [missed EXCEPT ![x] = v]
      BY <2>2 DEF WatchNext, UpdateSettings, Deliver, MarkRead, MarkAllRead, Ages, Retain, Staff, alertRows,
             SaveRow, Refresh, ReadAlert, WriteAlert, Push, ReadAdmins, ReadGrants, Insert, Send
    <3> QED BY <1>2, <3>1
  <2> QED BY <2>1, <2>2
<1> QED BY <1>4, <1>5, <1>6, <1>7

WholeInv == WatchInv /\ ToldInv

LEMMA WatchStep == WholeInv /\ [WatchNext]_watchVars => WholeInv'
<1> SUFFICES ASSUME WholeInv, [WatchNext]_watchVars PROVE WholeInv'
  OBVIOUS
<1>1. WatchInv /\ ToldInv /\ BooksInv /\ WatchTypes /\ ClerksInv /\ SoleClerk /\ SettingsInv
  BY DEF WholeInv, WatchInv, BooksInv
<1>2. CASE UNCHANGED watchVars
  <2>1. UNCHANGED <<saved, cached, alerts, notes, admins, pushed, sending, clerk, mail, born, missed, mixed>>
    BY <1>2 DEF watchVars
  <2>2. WatchTypes' /\ ClerksInv' /\ SoleClerk'
    BY <1>1, <2>1 DEF WatchTypes, ClerksInv, SoleClerk
  <2>3. SettingsInv'
    BY <1>1, <2>1, SettingsRest DEF ClerksInv
  <2>4. ToldInv'
    BY <1>1, <2>1, QuietClerk DEF alertRows
  <2> QED BY <2>2, <2>3, <2>4 DEF WholeInv, WatchInv, BooksInv
<1>3. CASE WatchNext
  <2>1. WatchTypes'
    BY <1>1, <1>3, WatchTypesStep
  <2>2. SUFFICES ClerksInv' /\ SoleClerk' /\ SettingsInv' /\ ToldInv'
    BY <2>1 DEF WholeInv, WatchInv, BooksInv
  <2>3. CASE UpdateSettings \/ Deliver
    <3>1. UNCHANGED <<settingsRows, alertRows>>
      BY <2>3 DEF UpdateSettings, Deliver
    <3>2. /\ ClerksInv' /\ SoleClerk' /\ mixed \subseteq mixed'
          /\ \A k \in Clerks : clerk'[k] = clerk[k] \/ (clerk[k].at = "none" /\ clerk'[k].at \in {"save", "read"})
      <4>1. CASE UpdateSettings
        BY <1>1, <4>1, ArrivesSound DEF UpdateSettings
      <4>2. CASE Deliver
        BY <1>1, <4>2, ArrivesSound DEF Deliver
      <4> QED BY <2>3, <4>1, <4>2
    <3>3. ToldInv'
      BY <1>1, <3>1, <3>2, QuietClerk DEF alertRows
    <3>4. SettingsInv'
      <4>1. \A k \in Clerks : \A x : Caches(k, x)' <=> Caches(k, x)
        BY <3>2 DEF Caches, Item
      <4>2. \A k \in Clerks : \A x : Caches(k, x) => Item(k)' = Item(k)
        BY <3>2 DEF Caches, Item
      <4> QED BY <1>1, <3>1, <3>2, <4>1, <4>2 DEF SettingsInv, settingsRows
    <3> QED BY <3>2, <3>3, <3>4
  <2>4. ASSUME NEW k \in Clerks, SaveRow(k)
        PROVE  ClerksInv' /\ SoleClerk' /\ SettingsInv' /\ ToldInv'
    <3>1. ClerksInv' /\ SoleClerk' /\ SettingsInv'
      BY <1>1, <2>4, SaveRowSound
    <3>2. mixed' = mixed /\ UNCHANGED alertRows /\ clerk[k].at = "save"
      BY <2>4 DEF SaveRow
    <3>3. clerk'[k].at \in {"cache", "none"} /\ \A l \in Clerks : l # k => clerk'[l] = clerk[l]
      <4>1. clerk' = [clerk EXCEPT ![k] = NoWork] \/ StepTo(k, "cache")
        BY <2>4 DEF SaveRow
      <4> QED BY <1>1, <4>1, NoWorkGood DEF StepTo, ClerksInv, GoodClerk, ClerkFields
    <3> QED BY <1>1, <3>1, <3>2, <3>3, QuietClerk DEF alertRows
  <2>5. ASSUME NEW k \in Clerks, Refresh(k)
        PROVE  ClerksInv' /\ SoleClerk' /\ SettingsInv' /\ ToldInv'
    <3>1. ClerksInv' /\ SoleClerk' /\ SettingsInv'
      BY <1>1, <2>5, RefreshSound
    <3>2. mixed' = mixed /\ UNCHANGED alertRows /\ clerk[k].at = "cache" /\ Onward(k, "save")
      BY <2>5 DEF Refresh
    <3>3. PICK c : clerk' = [clerk EXCEPT ![k] = c] /\ c.at \in {"none", "save"}
      BY <1>1, <3>2, OnwardGood
    <3>4. clerk'[k].at \in {"save", "none"} /\ \A l \in Clerks : l # k => clerk'[l] = clerk[l]
      BY <1>1, <3>3 DEF ClerksInv
    <3> QED BY <1>1, <3>1, <3>2, <3>4, QuietClerk DEF alertRows
  <2>6. ASSUME NEW k \in Clerks,
               ReadAlert(k) \/ WriteAlert(k) \/ Push(k) \/ ReadAdmins(k) \/ ReadGrants(k) \/ Insert(k)
        PROVE  ClerksInv' /\ SoleClerk' /\ SettingsInv' /\ ToldInv'
    <3>1. ClerksInv' /\ SoleClerk' /\ ToldInv' /\ clerk'[k].at # "cache" /\ \A l \in Clerks : l # k => clerk'[l] = clerk[l]
      BY <1>1, <2>6, ReadAlertSound, WriteAlertSound, PushSound, ReadAdminsSound, ReadGrantsSound, InsertSound
    <3>2. UNCHANGED <<saved, cached, mixed>> /\ clerk[k].at # "cache"
      BY <2>6 DEF ReadAlert, WriteAlert, Push, ReadAdmins, ReadGrants, Insert, settingsRows
    <3>3. SettingsInv'
      BY <1>1, <3>1, <3>2, SettingsRest DEF ClerksInv
    <3> QED BY <3>1, <3>3
  <2>7. ASSUME UNCHANGED <<saved, cached, clerk>>, mixed \subseteq mixed'
        PROVE  ClerksInv' /\ SoleClerk' /\ SettingsInv'
    <3>1. ClerksInv' /\ SoleClerk'
      BY <1>1, <2>7 DEF ClerksInv, SoleClerk
    <3>2. SettingsInv'
      BY <1>1, <2>7 DEF SettingsInv, Caches, Item
    <3> QED BY <3>1, <3>2
  <2>8. ASSUME NEW x \in Prints, Send(x)
        PROVE  ClerksInv' /\ SoleClerk' /\ SettingsInv' /\ ToldInv'
    <3>1. UNCHANGED <<saved, cached, clerk, mixed>>
      BY <2>8 DEF Send, settingsRows
    <3> QED BY <1>1, <2>7, <2>8, <3>1, SendSound
  <2>9. CASE MarkRead \/ MarkAllRead
    <3>1. UNCHANGED <<saved, cached, clerk, mixed>>
      BY <2>9 DEF MarkRead, MarkAllRead, settingsRows
    <3> QED BY <1>1, <2>7, <2>9, <3>1, MarksSound
  <2>10. CASE Ages
    <3>1. UNCHANGED <<saved, cached, clerk, mixed>>
      BY <2>10 DEF Ages, settingsRows
    <3> QED BY <1>1, <2>7, <2>10, <3>1, AgesSound
  <2>11. CASE Retain
    <3>1. UNCHANGED <<saved, cached, clerk>>
      BY <2>11 DEF Retain, settingsRows
    <3> QED BY <1>1, <2>7, <2>11, <3>1, RetainSound
  <2>12. CASE Staff
    <3>1. UNCHANGED <<saved, cached, clerk, mixed, alertRows>>
      BY <2>12 DEF Staff, settingsRows
    <3> QED BY <1>1, <2>7, <3>1, QuietClerk DEF alertRows
  <2>13. CASE WatchRestarts
    BY <1>1, <2>13, RestartSound
  <2> QED BY <1>3, <2>3, <2>4, <2>5, <2>6, <2>8, <2>9, <2>10, <2>11, <2>12, <2>13 DEF WatchNext
<1> QED BY <1>2, <1>3

LEMMA WholeInvHolds == WatchSpec => []WholeInv
<1>1. WatchInit => WholeInv
  BY WatchInitially DEF WholeInv
<1> QED BY <1>1, WatchStep, PTL DEF WatchSpec

\* What is in force is what is saved (setting.go, Set; settings.go, UpdateSettings).
THEOREM ForceIsSaved == WatchSpec => []InForceIsSaved
<1>1. WholeInv => InForceIsSaved
  BY DEF WholeInv, WatchInv, SettingsInv, InForceIsSaved, Caches
<1> QED BY <1>1, WholeInvHolds, PTL

\* Who stays an administrator has one note for each time a row of an alert was created
\* firing, less those whose telling failed (alert_webhook.go, upsert, fanOutNotifications).
THEOREM FirstIsTold == WatchSpec => []ToldOfEachFirst
<1>1. WholeInv => ToldOfEachFirst
  <2> SUFFICES ASSUME WholeInv, NEW x \in Prints, NEW u \in Lasting, \A k \in Clerks : ~Touches(k, x)
               PROVE  /\ Cardinality({n \in notes : n.of = x /\ n.user = u}) = born[x] - missed[x]
                      /\ pushed[x] + sending[x] <= born[x]
    BY DEF ToldOfEachFirst
  <2>1. \A k \in Clerks : ~Telling(k, x) /\ ~Pushing(k, x)
    <3>1. \A k \in Clerks : ~Concerns(clerk[k], x)
      BY DEF Touches, Concerns
    <3> QED BY <3>1, ItemIsFirst DEF WholeInv, WatchInv, BooksInv, ClerksInv, Item, Telling, Pushing
  <2>2. Account(x, 0, 0)
    BY <2>1, Nobody DEF WholeInv, ToldInv, ToldOf
  <2>3. Counted(notes, u, x, born[x] - missed[x] - 0)
    BY <2>2 DEF Account
  <2>4. Cardinality({n \in notes : n.of = x /\ n.user = u}) = born[x] - missed[x] - 0
    BY <2>3, CountedIsCardinality
  <2>5. /\ born[x] \in Nat /\ missed[x] \in Nat /\ pushed[x] \in Nat /\ sending[x] \in Nat
        /\ pushed[x] + sending[x] + 0 <= born[x]
    BY <2>2 DEF Account
  <2> QED BY <2>4, <2>5
<1> QED BY <1>1, WholeInvHolds, PTL

(***************************************************************************)
(* Shells.  The invariant says of each request which of its machine's      *)
(* addresses it has seen, and which machine the record of its address names *)
(* (VisitsInv).                                                            *)
(***************************************************************************)

VisitFields == {"at", "op", "vm", "host", "saved", "cred", "on", "key", "forgot", "round", "ips",
                "first", "leases", "todo"}

\* What the scenarios and the events keep in range, and whose key a machine has.
ShellTypes ==
  /\ DOMAIN guestRow = Guests
  /\ \A v \in Guests : DOMAIN guestRow[v] = {"there", "ip"} /\ guestRow[v].ip \in Addresses \union {"none"}
  /\ DOMAIN inside = Guests
  /\ \A v \in Guests : DOMAIN inside[v] = {"key", "file", "app"} /\ inside[v].key[1] = v
  /\ DOMAIN answers = Addresses
  /\ \A a \in Addresses : answers[a] \in Guests \union {"none"}
  /\ DOMAIN known = Addresses /\ DOMAIN met = Addresses
  /\ \A q \in wants : q.vm \in Guests /\ q.host \in Addresses \union {"none"}

\* An address has one recorded key, or none.
OneRecord == \A a \in Addresses : \A k, l \in known[a] : k = l

\* The address a machine has for the task that asks for it.
AddressOf(v) == IF guestRow[v].there THEN guestRow[v].ip ELSE "none"

\* A request knows each address its machine had since it looked.
KnowsAddress(x) == x.op = "install" =>
  /\ x.vm \in Guests
  /\ x.at = "target" => AddressOf(x.vm) \in x.ips
  /\ x.at \in {"dial", "trust", "run"} => x.ips \cap {x.host, "none"} # {}

\* The record of a machine that was reached stands until an administrator removes it.
KeepsMachine(x) ==
  /\ x.at \in {"credential", "queued", "target", "dial", "trust", "run"} => x.host \in Addresses
  /\ x.at \in {"credential", "queued", "target"} => x.round = 1
  /\ x.at = "trust" => \E k : x.key = {k} /\ k[1] = x.on
  /\ ~x.forgot =>
       /\ x.at = "run" => \E k \in known[x.host] : k[1] = x.on
       /\ x.at \in {"dial", "trust", "run"} /\ x.round = 2 =>
            \E k \in known[x.host] : k[1] = x.first

\* What a request knows and what the records keep for it.
SoundVisit(x) ==
  /\ DOMAIN x = VisitFields /\ KnowsAddress(x) /\ KeepsMachine(x)
  /\ \A item \in x.todo : item.vm \in Guests

\* What holds of a request at every place.
VisitsInv == DOMAIN visit = Visits /\ \A j \in Visits : SoundVisit(visit[j])

ShellInv == ShellTypes /\ OneKey /\ OneRecord /\ VisitsInv

\* One request changes; rows and records stay.
LEMMA OneVisit ==
  ASSUME VisitsInv, NEW j \in Visits, NEW x, SoundVisit(x), visit' = [visit EXCEPT ![j] = x],
         UNCHANGED <<guestRow, known>>
  PROVE  VisitsInv'
<1>1. DOMAIN visit' = Visits /\ visit'[j] = x /\ \A i \in Visits : i # j => visit'[i] = visit[i]
  BY DEF VisitsInv
<1>2. \A i \in Visits : SoundVisit(visit'[i])
  BY <1>1 DEF VisitsInv
<1>3. \A i \in Visits : SoundVisit(visit[i])'
  BY <1>2 DEF SoundVisit, KnowsAddress, KeepsMachine, AddressOf
<1> QED BY <1>1, <1>3 DEF VisitsInv

\* A request that ends.
LEMMA NoVisitSound == SoundVisit(NoVisit)
BY DEF SoundVisit, KnowsAddress, KeepsMachine, NoVisit, VisitFields

\* A request that stores a credential, and a synchronisation.
LEMMA StoreSound ==
  ASSUME NEW v, NEW c
  PROVE  SoundVisit([NoVisit EXCEPT !.at = "store", !.vm = v, !.cred = c])
BY DEF SoundVisit, KnowsAddress, KeepsMachine, NoVisit, VisitFields

LEMMA SyncSound ==
  ASSUME NEW l, NEW t, \A item \in t : item.vm \in Guests
  PROVE  SoundVisit([NoVisit EXCEPT !.at = "sync", !.leases = l, !.todo = t])
BY DEF SoundVisit, KnowsAddress, KeepsMachine, NoVisit, VisitFields

LEMMA EndsSound ==
  ASSUME VisitsInv, NEW j \in Visits, Ends(j), UNCHANGED <<guestRow, known>>
  PROVE  VisitsInv'
BY NoVisitSound, OneVisit DEF Ends

LEMMA ResolveSound ==
  ASSUME ShellTypes, VisitsInv, NEW j \in Visits, Resolve(j)
  PROVE  VisitsInv'
<1>1. PICK q \in wants : 
        LET ip == guestRow[q.vm].ip
            host == IF q.host = "none" THEN ip ELSE q.host
        IN visit' = IF host = "none" \/ ~ValidTarget(ip, host) THEN visit
                   ELSE [visit EXCEPT ![j] = [NoVisit EXCEPT !.at = "credential", !.op = q.op, !.vm = q.vm, !.host = host,
                                                             !.saved = q.saved, !.ips = {ip}]]
  BY DEF Resolve, Wanted
<1> DEFINE ip == guestRow[q.vm].ip
           host == IF q.host = "none" THEN ip ELSE q.host
           x == [NoVisit EXCEPT !.at = "credential", !.op = q.op, !.vm = q.vm, !.host = host,
                                !.saved = q.saved, !.ips = {ip}]
<1>2. UNCHANGED <<guestRow, known>>
  BY DEF Resolve, hostKeys
<1>3. CASE visit' = visit
  BY <1>2, <1>3 DEF VisitsInv, SoundVisit, KnowsAddress, KeepsMachine, AddressOf
<1>4. CASE visit' # visit
  <2>1. visit' = [visit EXCEPT ![j] = x] /\ host # "none"
    BY <1>1, <1>4
  <2>2. host \in Addresses /\ q.vm \in Guests
    BY <2>1 DEF ShellTypes
  <2> HIDE DEF host, ip
  <2>3. SoundVisit(x)
    BY <2>2 DEF SoundVisit, KnowsAddress, KeepsMachine, NoVisit, VisitFields
  <2> HIDE DEF x
  <2> QED BY <1>2, <2>1, <2>3, OneVisit
<1> QED BY <1>3, <1>4

LEMMA TakeCredentialSound ==
  ASSUME ShellTypes, VisitsInv, NEW j \in Visits, TakeCredential(j)
  PROVE  VisitsInv'
<1>1. UNCHANGED <<guestRow, known>>
  BY DEF TakeCredential, hostKeys
<1>2. CASE Ends(j)
  BY <1>1, <1>2, EndsSound
<1>3. CASE ~Ends(j)
  <2> DEFINE q == visit[j]
             x == [q EXCEPT !.at = IF q.op = "install" THEN "queued" ELSE "dial",
                            !.cred = IF q.saved THEN creds[q.vm] ELSE {}]
  <2>1. visit' = [visit EXCEPT ![j] = x] /\ q.at = "credential"
    BY <1>3 DEF TakeCredential
  <2>2. SoundVisit(q)
    BY DEF VisitsInv
  <2>3. SoundVisit(x)
    BY <2>1, <2>2 DEF SoundVisit, KnowsAddress, KeepsMachine, VisitFields
  <2> HIDE DEF x
  <2> QED BY <1>1, <2>1, <2>3, OneVisit
<1> QED BY <1>2, <1>3

LEMMA TaskStartsSound ==
  ASSUME ShellTypes, VisitsInv, NEW j \in Visits, TaskStarts(j)
  PROVE  VisitsInv'
<1>1. UNCHANGED <<guestRow, known>>
  BY DEF TaskStarts, hostKeys
<1>2. CASE Ends(j)
  BY <1>1, <1>2, EndsSound
<1>3. CASE ~Ends(j)
  <2> DEFINE q == visit[j]
             mine == {c \in creds[q.vm] : \E old \in q.cred : old.id = c.id}
             x == [q EXCEPT !.at = "target", !.cred = mine, !.ips = {AddressOf(q.vm)}]
  <2>1. visit' = [visit EXCEPT ![j] = x] /\ q.at = "queued"
    BY <1>3 DEF TaskStarts, AddressOf
  <2>2. SoundVisit(q)
    BY DEF VisitsInv
  <2> HIDE DEF mine
  <2>3. SoundVisit(x)
    BY <2>1, <2>2 DEF SoundVisit, KnowsAddress, KeepsMachine, VisitFields
  <2> HIDE DEF x
  <2> QED BY <1>1, <2>1, <2>3, OneVisit
<1> QED BY <1>2, <1>3

LEMMA CheckTargetSound ==
  ASSUME ShellTypes, VisitsInv, NEW j \in Visits, CheckTarget(j)
  PROVE  VisitsInv'
<1>1. UNCHANGED <<guestRow, known>>
  BY DEF CheckTarget, hostKeys
<1> DEFINE q == visit[j]
           there == [q EXCEPT !.at = "dial"]
           unread == [q EXCEPT !.at = "dial", !.ips = {"none"}]
<1>2. SoundVisit(q) /\ q.at = "target" /\ q.round = 1
  BY DEF VisitsInv, CheckTarget, SoundVisit, KeepsMachine
<1>3. CASE Ends(j)
  BY <1>1, <1>3, EndsSound
<1>4. CASE TargetHolds(j) /\ GoTo(j, "dial")
  <2>1. visit' = [visit EXCEPT ![j] = there]
    BY <1>4 DEF GoTo
  <2>2. SoundVisit(there)
    BY <1>2, <1>4 DEF SoundVisit, KnowsAddress, KeepsMachine, VisitFields, TargetHolds, ValidTarget,
                      AddressOf
  <2> HIDE DEF there
  <2> QED BY <1>1, <2>1, <2>2, OneVisit
<1>5. CASE visit' = [visit EXCEPT ![j].at = "dial", ![j].ips = {"none"}]
  <2>1. visit' = [visit EXCEPT ![j] = unread]
    BY <1>5
  <2>2. SoundVisit(unread)
    BY <1>2 DEF SoundVisit, KnowsAddress, KeepsMachine, VisitFields
  <2> HIDE DEF unread
  <2> QED BY <1>1, <2>1, <2>2, OneVisit
<1> QED BY <1>3, <1>4, <1>5 DEF CheckTarget

LEMMA ConnectSound ==
  ASSUME ShellTypes, VisitsInv, OneRecord, NEW j \in Visits, Connect(j)
  PROVE  VisitsInv'
<1>1. UNCHANGED <<guestRow, known>>
  BY DEF Connect
<1> DEFINE q == visit[j]
           m == answers[q.host]
           k == inside[m].key
           going == [q EXCEPT !.at = "run", !.on = m]
           trust == [q EXCEPT !.at = "trust", !.on = m, !.key = {k}]
<1>2. SoundVisit(q) /\ q.at = "dial" /\ q.host \in Addresses
  BY DEF VisitsInv, Connect, SoundVisit, KeepsMachine
<1>3. m # "none" => k[1] = m
  BY <1>2 DEF ShellTypes
<1>4. CASE Ends(j)
  BY <1>1, <1>4, EndsSound
<1>5. CASE m # "none" /\ k \in known[q.host] /\ visit' = [visit EXCEPT ![j] = going]
  <2>1. SoundVisit(going)
    BY <1>2, <1>3, <1>5 DEF SoundVisit, KnowsAddress, KeepsMachine, VisitFields
  <2> HIDE DEF going
  <2> QED BY <1>1, <1>5, <2>1, OneVisit
<1>6. CASE m # "none" /\ known[q.host] = {} /\ visit' = [visit EXCEPT ![j] = trust]
  <2> HIDE DEF m, k
  <2>1. SoundVisit(trust)
    BY <1>2, <1>3, <1>6 DEF SoundVisit, KnowsAddress, KeepsMachine, VisitFields
  <2> HIDE DEF trust
  <2> QED BY <1>1, <1>6, <2>1, OneVisit
<1> QED BY <1>4, <1>5, <1>6 DEF Connect, Fits

LEMMA TrustSound ==
  ASSUME ShellTypes, VisitsInv, OneRecord, OneKey, NEW j \in Visits, Trust(j)
  PROVE  VisitsInv' /\ OneRecord' /\ OneKey'
<1> DEFINE q == visit[j]
           a == q.host
<1>1. SoundVisit(q) /\ q.at = "trust" /\ a \in Addresses /\ guestRow' = guestRow
  BY DEF VisitsInv, Trust, SoundVisit, KeepsMachine
<1>2. PICK k : q.key = {k} /\ k[1] = q.on
  BY <1>1 DEF SoundVisit, KeepsMachine
<1>r. PICK going : going = [q EXCEPT !.at = "run"]
  OBVIOUS
<1>3. CASE Ends(j) /\ UNCHANGED hostKeys
  BY <1>1, <1>3, EndsSound DEF hostKeys, OneRecord, OneKey
<1>4. CASE ~(Ends(j) /\ UNCHANGED hostKeys)
  <2>1. /\ known[a] = {} /\ known' = [known EXCEPT ![a] = {k}]
        /\ met' = [met EXCEPT ![a] = met[a] \union {k}]
        /\ visit' = [visit EXCEPT ![j] = going]
    BY <1>2, <1>4, <1>r DEF Trust, GoTo
  <2>2. \A b \in Addresses : known'[b] = IF b = a THEN {k} ELSE known[b]
    BY <2>1 DEF ShellTypes
  <2>3. \A b \in Addresses : met'[b] = IF b = a THEN met[a] \union {k} ELSE met[b]
    BY <2>1 DEF ShellTypes
  <2>4. OneRecord'
    BY <2>2 DEF OneRecord
  <2>5. OneKey'
    BY <2>1, <2>2, <2>3, <1>1 DEF OneKey
  <2>6. /\ DOMAIN visit' = Visits /\ visit'[j] = going
        /\ \A i \in Visits : i # j => visit'[i] = visit[i]
    BY <2>1 DEF VisitsInv
  <2>7. SoundVisit(going)'
    <3>1. /\ DOMAIN going = VisitFields /\ going.at = "run" /\ going.op = q.op /\ going.ips = q.ips
          /\ going.host = a /\ going.forgot = q.forgot /\ going.round = q.round
          /\ going.on = q.on /\ going.first = q.first /\ going.vm = q.vm /\ going.key = q.key
          /\ going.todo = q.todo
      BY <1>1, <1>r DEF SoundVisit, VisitFields
    <3>2. KnowsAddress(q) /\ KeepsMachine(q)
      BY <1>1 DEF SoundVisit
    <3>3. ~(~going.forgot /\ going.round = 2)
      BY <1>1, <2>1, <3>1, <3>2 DEF KeepsMachine
    <3>4. k \in known'[going.host] /\ k[1] = going.on
      BY <1>1, <1>2, <2>2, <3>1
    <3>6. KeepsMachine(going)'
      BY <3>1, <3>3, <3>4, <1>1 DEF KeepsMachine
    <3>7. KnowsAddress(going)'
      BY <3>1, <3>2, <1>1 DEF KnowsAddress
    <3> QED BY <1>1, <3>1, <3>6, <3>7 DEF SoundVisit
  <2>8. ASSUME NEW i \in Visits, i # j
        PROVE  SoundVisit(visit[i])'
    BY <2>1, <2>2, <2>6, <2>8, <1>1 DEF VisitsInv, SoundVisit, KnowsAddress, KeepsMachine, AddressOf
  <2> QED BY <2>4, <2>5, <2>6, <2>7, <2>8 DEF VisitsInv
<1> QED BY <1>3, <1>4

LEMMA NextRoundSound ==
  ASSUME VisitsInv, NEW j \in Visits, visit[j].at = "run", visit[j].round = 1, NextRound(j),
         UNCHANGED <<guestRow, known>>
  PROVE  VisitsInv'
<1> DEFINE q == visit[j]
           x == [q EXCEPT !.at = "dial", !.round = 2, !.first = q.on]
<1>1. SoundVisit(q)
  BY DEF VisitsInv
<1>2. SoundVisit(x)
  BY <1>1 DEF SoundVisit, KnowsAddress, KeepsMachine, VisitFields
<1>3. visit' = [visit EXCEPT ![j] = x]
  BY DEF NextRound
<1> HIDE DEF x
<1> QED BY <1>2, <1>3, OneVisit

\* What runs changes the machine, and its key never.
LEMMA RunsSound ==
  ASSUME ShellTypes, VisitsInv, NEW j \in Visits, RunFiles(j) \/ Detect(j) \/ InstallApp(j)
  PROVE  VisitsInv'
<1>1. UNCHANGED <<guestRow, known>>
  BY DEF RunFiles, Detect, InstallApp, hostKeys
<1>2. Ends(j) \/ (visit[j].at = "run" /\ visit[j].round = 1 /\ NextRound(j))
  BY DEF RunFiles, Detect, InstallApp
<1> QED BY <1>1, <1>2, EndsSound, NextRoundSound

\* A synchronisation gives a machine another address, and every request for it knows that one.
LEMMA SyncOneSound ==
  ASSUME ShellTypes, VisitsInv, NEW j \in Visits, SyncOne(j)
  PROVE  VisitsInv' /\ (guestRow' = guestRow \/ \E v \in Guests, a \in Addresses :
           guestRow' = [guestRow EXCEPT ![v].ip = a])
<1>1. visit[j].at = "sync" /\ known' = known
  BY DEF SyncOne, hostKeys
<1>2. PICK item \in visit[j].todo :
        \/ \E a \in Addresses :
            /\ guestRow' = IF guestRow[item.vm].there THEN [guestRow EXCEPT ![item.vm].ip = a] ELSE guestRow
            /\ visit' = [k \in Visits |->
                 IF k = j THEN [visit[k] EXCEPT !.todo = visit[j].todo \ {item}]
                 ELSE IF visit[k].vm = item.vm THEN [visit[k] EXCEPT !.ips = visit[k].ips \union {a}] ELSE visit[k]]
        \/ visit' = [visit EXCEPT ![j].todo = visit[j].todo \ {item}] /\ UNCHANGED guestRow
  BY DEF SyncOne
<1> DEFINE v == item.vm
<1>v. v \in Guests
  BY DEF VisitsInv, SoundVisit
<1>3. PICK x : x = [visit[j] EXCEPT !.todo = visit[j].todo \ {item}]
  OBVIOUS
<1>4. SoundVisit(x) /\ x.at = "sync"
  BY <1>1, <1>3 DEF VisitsInv, SoundVisit, KnowsAddress, KeepsMachine, VisitFields
<1>5. CASE visit' = [visit EXCEPT ![j].todo = visit[j].todo \ {item}] /\ UNCHANGED guestRow
  BY <1>1, <1>3, <1>4, <1>5, OneVisit
<1>6. ASSUME NEW a \in Addresses,
             guestRow' = IF guestRow[v].there THEN [guestRow EXCEPT ![v].ip = a] ELSE guestRow,
             visit' = [k \in Visits |->
               IF k = j THEN [visit[k] EXCEPT !.todo = visit[j].todo \ {item}]
               ELSE IF visit[k].vm = v THEN [visit[k] EXCEPT !.ips = visit[k].ips \union {a}] ELSE visit[k]]
      PROVE  VisitsInv' /\ (guestRow' = guestRow \/ \E w \in Guests : guestRow' = [guestRow EXCEPT ![w].ip = a])
  <2>1. guestRow' = guestRow \/ \E w \in Guests : guestRow' = [guestRow EXCEPT ![w].ip = a]
    BY <1>6, <1>v DEF ShellTypes
  <2>2. \A w \in Guests : AddressOf(w)' = AddressOf(w) \/ (w = v /\ AddressOf(w)' = a)
    BY <1>6, <1>v DEF ShellTypes, AddressOf
  <2>3. SoundVisit(x)'
    BY <1>1, <1>4 DEF SoundVisit, KnowsAddress, KeepsMachine
  <2>4. ASSUME NEW k \in Visits, k # j
        PROVE  SoundVisit(visit[k])'
    <3>1. PICK y : y = visit[k]
      OBVIOUS
    <3>2. SoundVisit(y)
      BY <3>1 DEF VisitsInv
    <3>3. CASE y.vm = v
      <4>1. PICK z : z = [y EXCEPT !.ips = y.ips \union {a}]
        OBVIOUS
      <4>2. visit'[k] = z
        BY <1>6, <2>4, <3>1, <3>3, <4>1
      <4>3. /\ DOMAIN z = VisitFields /\ z.at = y.at /\ z.op = y.op /\ z.ips = y.ips \union {a}
            /\ z.host = y.host /\ z.forgot = y.forgot /\ z.round = y.round
            /\ z.on = y.on /\ z.first = y.first /\ z.vm = y.vm /\ z.key = y.key /\ z.todo = y.todo
        BY <3>2, <4>1 DEF SoundVisit, VisitFields
      <4>4. KeepsMachine(z)'
        BY <1>1, <3>2, <4>3 DEF SoundVisit, KeepsMachine
      <4>5. KnowsAddress(z)'
        BY <2>2, <3>2, <3>3, <4>3 DEF SoundVisit, KnowsAddress
      <4> QED BY <3>2, <4>2, <4>3, <4>4, <4>5 DEF SoundVisit
    <3>4. CASE y.vm # v
      <4>1. visit'[k] = y
        BY <1>6, <2>4, <3>1, <3>4
      <4>2. SoundVisit(y)'
        BY <1>1, <2>2, <3>2, <3>4 DEF SoundVisit, KnowsAddress, KeepsMachine
      <4> QED BY <4>1, <4>2
    <3> QED BY <3>3, <3>4
  <2>5. DOMAIN visit' = Visits /\ visit'[j] = x
    BY <1>3, <1>6
  <2> QED BY <2>1, <2>3, <2>4, <2>5 DEF VisitsInv
<1> QED BY <1>2, <1>5, <1>6

\* Without its record, nothing is promised of the machine an address leads to.
LEMMA DeleteHostKeySound ==
  ASSUME ShellTypes, VisitsInv, OneRecord, OneKey, DeleteHostKey
  PROVE  VisitsInv' /\ OneRecord' /\ OneKey'
<1>1. PICK q \in wants :
        /\ known' = [known EXCEPT ![q.host] = {}] /\ met' = [met EXCEPT ![q.host] = {}]
        /\ visit' = [j \in Visits |-> IF visit[j].host = q.host THEN [visit[j] EXCEPT !.forgot = TRUE] ELSE visit[j]]
        /\ guestRow' = guestRow
  BY DEF DeleteHostKey
<1>2. /\ \A b \in Addresses : known'[b] = IF b = q.host THEN {} ELSE known[b]
      /\ \A b \in Addresses : met'[b] = IF b = q.host THEN {} ELSE met[b]
  BY <1>1 DEF ShellTypes
<1>3. OneRecord' /\ OneKey'
  BY <1>2 DEF OneRecord, OneKey
<1>4. ASSUME NEW k \in Visits
      PROVE  SoundVisit(visit[k])'
  <2>1. PICK y : y = visit[k]
    OBVIOUS
  <2>2. SoundVisit(y)
    BY <2>1 DEF VisitsInv
  <2>3. CASE y.host = q.host
    <3>1. PICK z : z = [y EXCEPT !.forgot = TRUE]
      OBVIOUS
    <3>2. visit'[k] = z
      BY <1>1, <2>1, <2>3, <3>1
    <3>3. SoundVisit(z)'
      BY <1>1, <2>2, <3>1 DEF SoundVisit, KnowsAddress, KeepsMachine, VisitFields, AddressOf
    <3> QED BY <3>2, <3>3
  <2>4. CASE y.host # q.host
    <3>1. visit'[k] = y
      BY <1>1, <2>1, <2>4
    <3>2. SoundVisit(y)'
      BY <1>1, <1>2, <2>2, <2>4 DEF SoundVisit, KnowsAddress, KeepsMachine, AddressOf
    <3> QED BY <3>1, <3>2
  <2> QED BY <2>3, <2>4
<1> QED BY <1>1, <1>3, <1>4 DEF VisitsInv

\* A machine that goes has no address any more, and its requests know that.
LEMMA GuestDeletedSound ==
  ASSUME ShellTypes, VisitsInv, GuestDeleted
  PROVE  VisitsInv'
<1>1. PICK q \in wants :
        /\ guestRow' = [guestRow EXCEPT ![q.vm].there = FALSE]
        /\ visit' = [k \in Visits |-> IF visit[k].vm = q.vm THEN [visit[k] EXCEPT !.ips = visit[k].ips \union {"none"}] ELSE visit[k]]
        /\ known' = known
  BY DEF GuestDeleted, hostKeys
<1>2. \A w \in Guests : AddressOf(w)' = IF w = q.vm THEN "none" ELSE AddressOf(w)
  BY <1>1 DEF ShellTypes, AddressOf
<1>3. ASSUME NEW k \in Visits
      PROVE  SoundVisit(visit[k])'
  <2>1. PICK y : y = visit[k]
    OBVIOUS
  <2>2. SoundVisit(y)
    BY <2>1 DEF VisitsInv
  <2>3. CASE y.vm = q.vm
    <3>1. PICK z : z = [y EXCEPT !.ips = y.ips \union {"none"}]
      OBVIOUS
    <3>2. visit'[k] = z
      BY <1>1, <2>1, <2>3, <3>1
    <3>3. /\ DOMAIN z = VisitFields /\ z.at = y.at /\ z.op = y.op /\ z.ips = y.ips \union {"none"}
          /\ z.host = y.host /\ z.forgot = y.forgot /\ z.round = y.round
          /\ z.on = y.on /\ z.first = y.first /\ z.vm = y.vm /\ z.key = y.key /\ z.todo = y.todo
      BY <2>2, <3>1 DEF SoundVisit, VisitFields
    <3>4. KeepsMachine(z)'
      BY <1>1, <2>2, <3>3 DEF SoundVisit, KeepsMachine
    <3>5. KnowsAddress(z)'
      BY <1>2, <2>2, <2>3, <3>3 DEF SoundVisit, KnowsAddress
    <3> QED BY <2>2, <3>2, <3>3, <3>4, <3>5 DEF SoundVisit
  <2>4. CASE y.vm # q.vm
    <3>1. visit'[k] = y
      BY <1>1, <2>1, <2>4
    <3>2. SoundVisit(y)'
      BY <1>1, <1>2, <2>2, <2>4 DEF SoundVisit, KnowsAddress, KeepsMachine
    <3> QED BY <3>1, <3>2
  <2> QED BY <2>3, <2>4
<1> QED BY <1>1, <1>3 DEF VisitsInv

(***************************************************************************)
(* All of them                                                             *)
(***************************************************************************)
\* The inductive invariant holds in the beginning, is kept by every step, and so holds always.
LEMMA ShellInitially == ShellInit => ShellInv
<1> SUFFICES ASSUME ShellInit PROVE ShellInv
  OBVIOUS
<1>1. PICK mix \in ShellMixes :
        /\ guestRow = mix.rows /\ inside = mix.inside /\ answers = mix.answers
        /\ known = [a \in Addresses |-> {}] /\ met = [a \in Addresses |-> {}]
        /\ visit = [j \in Visits |-> NoVisit] /\ wants = mix.wants
  BY DEF ShellInit
<1>2. ShellTypes
  BY <1>1, VisitAssumption DEF ShellTypes
<1>3. OneKey /\ OneRecord
  BY <1>1 DEF OneKey, OneRecord
<1>4. VisitsInv
  BY <1>1, NoVisitSound DEF VisitsInv
<1> QED BY <1>2, <1>3, <1>4 DEF ShellInv

LEMMA TypesStep == ShellTypes /\ VisitsInv /\ ShellNext => ShellTypes'
<1> SUFFICES ASSUME ShellTypes, VisitsInv, ShellNext PROVE ShellTypes'
  OBVIOUS
<1> USE DEF ShellTypes, credentials, hostKeys
<1>1. CASE DeleteCredential
  BY <1>1 DEF DeleteCredential
<1>2. CASE DeleteHostKey
  BY <1>2 DEF DeleteHostKey
<1>3. CASE LeaseMoves
  BY <1>3 DEF LeaseMoves
<1>4. CASE Rebuilt
  <2>1. PICK q \in wants : \E n : inside' = [inside EXCEPT ![q.vm] = [key |-> <<q.vm, n>>, file |-> "old", app |-> "no"]]
    BY <1>4 DEF Rebuilt
  <2>2. UNCHANGED <<guestRow, answers, known, met>> /\ wants' \subseteq wants
    BY <1>4 DEF Rebuilt
  <2> QED BY <2>1, <2>2
<1>5. CASE GuestDeleted
  BY <1>5 DEF GuestDeleted
<1>6. ASSUME NEW j \in Visits, SaveCredential(j) \/ StoreCredential(j) \/ Resolve(j) \/ TakeCredential(j)
               \/ TaskStarts(j) \/ CheckTarget(j) \/ Detect(j) \/ SyncIPs(j) \/ SyncEnds(j)
      PROVE  UNCHANGED <<guestRow, inside, answers, known, met>> /\ wants' \subseteq wants
  BY <1>6 DEF SaveCredential, StoreCredential, Resolve, TakeCredential, TaskStarts, CheckTarget,
              Detect, SyncIPs, SyncEnds, Wanted
<1>7. ASSUME NEW j \in Visits, Connect(j)
      PROVE  ShellTypes'
  BY <1>7 DEF Connect
<1>8. ASSUME NEW j \in Visits, Trust(j)
      PROVE  ShellTypes'
  BY <1>8 DEF Trust
<1>9. ASSUME NEW j \in Visits, RunFiles(j) \/ InstallApp(j)
      PROVE  ShellTypes'
  <2>1. UNCHANGED <<guestRow, answers, known, met, wants>>
    BY <1>9 DEF RunFiles, InstallApp
  <2> DEFINE m == visit[j].on
  <2>2. ASSUME NEW x, inside' = [inside EXCEPT ![m].file = x] \/ inside' = [inside EXCEPT ![m].app = x]
        PROVE  ShellTypes'
    BY <2>1, <2>2
  <2>3. CASE InstallApp(j)
    BY <2>2, <2>3 DEF InstallApp
  <2>4. CASE RunFiles(j)
    <3>1. \/ \E f : inside' = [inside EXCEPT ![m].file = f]
          \/ inside' = [inside EXCEPT ![m].file = "cut"]
          \/ inside' = [inside EXCEPT ![m].file = inside[m].file]
      BY <2>4 DEF RunFiles
    <3> QED BY <2>2, <3>1
  <2> QED BY <1>9, <2>3, <2>4
<1>10. ASSUME NEW j \in Visits, SyncOne(j)
       PROVE  ShellTypes'
  <2>1. UNCHANGED <<inside, answers, known, met, wants>>
    BY <1>10 DEF SyncOne
  <2> QED BY <1>10, <2>1, SyncOneSound
<1> QED BY <1>1, <1>2, <1>3, <1>4, <1>5, <1>6, <1>7, <1>8, <1>9, <1>10 DEF ShellNext

LEMMA ShellStep == ShellInv /\ [ShellNext]_shellVars => ShellInv'
<1> SUFFICES ASSUME ShellInv, [ShellNext]_shellVars PROVE ShellInv'
  OBVIOUS
<1>1. ShellTypes /\ OneKey /\ OneRecord /\ VisitsInv
  BY DEF ShellInv
<1>2. CASE UNCHANGED shellVars
  BY <1>1, <1>2 DEF shellVars, ShellInv, ShellTypes, OneKey, OneRecord, VisitsInv, SoundVisit,
                    KnowsAddress, KeepsMachine, AddressOf
<1>3. CASE ShellNext
  <2>1. ShellTypes'
    BY <1>1, <1>3, TypesStep
  <2>2. ASSUME VisitsInv', known' = known, met' = met
        PROVE  ShellInv'
    BY <1>1, <2>1, <2>2 DEF ShellInv, OneKey, OneRecord
  <2>3. ASSUME VisitsInv', known' = known,
               \E a, k : met' = [met EXCEPT ![a] = met[a] \union {k}] /\ k \in known[a]
        PROVE  ShellInv'
    <3>1. OneKey'
      BY <1>1, <2>3 DEF OneKey, ShellTypes
    <3> QED BY <1>1, <2>1, <2>3, <3>1 DEF ShellInv, OneRecord
  <2>4. CASE DeleteCredential \/ LeaseMoves \/ Rebuilt
    <3>1. visit' = visit /\ UNCHANGED <<guestRow, known, met>>
      BY <2>4 DEF DeleteCredential, LeaseMoves, Rebuilt, hostKeys
    <3>2. VisitsInv'
      BY <1>1, <3>1 DEF VisitsInv, SoundVisit, KnowsAddress, KeepsMachine, AddressOf
    <3> QED BY <2>2, <3>1, <3>2
  <2>5. CASE DeleteHostKey
    BY <1>1, <2>1, <2>5, DeleteHostKeySound DEF ShellInv
  <2>6. CASE GuestDeleted
    <3>1. known' = known /\ met' = met
      BY <2>6 DEF GuestDeleted, hostKeys
    <3> QED BY <1>1, <2>2, <2>6, <3>1, GuestDeletedSound
  <2>7. ASSUME NEW j \in Visits, SaveCredential(j) \/ StoreCredential(j) \/ SyncIPs(j) \/ SyncEnds(j)
        PROVE  ShellInv'
    <3>1. UNCHANGED <<guestRow, known, met>>
      BY <2>7 DEF SaveCredential, StoreCredential, SyncIPs, SyncEnds, hostKeys
    <3>2. CASE Ends(j)
      BY <1>1, <2>2, <3>1, <3>2, EndsSound
    <3>3. CASE SaveCredential(j)
      <4>1. PICK q : visit' = [visit EXCEPT ![j] = [NoVisit EXCEPT !.at = "store", !.vm = q.vm, !.cred = creds[q.vm]]]
        BY <3>3 DEF SaveCredential
      <4>2. PICK x : x = [NoVisit EXCEPT !.at = "store", !.vm = q.vm, !.cred = creds[q.vm]]
        OBVIOUS
      <4>3. SoundVisit(x)
        BY <4>2, StoreSound
      <4> QED BY <1>1, <2>2, <3>1, <4>1, <4>2, <4>3, OneVisit
    <3>4. CASE SyncIPs(j)
      <4>1. visit' = [visit EXCEPT ![j] = [NoVisit EXCEPT !.at = "sync", !.leases = answers,
               !.todo = {[vm |-> v, ip |-> guestRow[v].ip] : v \in {v \in Guests : guestRow[v].there}}]]
        BY <3>4 DEF SyncIPs
      <4> DEFINE t == {[vm |-> v, ip |-> guestRow[v].ip] : v \in {v \in Guests : guestRow[v].there}}
      <4>2. \A item \in t : item.vm \in Guests
        OBVIOUS
      <4> HIDE DEF t
      <4>3. SoundVisit([NoVisit EXCEPT !.at = "sync", !.leases = answers, !.todo = t])
        BY <4>2, SyncSound
      <4> QED BY <1>1, <2>2, <3>1, <4>1, <4>3, OneVisit DEF t
    <3> QED BY <2>7, <3>2, <3>3, <3>4 DEF StoreCredential, SyncEnds
  <2>8. ASSUME NEW j \in Visits, Resolve(j) \/ TakeCredential(j) \/ TaskStarts(j) \/ CheckTarget(j)
                 \/ RunFiles(j) \/ Detect(j) \/ InstallApp(j)
        PROVE  ShellInv'
    <3>1. UNCHANGED <<known, met>>
      BY <2>8 DEF Resolve, TakeCredential, TaskStarts, CheckTarget, RunFiles, Detect, InstallApp, hostKeys
    <3>2. VisitsInv'
      BY <1>1, <2>8, ResolveSound, TakeCredentialSound, TaskStartsSound, CheckTargetSound, RunsSound
    <3> QED BY <2>2, <3>1, <3>2
  <2>9. ASSUME NEW j \in Visits, Connect(j)
        PROVE  ShellInv'
    <3>1. VisitsInv'
      BY <1>1, <2>9, ConnectSound
    <3>2. known' = known
      BY <2>9 DEF Connect
    <3>3. \/ met' = met
          \/ \E a, k : met' = [met EXCEPT ![a] = met[a] \union {k}] /\ k \in known[a]
      BY <2>9 DEF Connect, Fits
    <3> QED BY <2>2, <2>3, <3>1, <3>2, <3>3
  <2>10. ASSUME NEW j \in Visits, Trust(j)
         PROVE  ShellInv'
    BY <1>1, <2>1, <2>10, TrustSound DEF ShellInv
  <2>11. ASSUME NEW j \in Visits, SyncOne(j)
         PROVE  ShellInv'
    <3>1. UNCHANGED <<known, met>>
      BY <2>11 DEF SyncOne, hostKeys
    <3> QED BY <1>1, <2>2, <2>11, <3>1, SyncOneSound
  <2> QED BY <1>3, <2>4, <2>5, <2>6, <2>7, <2>8, <2>9, <2>10, <2>11 DEF ShellNext
<1> QED BY <1>2, <1>3

LEMMA ShellInvHolds == ShellSpec => []ShellInv
BY ShellInitially, ShellStep, PTL DEF ShellSpec

\* From one removal of its record to the next an address is talked to under one key
\* (hostkey.go, tofuCallback, Save).
THEOREM OneKeyPerAddress == ShellSpec => []OneKey
<1>1. ShellInv => OneKey
  BY DEF ShellInv
<1> QED BY <1>1, ShellInvHolds, PTL

\* Both connections of an installation reach one machine unless the record is removed
\* (app_tasks.go, execAppInstall).
THEOREM InstallsWhereItLooked == ShellSpec => []SameMachine
<1>1. ShellInv => SameMachine
  <2> SUFFICES ASSUME ShellInv, NEW j \in Visits, visit[j].at = "run", visit[j].round = 2, ~visit[j].forgot
               PROVE  visit[j].on = visit[j].first
    BY DEF SameMachine
  <2>1. KeepsMachine(visit[j]) /\ visit[j].host \in Addresses /\ OneRecord
    BY DEF ShellInv, VisitsInv, SoundVisit, KeepsMachine
  <2>2. PICK k \in known[visit[j].host] : k[1] = visit[j].on
    BY <2>1 DEF KeepsMachine
  <2>3. PICK l \in known[visit[j].host] : l[1] = visit[j].first
    BY <2>1 DEF KeepsMachine
  <2> QED BY <2>1, <2>2, <2>3 DEF OneRecord
<1> QED BY <1>1, ShellInvHolds, PTL

\* A task connects only to an address its machine was registered under since the task
\* started, or to a private one when it had none (app_tasks.go, taskRecordedIP).
THEOREM TasksStayRegistered == ShellSpec => []Registered
<1>1. ShellInv => Registered
  BY DEF ShellInv, Registered, VisitsInv, SoundVisit, KnowsAddress
<1> QED BY <1>1, ShellInvHolds, PTL

(***************************************************************************)
(* Ansible.  One invariant speaks of each run alone (RunsInv), one of      *)
(* processes and directories (LeftInv), one of the platform's key (KeyInv). *)
(***************************************************************************)

RunFields == {"at", "targets", "grouped", "book", "answered", "sealed", "asked", "rows", "ways",
              "file", "env", "hidden", "cut", "over", "result"}

\* What holds of a run at each place: the machines it was asked for stay among those it gathered,
\* each of them has a way once the channel is chosen, and before it is launched nothing is
\* written and only sealed answers are secret.
SoundRun(x) ==
  /\ DOMAIN x = RunFields
  /\ x.at \in {"gathered", "channel", "inventory", "running"} => x.targets \subseteq x.asked
  /\ x.at \in {"channel", "inventory", "running"} =>
       DOMAIN x.ways = x.asked /\ \A h \in x.asked : x.ways[h] # {}
  /\ x.at # "running" => x.file = {} /\ x.hidden \subseteq x.sealed
  /\ x.file \cap x.hidden = {} /\ x.file \cap x.env = {}

RunsInv == DOMAIN run = Runs /\ \A r \in Runs : SoundRun(run[r])

\* A run without processes and directory may only get them by going on; one that left the
\* platform's sight is among the strays.
LeftInv ==
  /\ DOMAIN procs = Runs
  /\ \A r \in Runs : r \notin strays =>
       /\ run[r].at \in {"none", "queued", "gathered", "channel", "inventory", "ended"} =>
            procs[r] \cap Holders = {}
       /\ run[r].at \in {"none", "queued", "gathered", "channel", "ended"} => r \notin folders

BoxFields == {"there", "up", "ready", "user", "cred"}

\* The mark that a distribution is about to set has its key; and no distribution knows a machine
\* that is still to be made.
Marked == \A h \in Hosts : \A u : box[h].ready /\ box[h].user = u => SentTo(h, u)
Pending(k) ==
  dealer[k].at = "mark" =>
    /\ dealer[k].host \in Hosts
    /\ \A h, u : h = dealer[k].host /\ u = dealer[k].user => SentTo(h, u)

KeyInv ==
  /\ DOMAIN box = Hosts /\ DOMAIN keyed = Hosts /\ DOMAIN dealer = Dealers
  /\ \A h \in Hosts : DOMAIN box[h] = BoxFields
  /\ \A k \in Dealers : DOMAIN dealer[k] = {"at", "todo", "host", "user"}
  /\ Marked
  /\ \A k \in Dealers : Pending(k) /\ \A item \in dealer[k].todo : item.host \in Hosts
  /\ \A q \in jobs : q.op = "born" =>
       /\ q.host \in Hosts /\ ~box[q.host].there
       /\ \A p \in jobs : p.op = "born" /\ p.host = q.host => p = q
       /\ \A k \in Dealers : /\ dealer[k].at = "mark" => dealer[k].host # q.host
                             /\ \A item \in dealer[k].todo : item.host # q.host

(***************************************************************************)
(* Runs                                                                    *)
(***************************************************************************)
\* A run that has not begun, or is over.
LEMMA EndedSound ==
  ASSUME NEW result
  PROVE  /\ SoundRun(NoRun)
         /\ SoundRun([NoRun EXCEPT !.at = "ended", !.over = TRUE, !.result = result])
         /\ [NoRun EXCEPT !.at = "ended", !.over = TRUE, !.result = result].at = "ended"
<1>1. SoundRun(NoRun)
  BY DEF SoundRun, RunFields, NoRun
<1>2. SoundRun([NoRun EXCEPT !.at = "ended", !.over = TRUE, !.result = result])
  BY DEF SoundRun, RunFields, NoRun
<1>3. [NoRun EXCEPT !.at = "ended", !.over = TRUE, !.result = result].at = "ended"
  BY DEF NoRun
<1> QED BY <1>1, <1>2, <1>3

\* A step that changes one run keeps RunsInv if the new one is sound.
LEMMA OneRun ==
  ASSUME RunsInv, NEW r \in Runs, NEW x, SoundRun(x), run' = [run EXCEPT ![r] = x]
  PROVE  RunsInv' /\ run'[r] = x /\ \A s \in Runs : s # r => run'[s] = run[s]
<1>1. DOMAIN run' = Runs /\ run'[r] = x /\ \A s \in Runs : s # r => run'[s] = run[s]
  BY DEF RunsInv
<1>2. \A s \in Runs : SoundRun(run'[s])
  BY <1>1 DEF RunsInv
<1> QED BY <1>1, <1>2 DEF RunsInv

\* A run that stops, in whatever way.
LEMMA Stopped ==
  ASSUME RunsInv, NEW r \in Runs, NEW result, Stops(r, result)
  PROVE  /\ RunsInv' /\ run'[r].at = "ended"
         /\ \A s \in Runs : s # r => run'[s] = run[s]
BY EndedSound, OneRun DEF Stops

\* SubmitRun starts a run with what was asked of it.
LEMMA SubmitSound ==
  ASSUME RunsInv, NEW r \in Runs, SubmitRun(r)
  PROVE  /\ RunsInv' /\ run[r].at = "none" /\ run'[r].at \in {"none", "queued"}
         /\ \A s \in Runs : s # r => run'[s] = run[s]
<1>1. run[r] = NoRun /\ run[r].at = "none"
  BY DEF SubmitRun, NoRun
<1>2. \/ run' = run
      \/ \E q, secret : run' = [run EXCEPT ![r] =
           [NoRun EXCEPT !.at = "queued", !.targets = q.targets, !.grouped = q.grouped,
                         !.book = q.book, !.answered = q.answered, !.sealed = secret,
                         !.hidden = secret]]
  BY DEF SubmitRun
<1>3. ASSUME NEW q, NEW secret, NEW x,
             x = [NoRun EXCEPT !.at = "queued", !.targets = q.targets, !.grouped = q.grouped,
                               !.book = q.book, !.answered = q.answered, !.sealed = secret,
                               !.hidden = secret]
      PROVE  SoundRun(x) /\ x.at = "queued"
  BY <1>3 DEF SoundRun, RunFields, NoRun
<1>4. CASE run' = run
  BY <1>1, <1>4 DEF RunsInv
<1>5. CASE run' # run
  <2>1. PICK q, secret : run' = [run EXCEPT ![r] =
           [NoRun EXCEPT !.at = "queued", !.targets = q.targets, !.grouped = q.grouped,
                         !.book = q.book, !.answered = q.answered, !.sealed = secret,
                         !.hidden = secret]]
    BY <1>2, <1>5
  <2> DEFINE x == [NoRun EXCEPT !.at = "queued", !.targets = q.targets, !.grouped = q.grouped,
                                !.book = q.book, !.answered = q.answered, !.sealed = secret,
                                !.hidden = secret]
  <2>2. SoundRun(x) /\ x.at = "queued"
    BY <1>3
  <2>3. run' = [run EXCEPT ![r] = x]
    BY <2>1
  <2> HIDE DEF x
  <2> QED BY <1>1, <2>2, <2>3, OneRun
<1> QED BY <1>4, <1>5

\* Gather: the machines asked for include the targets.
LEMMA GatherSound ==
  ASSUME RunsInv, NEW r \in Runs, Gather(r)
  PROVE  /\ RunsInv' /\ run[r].at = "queued" /\ run'[r].at \in {"gathered", "ended"}
         /\ \A s \in Runs : s # r => run'[s] = run[s]
<1>1. run[r].at = "queued" /\ SoundRun(run[r])
  BY DEF Gather, At, RunsInv
<1>2. CASE Stops(r, "failed")
  BY <1>1, <1>2, Stopped
<1>3. CASE ~Stops(r, "failed")
  <2>1. PICK rows : run' = [run EXCEPT ![r].at = "gathered", ![r].asked = Asked(r),
                                       ![r].rows = rows]
    BY <1>3 DEF Gather
  <2> DEFINE x == [run[r] EXCEPT !.at = "gathered", !.asked = Asked(r), !.rows = rows]
  <2>2. run' = [run EXCEPT ![r] = x]
    BY <2>1 DEF RunsInv
  <2>3. run[r].targets \subseteq Asked(r)
    BY DEF Asked
  <2>4. SoundRun(x) /\ x.at = "gathered"
    BY <1>1, <2>3 DEF SoundRun, RunFields
  <2> HIDE DEF x
  <2> QED BY <1>1, <2>2, <2>4, OneRun
<1> QED BY <1>2, <1>3

\* Channel: every machine has a way.
LEMMA ChannelSound ==
  ASSUME RunsInv, NEW r \in Runs, Channel(r)
  PROVE  /\ RunsInv' /\ run[r].at = "gathered" /\ run'[r].at \in {"channel", "ended"}
         /\ \A s \in Runs : s # r => run'[s] = run[s]
<1>1. run[r].at = "gathered" /\ SoundRun(run[r])
  BY DEF Channel, At, RunsInv
<1>2. CASE Stops(r, "failed")
  BY <1>1, <1>2, Stopped
<1>3. CASE ~Stops(r, "failed")
  <2> DEFINE w == Ways(r)
             x == [run[r] EXCEPT !.at = "channel", !.ways = w]
  <2>1. run' = [run EXCEPT ![r].at = "channel", ![r].ways = w] /\ \A h \in DOMAIN w : w[h] # {}
    BY <1>3 DEF Channel
  <2>2. run' = [run EXCEPT ![r] = x]
    BY <2>1 DEF RunsInv
  <2>3. DOMAIN w = run[r].asked
    BY DEF Ways
  <2>4. SoundRun(x) /\ x.at = "channel"
    <3> HIDE DEF w
    <3> QED BY <1>1, <2>1, <2>3 DEF SoundRun, RunFields
  <2> HIDE DEF x
  <2> QED BY <1>1, <2>2, <2>4, OneRun
<1> QED BY <1>2, <1>3

\* The deferred removal: the directory is gone, or the run is among the strays.
LEMMA Cleared ==
  ASSUME NEW r, NEW n, Clears(r, n)
  PROVE  \/ folders' = folders \ {r} /\ strays' = strays
         \/ folders' = folders \cup {r} /\ strays' = strays \cup {r}
BY DEF Clears

\* Prepare leaves what was gathered alone.
LEMMA PrepareSound ==
  ASSUME RunsInv, NEW r \in Runs, Prepare(r)
  PROVE  /\ RunsInv' /\ run[r].at = "channel"
         /\ \/ run'[r].at = "inventory" /\ folders' = folders \cup {r} /\ strays' = strays
            \/ run'[r].at = "ended" /\ folders' = folders \cup {r} /\ strays' = strays \cup {r}
            \/ run'[r].at = "ended" /\ folders' = folders \ {r} /\ strays' = strays
            \/ run'[r].at = "ended" /\ folders' = folders /\ strays' = strays
         /\ \A s \in Runs : s # r => run'[s] = run[s]
<1>1. run[r].at = "channel" /\ SoundRun(run[r])
  BY DEF Prepare, At, RunsInv
<1>2. CASE Stops(r, "failed") /\ folders' = folders /\ strays' = strays
  BY <1>1, <1>2, Stopped
<1>3. CASE Moves(r, "inventory") /\ folders' = folders \cup {r} /\ strays' = strays
  <2> DEFINE x == [run[r] EXCEPT !.at = "inventory"]
  <2>1. run' = [run EXCEPT ![r] = x]
    BY <1>3 DEF Moves, RunsInv
  <2>2. SoundRun(x) /\ x.at = "inventory"
    BY <1>1 DEF SoundRun, RunFields
  <2> HIDE DEF x
  <2> QED BY <1>1, <1>3, <2>1, <2>2, OneRun
<1>4. CASE Stops(r, "failed") /\ \E n \in {0, 1} : Clears(r, n)
  <2>1. \/ folders' = folders \ {r} /\ strays' = strays
        \/ folders' = folders \cup {r} /\ strays' = strays \cup {r}
    BY <1>4, Cleared
  <2>2. RunsInv' /\ run'[r].at = "ended" /\ \A s \in Runs : s # r => run'[s] = run[s]
    BY <1>4, Stopped
  <2> QED BY <1>1, <2>1, <2>2
<1>5. \/ Moves(r, "inventory") /\ folders' = folders \cup {r} /\ strays' = strays
      \/ Stops(r, "failed") /\ (Clears(r, 0) \/ Clears(r, 1))
      \/ Stops(r, "failed") /\ folders' = folders /\ strays' = strays
  BY DEF Prepare
<1> QED BY <1>2, <1>3, <1>4, <1>5

\* Launch: what is secret, by the survey of the submission or by that which the run reads, goes
\* into the environment.
LEMMA LaunchSound ==
  ASSUME RunsInv, NEW r \in Runs, Launch(r)
  PROVE  /\ RunsInv' /\ run[r].at = "inventory"
         /\ \/ run'[r].at = "running" /\ UNCHANGED <<folders, strays>>
            \/ run'[r].at = "ended" /\ folders' = folders \ {r} /\ strays' = strays
            \/ run'[r].at = "ended" /\ folders' = folders \cup {r} /\ strays' = strays \cup {r}
         /\ run'[r].at = "running" \/ procs' = procs
         /\ \E p : procs' = [procs EXCEPT ![r] = p] \/ procs' = procs
         /\ \A s \in Runs : s # r => run'[s] = run[s]
<1> DEFINE q == run[r]
           now(vars) == {n \in DOMAIN q.answered : OfType(vars, n, "secret")}
<1>1. run[r].at = "inventory" /\ SoundRun(q)
  BY DEF Launch, At, RunsInv
<1>2. \E vars :
        \/ /\ run' = [run EXCEPT ![r].at = "running", ![r].file = ToFile(q, vars),
                                 ![r].env = ToEnv(q, vars), ![r].hidden = @ \cup now(vars)]
           /\ UNCHANGED <<folders, strays>> /\ Starts(r)
        \/ Stops(r, "failed") /\ procs' = procs /\ \E n : Clears(r, n)
  <2>1. PICK vars \in {Read(run[r]), <<>>} :
             \/ /\ run' = [run EXCEPT ![r].at = "running", ![r].file = ToFile(q, vars),
                                      ![r].env = ToEnv(q, vars), ![r].hidden = @ \cup now(vars)]
                /\ UNCHANGED <<folders, strays>> /\ Starts(r)
             \/ Stops(r, "failed") /\ procs' = procs /\ \E n : Clears(r, n)
    BY DEF Launch
  <2> QED BY <2>1
<1>3. PICK vars :
        \/ /\ run' = [run EXCEPT ![r].at = "running", ![r].file = ToFile(q, vars),
                                 ![r].env = ToEnv(q, vars), ![r].hidden = @ \cup now(vars)]
           /\ UNCHANGED <<folders, strays>> /\ Starts(r)
        \/ Stops(r, "failed") /\ procs' = procs /\ \E n : Clears(r, n)
  BY <1>2
<1>4. CASE Stops(r, "failed") /\ procs' = procs /\ \E n : Clears(r, n)
  <2>1. \/ folders' = folders \ {r} /\ strays' = strays
        \/ folders' = folders \cup {r} /\ strays' = strays \cup {r}
    BY <1>4, Cleared
  <2>2. RunsInv' /\ run'[r].at = "ended" /\ \A s \in Runs : s # r => run'[s] = run[s]
    BY <1>4, Stopped
  <2> QED BY <1>1, <1>4, <2>1, <2>2
<1>5. CASE /\ run' = [run EXCEPT ![r].at = "running", ![r].file = ToFile(q, vars),
                                 ![r].env = ToEnv(q, vars), ![r].hidden = @ \cup now(vars)]
           /\ UNCHANGED <<folders, strays>> /\ Starts(r)
  <2>1. now(vars) \subseteq ToEnv(q, vars)
    BY DEF OfType, EffectiveTarget, ToEnv
  <2>2. q.sealed \subseteq ToEnv(q, vars) /\ ToFile(q, vars) \cap ToEnv(q, vars) = {}
    BY DEF ToEnv, ToFile
  <2> DEFINE file == ToFile(q, vars)
             env == ToEnv(q, vars)
             new == now(vars)
             x == [q EXCEPT !.at = "running", !.file = file, !.env = env, !.hidden = @ \cup new]
  <2>3. /\ run' = [run EXCEPT ![r].at = "running", ![r].file = file, ![r].env = env,
                              ![r].hidden = @ \cup new]
        /\ new \subseteq env /\ q.sealed \subseteq env /\ file \cap env = {}
    BY <1>5, <2>1, <2>2
  <2> HIDE DEF file, env, new
  <2>4. run' = [run EXCEPT ![r] = x]
    BY <2>3 DEF RunsInv
  <2>5. SoundRun(x) /\ x.at = "running"
    BY <1>1, <2>3 DEF SoundRun, RunFields
  <2>6. \E p : procs' = [procs EXCEPT ![r] = p]
    BY <1>5 DEF Starts
  <2> HIDE DEF x
  <2> QED BY <1>1, <1>5, <2>4, <2>5, <2>6, OneRun
<1> QED BY <1>3, <1>4, <1>5

\* A run whose row or context ends: its place is what it was.
LEMMA CutSound ==
  ASSUME RunsInv, NEW r \in Runs, GivesUp(r) \/ Cut(r)
  PROVE  /\ RunsInv' /\ UNCHANGED <<procs, folders, strays>>
         /\ \A s \in Runs : run'[s].at = run[s].at
<1>1. SoundRun(run[r]) /\ UNCHANGED <<procs, folders, strays>>
  BY DEF GivesUp, Cut, RunsInv
<1>2. PICK cut, over : run' = [run EXCEPT ![r] = [@ EXCEPT !.cut = cut, !.over = over]]
  <2> DEFINE x(c, o) == [run[r] EXCEPT !.cut = c, !.over = o]
  <2>1. DOMAIN run[r] = RunFields
    BY <1>1 DEF SoundRun
  <2>2. CASE run' = [run EXCEPT ![r].over = TRUE]
    <3>1. [run[r] EXCEPT !.over = TRUE] = x(run[r].cut, TRUE)
      BY <2>1 DEF RunFields
    <3> QED BY <2>2, <3>1
  <2>3. CASE run' = [run EXCEPT ![r].cut = TRUE, ![r].over = TRUE]
    <3>1. run' = [run EXCEPT ![r] = x(TRUE, TRUE)]
      BY <2>3 DEF RunsInv
    <3> QED BY <3>1
  <2>4. CASE run' = [run EXCEPT ![r].cut = TRUE]
    <3>1. [run[r] EXCEPT !.cut = TRUE] = x(TRUE, run[r].over)
      BY <2>1 DEF RunFields
    <3> QED BY <2>4, <3>1
  <2> QED BY <2>2, <2>3, <2>4 DEF GivesUp, Cut
<1> DEFINE x == [run[r] EXCEPT !.cut = cut, !.over = over]
<1>3. run' = [run EXCEPT ![r] = x]
  BY <1>2
<1>4. SoundRun(x) /\ x.at = run[r].at
  BY <1>1 DEF SoundRun, RunFields
<1> HIDE DEF x
<1> QED BY <1>1, <1>3, <1>4, OneRun

\* A run whose output ends.
LEMMA RunningSound ==
  ASSUME RunsInv, NEW r \in Runs, RunEnds(r)
  PROVE  /\ RunsInv' /\ run[r].at = "running"
         /\ run'[r].at = "ended" /\ procs' = procs /\ procs[r] \cap Holders = {}
         /\ \/ folders' = folders \ {r} /\ strays' = strays
            \/ folders' = folders \cup {r} /\ strays' = strays \cup {r}
         /\ \A s \in Runs : s # r => run'[s] = run[s]
<1>1. run[r].at = "running"
  BY DEF RunEnds, At
<1>2. PICK result : Stops(r, result)
  BY DEF RunEnds
<1>3. procs' = procs /\ procs[r] \cap Holders = {}
  BY DEF RunEnds, OutputEnds
<1>4. \/ folders' = folders \ {r} /\ strays' = strays
      \/ folders' = folders \cup {r} /\ strays' = strays \cup {r}
  BY Cleared DEF RunEnds
<1> QED BY <1>1, <1>2, <1>3, <1>4, Stopped

\* What the process forgets when it dies.
LEMMA CrashSound ==
  ASSUME RunsInv, AnsibleStops
  PROVE  /\ RunsInv' /\ UNCHANGED <<procs, folders>>
         /\ \A r \in Runs : \/ run'[r] = run[r] /\ run[r].at \in {"none", "queued", "ended"}
                            \/ run'[r].at = "ended" /\ r \in strays'
         /\ strays \subseteq strays'
<1> DEFINE lost == [NoRun EXCEPT !.at = "ended", !.over = TRUE, !.result = "lost"]
<1>1. SoundRun(lost) /\ lost.at = "ended"
  BY EndedSound
<1>2. /\ run' = [r \in Runs |-> IF run[r].at \in {"none", "queued", "ended"} THEN run[r] ELSE lost]
      /\ strays' = strays \cup {r \in Runs : run[r].at \notin {"none", "queued", "ended"}}
      /\ UNCHANGED <<procs, folders>>
  BY DEF AnsibleStops
<1> HIDE DEF lost
<1>3. RunsInv'
  BY <1>1, <1>2 DEF RunsInv
<1> QED BY <1>1, <1>2, <1>3

\* Every step keeps each run sound.
LEMMA RunsStep == ASSUME RunsInv, [AnsibleNext]_ansibleVars PROVE RunsInv'
<1>1. CASE UNCHANGED run
  BY <1>1 DEF RunsInv
<1>2. ASSUME NEW r \in Runs, SubmitRun(r) \/ Gather(r) \/ Channel(r) \/ Prepare(r) \/ Launch(r)
      PROVE  RunsInv'
  BY <1>2, SubmitSound, GatherSound, ChannelSound, PrepareSound, LaunchSound
<1>3. ASSUME NEW r \in Runs, GivesUp(r) \/ Cut(r) \/ RunEnds(r) PROVE RunsInv'
  BY <1>3, CutSound, RunningSound
<1>4. CASE AnsibleStops
  BY <1>4, CrashSound
<1>5. ASSUME NEW r \in Runs, Forks(r) \/ ProcessEnds(r) \/ KillRun(r) PROVE UNCHANGED run
  BY <1>5 DEF Forks, ProcessEnds, KillRun
<1>6. CASE \E k \in Editors : OpenEditor(k) \/ ExportAnsible(k) \/ Truncate(k) \/ Fill(k)
  BY <1>1, <1>6 DEF OpenEditor, ExportAnsible, Truncate, Fill, running
<1>7. CASE \E k \in Dealers : DeployKey(k) \/ Inject(k) \/ Mark(k) \/ Dealt(k)
  BY <1>1, <1>7 DEF DeployKey, Inject, Mark, Dealt, running
<1>8. CASE DeletePlaybook \/ PutFile \/ DropFile \/ RoleOps \/ AnsibleStarts \/ Born
           \/ FirstBoot \/ Outside
  BY <1>1, <1>8 DEF DeletePlaybook, PutFile, DropFile, RoleOps, AnsibleStarts, Born, FirstBoot,
     Outside, running
<1>9. CASE UNCHANGED ansibleVars
  BY <1>1, <1>9 DEF ansibleVars
<1> QED BY <1>1, <1>2, <1>3, <1>4, <1>5, <1>6, <1>7, <1>8, <1>9 DEF AnsibleNext

\* Every step keeps account of what is left behind.
LEMMA LeftStep == ASSUME RunsInv, LeftInv, [AnsibleNext]_ansibleVars PROVE LeftInv'
<1>1. CASE UNCHANGED <<run, procs, folders, strays>>
  BY <1>1 DEF LeftInv
<1>2. ASSUME NEW r \in Runs, SubmitRun(r) PROVE LeftInv'
  BY <1>2, SubmitSound DEF LeftInv, SubmitRun
<1>3. ASSUME NEW r \in Runs, Gather(r) PROVE LeftInv'
  BY <1>3, GatherSound DEF LeftInv, Gather
<1>4. ASSUME NEW r \in Runs, Channel(r) PROVE LeftInv'
  BY <1>4, ChannelSound DEF LeftInv, Channel
<1>5. ASSUME NEW r \in Runs, Prepare(r) PROVE LeftInv'
  BY <1>5, PrepareSound DEF LeftInv, Prepare
<1>6. ASSUME NEW r \in Runs, Launch(r) PROVE LeftInv'
  BY <1>6, LaunchSound DEF LeftInv
<1>7. ASSUME NEW r \in Runs, GivesUp(r) \/ Cut(r) \/ RunEnds(r) PROVE LeftInv'
  <2>1. CASE GivesUp(r) \/ Cut(r)
    BY <2>1, CutSound DEF LeftInv
  <2>2. CASE RunEnds(r)
    BY <2>2, RunningSound DEF LeftInv
  <2> QED BY <1>7, <2>1, <2>2
<1>8. ASSUME NEW r \in Runs, Forks(r) \/ ProcessEnds(r) \/ KillRun(r) PROVE LeftInv'
  <2>1. /\ UNCHANGED <<run, folders, strays>>
        /\ \E p : procs' = [procs EXCEPT ![r] = p] /\ (p \subseteq procs[r] \/ "ansible" \in procs[r])
    BY <1>8 DEF Forks, ProcessEnds, KillRun
  <2>2. PICK p : procs' = [procs EXCEPT ![r] = p] /\ (p \subseteq procs[r] \/ "ansible" \in procs[r])
    BY <2>1
  <2>3. procs[r] \cap Holders = {} => p \cap Holders = {}
    BY <2>2 DEF Holders
  <2> QED BY <2>1, <2>2, <2>3 DEF LeftInv
<1>9. CASE AnsibleStops
  BY <1>9, CrashSound DEF LeftInv
<1>10. CASE \E k \in Editors : OpenEditor(k) \/ ExportAnsible(k) \/ Truncate(k) \/ Fill(k)
  BY <1>1, <1>10 DEF OpenEditor, ExportAnsible, Truncate, Fill, running
<1>11. CASE \E k \in Dealers : DeployKey(k) \/ Inject(k) \/ Mark(k) \/ Dealt(k)
  BY <1>1, <1>11 DEF DeployKey, Inject, Mark, Dealt, running
<1>12. CASE DeletePlaybook \/ PutFile \/ DropFile \/ RoleOps \/ AnsibleStarts \/ Born
            \/ FirstBoot \/ Outside
  BY <1>1, <1>12 DEF DeletePlaybook, PutFile, DropFile, RoleOps, AnsibleStarts, Born, FirstBoot,
     Outside, running
<1>13. CASE UNCHANGED ansibleVars
  BY <1>1, <1>13 DEF ansibleVars
<1> QED BY <1>1, <1>2, <1>3, <1>4, <1>5, <1>6, <1>7, <1>8, <1>9, <1>10, <1>11, <1>12, <1>13
        DEF AnsibleNext

\* At the start nothing runs.
LEMMA RunsStart == ASSUME AnsibleInit PROVE RunsInv /\ LeftInv
<1>1. /\ run = [r \in Runs |-> NoRun] /\ procs = [r \in Runs |-> {}] /\ folders = {}
  BY DEF AnsibleInit
<1>2. SoundRun(NoRun)
  BY EndedSound
<1> QED BY <1>1, <1>2 DEF RunsInv, LeftInv

\* The two invariants of runs hold in every state.
LEMMA RunsAlways == AnsibleSpec => [](RunsInv /\ LeftInv)
<1>1. RunsInv /\ LeftInv /\ [AnsibleNext]_ansibleVars => (RunsInv /\ LeftInv)'
  BY RunsStep, LeftStep
<1> QED BY <1>1, RunsStart, PTL DEF AnsibleSpec

\* AllOrNone: however rows, group and credentials change while a run prepares, it begins with
\* every machine it was asked for or not at all.
THEOREM RunsReachAllOrNone == AnsibleSpec => []AllOrNone
<1>1. RunsInv => AllOrNone
  BY DEF RunsInv, SoundRun, AllOrNone
<1> QED BY <1>1, RunsAlways, PTL

\* SecretsApart: an answer that is secret by the survey of the submission or by that of the start
\* is never in the file of variables.
THEOREM SecretsStayApart == AnsibleSpec => []SecretsApart
<1>1. RunsInv => SecretsApart
  BY DEF RunsInv, SoundRun, SecretsApart
<1> QED BY <1>1, RunsAlways, PTL

\* NothingOutlives: a run whose executor has returned has no process that holds its output and no
\* directory, unless the process died over it or the removal failed; its row may have ended before.
THEOREM NothingIsLeft == AnsibleSpec => []NothingOutlives
<1>1. LeftInv => NothingOutlives
  BY DEF LeftInv, NothingOutlives
<1> QED BY <1>1, RunsAlways, PTL

(***************************************************************************)
(* The platform's key                                                      *)
(***************************************************************************)
\* What was sent stays sent.
Keeps == \A h \in Hosts : \A u : SentTo(h, u) => SentTo(h, u)'
LEMMA Untouched == ASSUME UNCHANGED <<keyed, unsure>> PROVE Keeps /\ \A h, u : SentTo(h, u) => SentTo(h, u)'
BY DEF Keeps, SentTo

\* A step that concerns neither machines nor distributions; requests are only used up.
LEMMA KeyKept ==
  ASSUME KeyInv, UNCHANGED <<box, keyed, unsure, dealer>>, jobs' \subseteq jobs
  PROVE  KeyInv'
<1>1. Marked' /\ \A k \in Dealers : Pending(k)'
  BY Untouched DEF KeyInv, Marked, Pending
<1> QED BY <1>1 DEF KeyInv

\* A distribution that changes, with what was sent.
LEMMA DealerMoves ==
  ASSUME KeyInv, NEW k \in Dealers, NEW d, dealer' = [dealer EXCEPT ![k] = d],
         DOMAIN d = {"at", "todo", "host", "user"}, box' = box, jobs' \subseteq jobs,
         DOMAIN keyed' = Hosts, Keeps,
         d.at = "mark" => d.host \in Hosts /\ \A h, u : h = d.host /\ u = d.user => SentTo(h, u)',
         \A item \in d.todo : item.host \in Hosts,
         \A q \in jobs : q.op = "born" => /\ d.at = "mark" => d.host # q.host
                                          /\ \A item \in d.todo : item.host # q.host
  PROVE  KeyInv'
<1>1. DOMAIN dealer' = Dealers /\ dealer'[k] = d /\ \A j \in Dealers : j # k => dealer'[j] = dealer[j]
  BY DEF KeyInv
<1>2. Marked'
  BY DEF KeyInv, Marked, Keeps
<1>3. \A j \in Dealers : DOMAIN dealer'[j] = {"at", "todo", "host", "user"} /\ \A item \in dealer'[j].todo : item.host \in Hosts
  BY <1>1 DEF KeyInv
<1>4. \A q \in jobs' : q.op = "born" =>
        \A j \in Dealers : /\ dealer'[j].at = "mark" => dealer'[j].host # q.host
                           /\ \A item \in dealer'[j].todo : item.host # q.host
  BY <1>1 DEF KeyInv
<1>5. \A q \in jobs' : q.op = "born" =>
        /\ q.host \in Hosts /\ ~box[q.host].there
        /\ \A p \in jobs' : p.op = "born" /\ p.host = q.host => p = q
  BY DEF KeyInv
<1>6. DOMAIN box' = Hosts /\ \A h \in Hosts : DOMAIN box'[h] = BoxFields
  BY DEF KeyInv
<1>7. \A j \in Dealers : Pending(j)'
  BY <1>1 DEF KeyInv, Keeps, Pending
<1> QED BY <1>1, <1>2, <1>3, <1>4, <1>5, <1>6, <1>7 DEF KeyInv

\* A distribution takes up machines that are there.
LEMMA DeployKeeps == ASSUME KeyInv, NEW k \in Dealers, DeployKey(k) PROVE KeyInv'
<1>1. UNCHANGED <<box, keyed, unsure>> /\ jobs' \subseteq jobs
  BY DEF DeployKey, Takes, machinesOf
<1> DEFINE todo(q) == {h \in Hosts : box[h].there /\ ~box[h].ready /\ (q.hosts # {} => h \in q.hosts) /\ box[h].cred # {}}
           items(q) == {[host |-> h, cred |-> box[h].cred] : h \in todo(q)}
<1>2. \/ dealer' = dealer
      \/ \E q : dealer' = [dealer EXCEPT ![k] = [NoDeal EXCEPT !.at = "next", !.todo = items(q)]]
  BY DEF DeployKey
<1>3. ASSUME NEW q PROVE \A item \in items(q) : item.host \in Hosts /\ box[item.host].there
  OBVIOUS
<1> HIDE DEF items
<1>4. CASE dealer' = dealer
  BY <1>1, <1>4, KeyKept
<1>5. CASE dealer' # dealer
  <2>1. PICK q : dealer' = [dealer EXCEPT ![k] = [NoDeal EXCEPT !.at = "next", !.todo = items(q)]]
    BY <1>2, <1>5
  <2> DEFINE d == [NoDeal EXCEPT !.at = "next", !.todo = items(q)]
  <2>2. DOMAIN d = {"at", "todo", "host", "user"} /\ d.at # "mark" /\ d.todo = items(q)
    BY DEF NoDeal
  <2>3. dealer' = [dealer EXCEPT ![k] = d]
    BY <2>1
  <2> HIDE DEF d
  <2>4. \A p \in jobs : p.op = "born" => \A item \in d.todo : item.host # p.host
    BY <1>3, <2>2 DEF KeyInv
  <2>5. DOMAIN keyed' = Hosts /\ Keeps
    BY <1>1, Untouched DEF KeyInv
  <2> QED BY <1>1, <1>3, <2>2, <2>3, <2>4, <2>5, DealerMoves
<1> QED BY <1>4, <1>5

\* The key was sent before the mark is due.
LEMMA InjectKeeps == ASSUME KeyInv, NEW k \in Dealers, Inject(k) PROVE KeyInv'
<1>1. box' = box /\ jobs' \subseteq jobs /\ dealer[k].at = "next"
  BY DEF Inject, machinesOf
<1>2. PICK item \in dealer[k].todo : \E c \in item.cred :
        \/ /\ DueToMark(k, item, c)
           /\ \/ keyed' = [keyed EXCEPT ![item.host] = @ \cup {c.user}] /\ unsure' = unsure
              \/ keyed' = keyed /\ unsure' = unsure \cup {[why |-> "append", host |-> item.host, user |-> c.user]}
        \/ dealer' = [dealer EXCEPT ![k].todo = @ \ {item}] /\ UNCHANGED <<keyed, unsure>>
  BY DEF Inject
<1> PICK c \in item.cred :
        \/ /\ DueToMark(k, item, c)
           /\ \/ keyed' = [keyed EXCEPT ![item.host] = @ \cup {c.user}] /\ unsure' = unsure
              \/ keyed' = keyed /\ unsure' = unsure \cup {[why |-> "append", host |-> item.host, user |-> c.user]}
        \/ dealer' = [dealer EXCEPT ![k].todo = @ \ {item}] /\ UNCHANGED <<keyed, unsure>>
  BY <1>2
<1>3. /\ item.host \in Hosts /\ DOMAIN dealer[k] = {"at", "todo", "host", "user"}
      /\ \A q \in jobs : q.op = "born" => item.host # q.host
      /\ \A i \in dealer[k].todo : i.host \in Hosts
      /\ \A q \in jobs : q.op = "born" => \A i \in dealer[k].todo : i.host # q.host
      /\ DOMAIN keyed = Hosts
  BY DEF KeyInv
<1>4. CASE /\ DueToMark(k, item, c)
           /\ \/ keyed' = [keyed EXCEPT ![item.host] = @ \cup {c.user}] /\ unsure' = unsure
              \/ keyed' = keyed /\ unsure' = unsure \cup {[why |-> "append", host |-> item.host, user |-> c.user]}
  <2> DEFINE d == [dealer[k] EXCEPT !.at = "mark", !.todo = @ \ {item}, !.host = item.host,
                                    !.user = c.user]
  <2>1. /\ DOMAIN d = {"at", "todo", "host", "user"} /\ d.host = item.host /\ d.user = c.user
        /\ d.todo \subseteq dealer[k].todo
    BY <1>3
  <2>2. dealer' = [dealer EXCEPT ![k] = d]
    BY <1>4 DEF DueToMark
  <2> HIDE DEF d
  <2>3. PICK h, u : h = item.host /\ u = c.user
    OBVIOUS
  <2>4. DOMAIN keyed' = Hosts /\ Keeps /\ SentTo(h, u)'
    <3>1. CASE keyed' = [keyed EXCEPT ![item.host] = @ \cup {c.user}] /\ unsure' = unsure
      <4>1. /\ DOMAIN keyed' = Hosts /\ \A i \in Hosts : keyed[i] \subseteq keyed'[i]
            /\ u \in keyed'[h]
        BY <1>3, <2>3, <3>1
      <4> QED BY <3>1, <4>1 DEF Keeps, SentTo
    <3>2. CASE keyed' = keyed /\ unsure' = unsure \cup {[why |-> "append", host |-> item.host, user |-> c.user]}
      <4> DEFINE new == [why |-> "append", host |-> item.host, user |-> c.user]
      <4>1. new \in unsure' /\ new.host = h /\ new.user = u /\ unsure \subseteq unsure'
        BY <2>3, <3>2
      <4> HIDE DEF new
      <4> QED BY <1>3, <3>2, <4>1 DEF Keeps, SentTo
    <3> QED BY <1>4, <3>1, <3>2
  <2>5. d.host \in Hosts /\ \A i, v : i = d.host /\ v = d.user => SentTo(i, v)'
    BY <1>3, <2>1, <2>3, <2>4
  <2>6. \A i \in d.todo : i.host \in Hosts
    BY <1>3, <2>1
  <2>7. \A q \in jobs : q.op = "born" => d.host # q.host /\ \A i \in d.todo : i.host # q.host
    BY <1>3, <2>1
  <2> QED BY <1>1, <2>1, <2>2, <2>4, <2>5, <2>6, <2>7, DealerMoves
<1>5. CASE dealer' = [dealer EXCEPT ![k].todo = @ \ {item}] /\ UNCHANGED <<keyed, unsure>>
  <2> DEFINE d == [dealer[k] EXCEPT !.todo = @ \ {item}]
  <2>1. /\ DOMAIN d = {"at", "todo", "host", "user"} /\ d.at # "mark"
        /\ d.todo \subseteq dealer[k].todo
    BY <1>1, <1>3
  <2>2. dealer' = [dealer EXCEPT ![k] = d]
    BY <1>5 DEF KeyInv
  <2> HIDE DEF d
  <2>3. DOMAIN keyed' = Hosts /\ Keeps
    BY <1>3, <1>5, Untouched
  <2>4. /\ \A i \in d.todo : i.host \in Hosts
        /\ \A q \in jobs : q.op = "born" => \A i \in d.todo : i.host # q.host
    BY <1>3, <2>1
  <2> QED BY <1>1, <2>1, <2>2, <2>3, <2>4, DealerMoves
<1> QED BY <1>4, <1>5

\* A distribution that is over, or goes on.
LEMMA DealtKeeps == ASSUME KeyInv, NEW k \in Dealers, Dealt(k) PROVE KeyInv'
<1>1. /\ UNCHANGED <<box, keyed, unsure>> /\ jobs' \subseteq jobs
      /\ dealer' = [dealer EXCEPT ![k] = NoDeal]
  BY DEF Dealt, machinesOf, keys
<1>2. DOMAIN NoDeal = {"at", "todo", "host", "user"} /\ NoDeal.at # "mark" /\ NoDeal.todo = {}
  BY DEF NoDeal
<1>3. DOMAIN keyed' = Hosts /\ Keeps
  BY <1>1, Untouched DEF KeyInv
<1> QED BY <1>1, <1>2, <1>3, DealerMoves

\* A machine changes, with what was sent to it and without becoming one that is still to be made.
LEMMA BoxMoves ==
  ASSUME KeyInv, NEW h \in Hosts, NEW b, box' = [box EXCEPT ![h] = b], DOMAIN b = BoxFields,
         DOMAIN keyed' = Hosts, Keeps, dealer' = dealer, jobs' \subseteq jobs,
         \A u : b.ready /\ b.user = u => SentTo(h, u), b.there => box[h].there
  PROVE  KeyInv'
<1>1. DOMAIN box' = Hosts /\ box'[h] = b /\ \A i \in Hosts : i # h => box'[i] = box[i]
  BY DEF KeyInv
<1>2. \A i \in Hosts : DOMAIN box'[i] = BoxFields /\ (box'[i].there => box[i].there)
  BY <1>1 DEF KeyInv
<1>3. Marked'
  BY <1>1 DEF KeyInv, Marked, Keeps
<1>4. \A k \in Dealers : Pending(k)'
  BY DEF KeyInv, Pending, Keeps
<1> QED BY <1>1, <1>2, <1>3, <1>4 DEF KeyInv

\* The mark follows the key.
LEMMA MarkKeeps == ASSUME KeyInv, NEW k \in Dealers, Mark(k) PROVE KeyInv'
<1> DEFINE d == dealer[k]
           e == [NoDeal EXCEPT !.at = "next", !.todo = d.todo]
<1>1. /\ d.at = "mark" /\ dealer' = [dealer EXCEPT ![k] = e]
      /\ UNCHANGED <<keyed, unsure>> /\ jobs' = jobs
      /\ \/ box' = box
         \/ box[d.host].there /\ box' = [box EXCEPT ![d.host].ready = TRUE, ![d.host].user = d.user]
  BY DEF Mark, keys
<1>2. DOMAIN e = {"at", "todo", "host", "user"} /\ e.at # "mark" /\ e.todo = d.todo
  BY DEF NoDeal
<1> HIDE DEF e
<1>3. /\ d.host \in Hosts /\ DOMAIN box[d.host] = BoxFields
      /\ \A h, u : h = d.host /\ u = d.user => SentTo(h, u)
      /\ \A i \in d.todo : i.host \in Hosts
      /\ \A q \in jobs : q.op = "born" => \A i \in d.todo : i.host # q.host
  BY <1>1 DEF KeyInv, Pending
<1>4. /\ DOMAIN dealer' = Dealers /\ dealer'[k] = e
      /\ \A j \in Dealers : j # k => dealer'[j] = dealer[j]
  BY <1>1 DEF KeyInv
<1>5. /\ DOMAIN box' = Hosts
      /\ \A h \in Hosts : /\ DOMAIN box'[h] = BoxFields /\ box'[h].there = box[h].there
                          /\ \A u : box'[h].ready /\ box'[h].user = u => SentTo(h, u)
  <2>1. CASE box' = box
    BY <2>1 DEF KeyInv, Marked
  <2>2. CASE box' = [box EXCEPT ![d.host].ready = TRUE, ![d.host].user = d.user]
    <3> DEFINE b == [box[d.host] EXCEPT !.ready = TRUE, !.user = d.user]
    <3>1. DOMAIN b = BoxFields /\ b.there = box[d.host].there /\ b.user = d.user
      BY <1>3 DEF BoxFields
    <3>2. box' = [box EXCEPT ![d.host] = b]
      BY <2>2 DEF KeyInv
    <3> HIDE DEF b
    <3> QED BY <1>3, <3>1, <3>2 DEF KeyInv, Marked
  <2> QED BY <1>1, <2>1, <2>2
<1>6. Marked'
  BY <1>1, <1>5, Untouched DEF Marked
<1>7. \A j \in Dealers :
        /\ DOMAIN dealer'[j] = {"at", "todo", "host", "user"}
        /\ \A item \in dealer'[j].todo : item.host \in Hosts
  BY <1>2, <1>3, <1>4 DEF KeyInv
<1>8. \A j \in Dealers : Pending(j)'
  BY <1>1, <1>2, <1>4, Untouched DEF KeyInv, Pending
<1>9. \A q \in jobs : q.op = "born" =>
        \A j \in Dealers : /\ dealer'[j].at = "mark" => dealer'[j].host # q.host
                           /\ \A item \in dealer'[j].todo : item.host # q.host
  BY <1>2, <1>3, <1>4 DEF KeyInv
<1>10. \A q \in jobs : q.op = "born" =>
        /\ q.host \in Hosts /\ ~box'[q.host].there
        /\ \A p \in jobs : p.op = "born" /\ p.host = q.host => p = q
  BY <1>5 DEF KeyInv
<1>11. DOMAIN keyed' = Hosts
  BY <1>1 DEF KeyInv
<1> QED BY <1>1, <1>4, <1>5, <1>6, <1>7, <1>8, <1>9, <1>10, <1>11 DEF KeyInv

\* The row of a new machine is written with a mark when the key is in its seed.
LEMMA BornKeeps == ASSUME KeyInv, Born PROVE KeyInv'
<1>1. PICK q \in jobs :
        /\ q.op = "born" /\ jobs' = jobs \ {q} /\ dealer' = dealer /\ keyed' = keyed
        /\ \/ /\ NewRow(q, KeyHolds)
              /\ unsure' = IF KeyHolds THEN unsure \cup {[why |-> "seed", host |-> q.host, user |-> q.user]} ELSE unsure
           \/ NewRow(q, FALSE) /\ unsure' = unsure
  BY DEF Born, Job, Takes
<1> PICK h, u : h = q.host /\ u = q.user
  OBVIOUS
<1>2. /\ h \in Hosts /\ DOMAIN keyed' = Hosts
      /\ \A p \in jobs' : p.op = "born" => p.host # h
      /\ \A k \in Dealers : /\ dealer[k].at = "mark" => dealer[k].host # h
                            /\ \A item \in dealer[k].todo : item.host # h
  BY <1>1 DEF KeyInv
<1> DEFINE b(r) == [there |-> TRUE, up |-> FALSE, ready |-> r, user |-> u, cred |-> {}]
<1>3. ASSUME NEW r PROVE DOMAIN b(r) = BoxFields /\ b(r).ready = r /\ b(r).user = u
  BY DEF BoxFields
<1>4. \/ box' = [box EXCEPT ![h] = b(FALSE)] /\ unsure' = unsure
      \/ box' = [box EXCEPT ![h] = b(TRUE)] /\ \E s : s.host = h /\ s.user = u /\ unsure' = unsure \cup {s}
  <2>1. KeyHolds \in BOOLEAN
    BY DEF KeyHolds
  <2>2. CASE NewRow(q, FALSE) /\ unsure' = unsure
    BY <2>2 DEF NewRow
  <2>3. CASE ~KeyHolds /\ NewRow(q, KeyHolds) /\ unsure' = unsure
    <3>1. KeyHolds = FALSE
      BY <2>1, <2>3
    <3> HIDE DEF KeyHolds
    <3> QED BY <2>3, <3>1 DEF NewRow
  <2>4. CASE KeyHolds /\ NewRow(q, KeyHolds)
    <3>1. KeyHolds = TRUE
      BY <2>1, <2>4
    <3> DEFINE s == [why |-> "seed", host |-> h, user |-> u]
    <3>2. s.host = h /\ s.user = u
      OBVIOUS
    <3>3. CASE unsure' = unsure \cup {s}
      <4>1. box' = [box EXCEPT ![h] = b(TRUE)]
        <5> HIDE DEF KeyHolds
        <5> QED BY <2>4, <3>1 DEF NewRow
      <4> HIDE DEF s, b
      <4> QED BY <3>2, <3>3, <4>1
    <3>4. CASE unsure' # unsure \cup {s}
      <4>1. NewRow(q, FALSE) /\ unsure' = unsure
        <5> HIDE DEF KeyHolds
        <5> QED BY <1>1, <2>4, <3>4
      <4> QED BY <2>2, <4>1
    <3> QED BY <3>3, <3>4
  <2>5. CASE ~KeyHolds /\ ~(NewRow(q, KeyHolds) /\ unsure' = unsure)
    <3>1. NewRow(q, FALSE) /\ unsure' = unsure
      <4> HIDE DEF KeyHolds
      <4> QED BY <1>1, <2>5
    <3> QED BY <2>2, <3>1
  <2>6. CASE KeyHolds /\ ~NewRow(q, KeyHolds)
    <3>1. NewRow(q, FALSE) /\ unsure' = unsure
      <4> HIDE DEF KeyHolds
      <4> QED BY <1>1, <2>6
    <3> QED BY <2>2, <3>1
  <2> HIDE DEF KeyHolds
  <2> QED BY <2>3, <2>4, <2>5, <2>6
<1> HIDE DEF b
<1>5. /\ Keeps
      /\ \A i, v : SentTo(i, v) => SentTo(i, v)'
      /\ box' = [box EXCEPT ![h] = b(TRUE)] => box' = [box EXCEPT ![h] = b(FALSE)] \/ SentTo(h, u)'
  BY <1>1, <1>4 DEF Keeps, SentTo
<1>6. /\ DOMAIN box' = Hosts /\ \A i \in Hosts : i # h => box'[i] = box[i]
      /\ DOMAIN box'[h] = BoxFields /\ box'[h].user = u /\ (box'[h].ready => SentTo(h, u)')
  <2>1. DOMAIN box = Hosts
    BY DEF KeyInv
  <2>2. CASE box' = [box EXCEPT ![h] = b(FALSE)]
    <3>1. /\ DOMAIN box' = Hosts /\ \A i \in Hosts : i # h => box'[i] = box[i]
          /\ box'[h] = b(FALSE)
      BY <1>2, <2>1, <2>2
    <3> QED BY <1>3, <3>1
  <2>3. CASE box' = [box EXCEPT ![h] = b(TRUE)] /\ SentTo(h, u)'
    <3>1. /\ DOMAIN box' = Hosts /\ \A i \in Hosts : i # h => box'[i] = box[i]
          /\ box'[h] = b(TRUE)
      BY <1>2, <2>1, <2>3
    <3> QED BY <1>3, <2>3, <3>1
  <2> QED BY <1>4, <1>5, <2>2, <2>3
<1>7. Marked'
  BY <1>5, <1>6 DEF KeyInv, Marked
<1>8. \A k \in Dealers : Pending(k)'
  BY <1>1, <1>5 DEF KeyInv, Pending
<1>9. \A p \in jobs' : p.op = "born" =>
       /\ p.host \in Hosts /\ ~box'[p.host].there
       /\ \A o \in jobs' : o.op = "born" /\ o.host = p.host => o = p
       /\ \A k \in Dealers : /\ dealer[k].at = "mark" => dealer[k].host # p.host
                             /\ \A item \in dealer[k].todo : item.host # p.host
  BY <1>1, <1>2, <1>6 DEF KeyInv
<1>10. \A i \in Hosts : DOMAIN box'[i] = BoxFields
  BY <1>6 DEF KeyInv
<1> QED BY <1>1, <1>2, <1>6, <1>7, <1>8, <1>9, <1>10 DEF KeyInv

\* cloud-init puts the key where it was announced; or the row goes again.
LEMMA BootKeeps == ASSUME KeyInv, FirstBoot PROVE KeyInv'
<1>1. PICK s \in unsure :
        /\ box[s.host].there
        /\ \/ /\ keyed' = [keyed EXCEPT ![s.host] = @ \cup {s.user}] /\ unsure' = unsure \ {s}
              /\ box' = [box EXCEPT ![s.host].up = TRUE]
           \/ /\ box' = [box EXCEPT ![s.host] = [@ EXCEPT !.there = FALSE, !.cred = {}]]
              /\ UNCHANGED <<keyed, unsure>>
        /\ UNCHANGED <<dealer, jobs>>
  BY DEF FirstBoot
<1> PICK h : h = s.host
  OBVIOUS
<1>2. DOMAIN keyed' = Hosts /\ Keeps
  <2>1. CASE UNCHANGED <<keyed, unsure>>
    BY <2>1, Untouched DEF KeyInv
  <2>2. CASE keyed' = [keyed EXCEPT ![h] = @ \cup {s.user}] /\ unsure' = unsure \ {s}
    <3>1. /\ DOMAIN keyed' = Hosts /\ \A i \in Hosts : keyed[i] \subseteq keyed'[i]
          /\ h \in Hosts => s.user \in keyed'[h]
      BY <2>2 DEF KeyInv
    <3>2. ASSUME NEW i \in Hosts, NEW u, SentTo(i, u) PROVE SentTo(i, u)'
      <4>1. CASE u \in keyed[i]
        BY <3>1, <4>1 DEF SentTo
      <4>2. CASE u \notin keyed[i]
        <5>1. PICK a \in unsure : a.host = i /\ a.user = u
          BY <3>2, <4>2 DEF SentTo
        <5>2. CASE a = s
          BY <3>1, <5>1, <5>2 DEF SentTo
        <5>3. CASE a # s
          BY <2>2, <5>1, <5>3 DEF SentTo
        <5> QED BY <5>2, <5>3
      <4> QED BY <4>1, <4>2
    <3> QED BY <3>1, <3>2 DEF Keeps
  <2> QED BY <1>1, <2>1, <2>2
<1>3. CASE h \notin Hosts
  <2>1. DOMAIN box' = Hosts /\ \A i \in Hosts : box'[i] = box[i]
    BY <1>1, <1>3 DEF KeyInv
  <2>2. Marked' /\ \A k \in Dealers : Pending(k)'
    BY <1>1, <1>2, <2>1 DEF KeyInv, Marked, Pending, Keeps
  <2> QED BY <1>1, <1>2, <2>1, <2>2 DEF KeyInv
<1>4. CASE h \in Hosts
  <2>1. DOMAIN box[h] = BoxFields /\ \A u : box[h].ready /\ box[h].user = u => SentTo(h, u)
    BY <1>4 DEF KeyInv, Marked
  <2>2. CASE box' = [box EXCEPT ![h].up = TRUE]
    <3> DEFINE b == [box[h] EXCEPT !.up = TRUE]
    <3>1. /\ DOMAIN b = BoxFields /\ b.ready = box[h].ready /\ b.user = box[h].user
          /\ b.there = box[h].there
      BY <2>1 DEF BoxFields
    <3>2. box' = [box EXCEPT ![h] = b]
      BY <2>2 DEF KeyInv
    <3> HIDE DEF b
    <3>3. (\A u : b.ready /\ b.user = u => SentTo(h, u)) /\ (b.there => box[h].there)
      BY <2>1, <3>1
    <3>4. DOMAIN b = BoxFields /\ dealer' = dealer /\ jobs' \subseteq jobs /\ h \in Hosts
          /\ DOMAIN keyed' = Hosts /\ Keeps
      BY <1>1, <1>2, <1>4, <3>1
    <3> QED BY <3>2, <3>3, <3>4, BoxMoves
  <2>3. CASE box' = [box EXCEPT ![h] = [@ EXCEPT !.there = FALSE, !.cred = {}]]
    <3> DEFINE b == [box[h] EXCEPT !.there = FALSE, !.cred = {}]
    <3>1. /\ DOMAIN b = BoxFields /\ b.ready = box[h].ready /\ b.user = box[h].user
          /\ ~b.there
      BY <2>1 DEF BoxFields
    <3>2. box' = [box EXCEPT ![h] = b]
      BY <2>3 DEF KeyInv
    <3> HIDE DEF b
    <3>3. (\A u : b.ready /\ b.user = u => SentTo(h, u)) /\ (b.there => box[h].there)
      BY <2>1, <3>1
    <3>4. DOMAIN b = BoxFields /\ dealer' = dealer /\ jobs' \subseteq jobs /\ h \in Hosts
          /\ DOMAIN keyed' = Hosts /\ Keeps
      BY <1>1, <1>2, <1>4, <3>1
    <3> QED BY <3>2, <3>3, <3>4, BoxMoves
  <2> QED BY <1>1, <2>2, <2>3
<1> QED BY <1>3, <1>4

\* What others do to a machine leaves its key.
LEMMA OutsideKeeps == ASSUME KeyInv, Outside PROVE KeyInv'
<1>1. PICK q \in jobs :
        /\ q.op \in {"power", "gone", "credential", "team"} /\ jobs' \subseteq jobs
        /\ box' = CASE q.op = "power" -> [box EXCEPT ![q.host].up = ~@]
                    [] q.op = "gone" -> [box EXCEPT ![q.host] = [@ EXCEPT !.there = FALSE, !.cred = {}]]
                    [] q.op = "credential" ->
                         IF box[q.host].there THEN [box EXCEPT ![q.host].cred = q.cred] ELSE box
                    [] OTHER -> box
        /\ UNCHANGED <<keyed, unsure, dealer>>
  BY DEF Outside, Job, Takes, keys
<1> PICK h : h = q.host
  OBVIOUS
<1>4. DOMAIN keyed' = Hosts /\ Keeps
  BY <1>1, Untouched DEF KeyInv
<1>2. CASE box' = box \/ h \notin Hosts
  <2>1. DOMAIN box' = Hosts /\ \A i \in Hosts : box'[i] = box[i]
    BY <1>1, <1>2 DEF KeyInv
  <2>2. Marked'
    BY <1>4, <2>1 DEF KeyInv, Marked, Keeps
  <2>3. \A k \in Dealers : Pending(k)'
    BY <1>1, <1>4 DEF KeyInv, Pending, Keeps
  <2> QED BY <1>1, <1>4, <2>1, <2>2, <2>3 DEF KeyInv
<1>3. CASE box' # box /\ h \in Hosts
  <2>1. DOMAIN box[h] = BoxFields /\ \A u : box[h].ready /\ box[h].user = u => SentTo(h, u)
    BY <1>3 DEF KeyInv, Marked
  <2>2. CASE q.op = "power"
    <3> DEFINE b == [box[h] EXCEPT !.up = ~@]
    <3>1. /\ DOMAIN b = BoxFields /\ b.ready = box[h].ready /\ b.user = box[h].user
          /\ b.there = box[h].there
      BY <2>1 DEF BoxFields
    <3>2. box' = [box EXCEPT ![h] = b]
      BY <1>1, <1>3, <2>2 DEF KeyInv
    <3> HIDE DEF b
    <3>3. (\A u : b.ready /\ b.user = u => SentTo(h, u)) /\ (b.there => box[h].there)
      BY <2>1, <3>1
    <3>4. DOMAIN b = BoxFields /\ dealer' = dealer /\ jobs' \subseteq jobs /\ h \in Hosts
          /\ DOMAIN keyed' = Hosts /\ Keeps
      BY <1>1, <1>3, <1>4, <3>1
    <3> QED BY <3>2, <3>3, <3>4, BoxMoves
  <2>3. CASE q.op = "gone"
    <3> DEFINE b == [box[h] EXCEPT !.there = FALSE, !.cred = {}]
    <3>1. /\ DOMAIN b = BoxFields /\ b.ready = box[h].ready /\ b.user = box[h].user
          /\ ~b.there
      BY <2>1 DEF BoxFields
    <3>2. box' = [box EXCEPT ![h] = b]
      BY <1>1, <1>3, <2>3 DEF KeyInv
    <3> HIDE DEF b
    <3>3. (\A u : b.ready /\ b.user = u => SentTo(h, u)) /\ (b.there => box[h].there)
      BY <2>1, <3>1
    <3>4. DOMAIN b = BoxFields /\ dealer' = dealer /\ jobs' \subseteq jobs /\ h \in Hosts
          /\ DOMAIN keyed' = Hosts /\ Keeps
      BY <1>1, <1>3, <1>4, <3>1
    <3> QED BY <3>2, <3>3, <3>4, BoxMoves
  <2>4. CASE q.op = "credential"
    <3> DEFINE b == [box[h] EXCEPT !.cred = q.cred]
    <3>1. /\ DOMAIN b = BoxFields /\ b.ready = box[h].ready /\ b.user = box[h].user
          /\ b.there = box[h].there
      BY <2>1 DEF BoxFields
    <3>2. box' = [box EXCEPT ![h] = b]
      BY <1>1, <1>3, <2>4 DEF KeyInv
    <3> HIDE DEF b
    <3>3. (\A u : b.ready /\ b.user = u => SentTo(h, u)) /\ (b.there => box[h].there)
      BY <2>1, <3>1
    <3>4. DOMAIN b = BoxFields /\ dealer' = dealer /\ jobs' \subseteq jobs /\ h \in Hosts
          /\ DOMAIN keyed' = Hosts /\ Keeps
      BY <1>1, <1>3, <1>4, <3>1
    <3> QED BY <3>2, <3>3, <3>4, BoxMoves
  <2> QED BY <1>1, <1>3, <2>2, <2>3, <2>4
<1> QED BY <1>2, <1>3

\* When the process dies, distributions are forgotten.
LEMMA CrashKeeps == ASSUME KeyInv, AnsibleStops PROVE KeyInv'
<1>1. /\ UNCHANGED <<box, keyed, unsure>> /\ jobs' \subseteq jobs
      /\ dealer' = [k \in Dealers |-> NoDeal]
  BY DEF AnsibleStops, Takes, machinesOf
<1>2. DOMAIN NoDeal = {"at", "todo", "host", "user"} /\ NoDeal.at # "mark" /\ NoDeal.todo = {}
  BY DEF NoDeal
<1>3. Marked' /\ \A k \in Dealers : Pending(k)'
  BY <1>1, <1>2, Untouched DEF KeyInv, Marked, Pending
<1> QED BY <1>1, <1>2, <1>3 DEF KeyInv

\* Every step keeps the key where it is marked.
LEMMA KeyStep == ASSUME KeyInv, [AnsibleNext]_ansibleVars PROVE KeyInv'
<1>1. ASSUME NEW k \in Dealers, DeployKey(k) \/ Inject(k) \/ Mark(k) \/ Dealt(k) PROVE KeyInv'
  BY <1>1, DeployKeeps, InjectKeeps, MarkKeeps, DealtKeeps
<1>2. CASE Born \/ FirstBoot
  BY <1>2, BornKeeps, BootKeeps
<1>3. CASE Outside
  BY <1>3, OutsideKeeps
<1>4. CASE AnsibleStops
  BY <1>4, CrashKeeps
<1>5. CASE \E k \in Editors : OpenEditor(k) \/ ExportAnsible(k) \/ Truncate(k) \/ Fill(k)
  BY <1>5, KeyKept DEF OpenEditor, ExportAnsible, Truncate, Fill, machinesOf, keys, Takes
<1>6. CASE DeletePlaybook \/ PutFile \/ DropFile \/ RoleOps \/ AnsibleStarts
  BY <1>6, KeyKept DEF DeletePlaybook, PutFile, DropFile, RoleOps, AnsibleStarts, machinesOf,
     keys, Takes
<1>7. ASSUME NEW r \in Runs, \/ SubmitRun(r) \/ Gather(r) \/ Channel(r) \/ Prepare(r)
                             \/ Launch(r) \/ Forks(r) \/ ProcessEnds(r) \/ GivesUp(r)
                             \/ Cut(r) \/ KillRun(r) \/ RunEnds(r)
      PROVE  KeyInv'
  <2>1. UNCHANGED <<box, keyed, unsure, dealer>> /\ jobs' \subseteq jobs
    BY <1>7 DEF SubmitRun, Gather, Channel, Prepare, Launch, Forks, ProcessEnds, GivesUp, Cut, KillRun,
       RunEnds,       machinesOf, keys, Takes
  <2> QED BY <2>1, KeyKept
<1>8. CASE UNCHANGED ansibleVars
  BY <1>8, KeyKept DEF ansibleVars
<1> QED BY <1>1, <1>2, <1>3, <1>4, <1>5, <1>6, <1>7, <1>8 DEF AnsibleNext

\* At the start a machine that is marked has the key.
LEMMA KeyStart == ASSUME AnsibleInit PROVE KeyInv
<1>1. PICK mix \in AnsibleMixes :
        /\ box = mix.box /\ jobs = mix.jobs /\ dealer = [k \in Dealers |-> NoDeal]
        /\ keyed = [h \in Hosts |-> IF mix.box[h].ready THEN {mix.box[h].user} ELSE {}]
  BY DEF AnsibleInit
<1>2. DOMAIN NoDeal = {"at", "todo", "host", "user"} /\ NoDeal.at # "mark" /\ NoDeal.todo = {}
  BY DEF NoDeal
<1>3. Marked
  BY <1>1, MachineAssumption DEF Marked, SentTo
<1>4. \A k \in Dealers : Pending(k)
  BY <1>1, <1>2 DEF Pending
<1> QED BY <1>1, <1>2, <1>3, <1>4, MachineAssumption DEF KeyInv, BoxFields

\* KeyedWhereReady: distributions that overlap, fail half-way, meet another credential or a
\* machine that goes never leave a mark for an account to which the key was not sent.
THEOREM MarksHaveKeys == AnsibleSpec => []KeyedWhereReady
<1>1. KeyInv => KeyedWhereReady
  <2> SUFFICES ASSUME KeyInv, NEW h \in Hosts, box[h].ready PROVE SentTo(h, box[h].user)
    BY DEF KeyedWhereReady
  <2>1. PICK u : u = box[h].user
    OBVIOUS
  <2> QED BY <2>1 DEF KeyInv, Marked
<1> QED BY <1>1, KeyStart, KeyStep, PTL DEF AnsibleSpec

=============================================================================
