--------------------------- MODULE TaskLogProofs ---------------------------
(***************************************************************************)
(* Proofs about TaskLog: the windows of the log (append and flush of       *)
(* service/tasks/tasklog.go) and what a client of StreamLogs               *)
(* (handler/task.go) receives of it.                                       *)
(***************************************************************************)
EXTENDS TaskLog, TLAPS

(***************************************************************************)
(* The inductive invariant                                                 *)
(***************************************************************************)
Rising(s) == \A i, j \in 1 .. Len(s) : i < j => s[i] < s[j]
Has(s, n) == \E i \in 1 .. Len(s) : s[i] = n

\* A log: a window of consecutive lines, which begins with the first as long as none has had to
\* be dropped.
Fits(log, n) == /\ log \in Seq(Nat) /\ Window(log, n)
                /\ log # <<>> => log[1] >= 1 /\ (n <= MaxEntries => log[1] = 1)

LogsInv ==
  /\ seqno \in Nat /\ Fits(entries, seqno) /\ Fits(db, seqno)
  /\ seqno > 0 => entries # <<>> /\ entries[Len(entries)] = seqno
  /\ fdata \in [Flushers -> Seq(Nat)] /\ snap \in [Clients -> Seq(Nat)]
  /\ \A f \in Flushers : Fits(fdata[f], seqno)
  /\ \A c \in Clients : Fits(snap[c], seqno)

\* Every open channel has one party that will close it, and it is Close once there is no logger.
DoorsInv ==
  /\ subs \in SUBSET Clients /\ closing \in SUBSET Clients
  /\ cstate \in [Clients -> {"none", "open", "closed"}]
  /\ cpc \in [Clients -> {"new", "subscribe", "loop", "read", "leaving", "gone"}]
  /\ \A c \in Clients : cstate[c] = "open" <=> c \in subs \cup closing
  /\ closed \in BOOLEAN
  /\ closed <=> rpc \in {"flush", "chans", "late", "over"}
  /\ closed => subs = {}
  /\ closing # {} => rpc \in {"flush", "chans"}
  /\ apc \in [Appenders -> {"idle", "push", "dead"}]
  /\ apc["run"] = "push" => rpc \in {"exec", "status"}
  /\ \A c \in subs : cpc[c] \in {"loop", "read", "leaving"}
  /\ \A c \in Clients : cpc[c] \in {"new", "subscribe"} => cstate[c] = "none"
  /\ \A c \in Clients : cstate[c] = "closed" /\ cpc[c] \in {"loop", "read"} => closed

\* Lines under way: each belongs to one appender, and goes to clients that have a channel.
PushInv ==
  /\ aseq \in [Appenders -> Nat] /\ targets \in [Appenders -> SUBSET Clients]
  /\ \A a \in Appenders : apc[a] # "push" => targets[a] = {}
  /\ \A a \in Appenders : apc[a] = "push" => aseq[a] \in 1 .. seqno
  /\ \A a, b \in Appenders : apc[a] = "push" /\ apc[b] = "push" /\ a # b => aseq[a] # aseq[b]
  /\ \A a \in Appenders : \A c \in targets[a] : cstate[c] # "none"

\* What a client has is in order and its cursor the last line of it.
Kept(g, n) == /\ g \in Seq(Nat) /\ n \in Nat /\ Rising(g)
              /\ n = IF g = <<>> THEN 0 ELSE g[Len(g)]

\* The cursor is the last line received; a channel holds lines that have been numbered.
CursorInv ==
  /\ got \in [Clients -> Seq(Nat)] /\ since \in [Clients -> Nat] /\ chan \in [Clients -> Seq(Nat)]
  /\ \A c \in Clients : /\ Kept(got[c], since[c]) /\ since[c] <= seqno
                        /\ cstate[c] = "none" => chan[c] = <<>>
                        /\ \A i \in 1 .. Len(chan[c]) : chan[c][i] \in 1 .. seqno

\* Clients that have subscribed and not left.
Follows(c) == cstate[c] # "none" /\ cpc[c] \in {"loop", "read"}

\* A line the cursor has not reached is in the channel or about to be pushed, and the channel
\* is in order and older than what is about to be pushed.
Covered(c) ==
  /\ Rising(chan[c])
  /\ \A i \in 1 .. Len(chan[c]) : \A a \in Appenders : c \in targets[a] => chan[c][i] < aseq[a]
  /\ \A n \in since[c] + 1 .. seqno :
        Has(chan[c], n) \/ \E a \in Appenders : c \in targets[a] /\ aseq[a] = n

StreamInv ==
  Undisturbed =>
    \A c \in Clients :
      /\ got[c] = [i \in 1 .. since[c] |-> i]
      /\ Follows(c) => Covered(c)

\* A stream that ended with its channel is over, and has brought every line.
Ended(c) == closed /\ cstate[c] = "closed" /\ cpc[c] \in {"leaving", "gone"}

FinInv ==
  /\ fin \in [Clients -> {"no", "replay", "closed", "poll", "left"}]
  /\ \A c \in Clients :
       fin[c] = "closed" =>
         /\ Ended(c)
         /\ Undisturbed /\ (\A a \in Appenders : c \notin targets[a]) => since[c] = seqno

IInv == LogsInv /\ DoorsInv /\ PushInv /\ CursorInv /\ StreamInv /\ FinInv

(***************************************************************************)
(* Logs and what is sent of them                                           *)
(***************************************************************************)
\* Consecutive lines, the first of them 1 or later.
Steady(s) == /\ s \in Seq(Nat)
             /\ \A i \in 1 .. Len(s) : s[i] = s[1] + (i - 1) /\ s[1] >= 1

\* A log that fits is a row of consecutive lines (Trim, FlushTake).
LEMMA FitIsSteady ==
  ASSUME NEW log, NEW n \in Nat, Fits(log, n)
  PROVE  /\ Steady(log) /\ (log # <<>> => Len(log) \in Nat \ {0} /\ log[Len(log)] <= n)
         /\ log # <<>> /\ n <= MaxEntries => log[1] = 1
<1> USE BoundAssumption DEF Fits, Window
<1>1. log \in Seq(Nat) /\ Len(log) \in Nat  OBVIOUS
<1>2. CASE log = <<>>  BY <1>2 DEF Steady
<1>3. CASE log # <<>>
  <2>1. Len(log) >= 1  BY <1>1, <1>3
  <2>2. log[1] = log[Len(log)] - (Len(log) - 1)  BY <1>1, <2>1
  <2>3. log[1] \in Nat /\ log[Len(log)] \in Nat  BY <1>1, <2>1
  <2>4. \A i \in 1 .. Len(log) : log[i] = log[1] + (i - 1)  BY <1>1, <2>2, <2>3
  <2> QED  BY <1>1, <1>3, <2>1, <2>4 DEF Steady
<1> QED  BY <1>2, <1>3

\* The lines after a cursor begin at a place of the log (entriesSince).
LEMMA FirstAfterIs ==
  ASSUME NEW log, NEW n \in Nat, Steady(log)
  PROVE  /\ FirstAfter(log, n) \in 1 .. Len(log) + 1
         /\ \A i \in 1 .. Len(log) : log[i] > n <=> FirstAfter(log, n) <= i
<1> DEFINE P(k) == \A i \in 1 .. Len(log) : log[i] > n <=> k <= i
<1> SUFFICES \E k \in 1 .. Len(log) + 1 : P(k)
  BY DEF FirstAfter
<1>1. log \in Seq(Nat) /\ Len(log) \in Nat  BY DEF Steady
<1>2. CASE log = <<>>  BY <1>1, <1>2
<1>3. CASE log # <<>>
  <2>1. Len(log) >= 1 /\ log[1] \in Nat /\ log[1] >= 1  BY <1>1, <1>3 DEF Steady
  <2>2. PICK m \in Nat : m = log[1]  BY <2>1
  <2>3. PICK l \in Nat : l = Len(log) /\ l >= 1  BY <1>1, <2>1
  <2>4. \A i \in 1 .. l : log[i] = m + (i - 1)  BY <2>2, <2>3 DEF Steady
  <2>5. CASE m > n
    <3>1. P(1)  BY <2>3, <2>4, <2>5
    <3> QED  BY <3>1, <2>3
  <2>6. CASE m + (l - 1) <= n
    <3>1. P(l + 1)  BY <2>3, <2>4, <2>6
    <3> QED  BY <3>1, <2>3
  <2>7. CASE m <= n /\ m + (l - 1) > n
    <3>1. (n - m) + 2 \in 1 .. l + 1  BY <2>7
    <3>2. P((n - m) + 2)  BY <2>3, <2>4, <2>7
    <3> QED  BY <3>1, <3>2, <2>3
  <2> QED  BY <2>5, <2>6, <2>7
<1> QED  BY <1>2, <1>3

\* What is sent of a log is consecutive, new to the client, and reaches as far as the log does.
LEMMA AfterIs ==
  ASSUME NEW log, NEW n \in Nat, Steady(log)
  PROVE  /\ Steady(After(log, n))
         /\ After(log, n) = <<>> <=> (log = <<>> \/ log[Len(log)] <= n)
         /\ After(log, n) # <<>> =>
              /\ After(log, n)[1] > n
              /\ After(log, n)[Len(After(log, n))] = log[Len(log)]
              /\ log[1] <= n + 1 => After(log, n)[1] = n + 1
<1>1. log \in Seq(Nat) /\ Len(log) \in Nat  BY DEF Steady
<1>2. PICK l \in Nat : l = Len(log)  BY <1>1
<1>3. PICK k \in 1 .. l + 1 : k = FirstAfter(log, n)  BY <1>2, FirstAfterIs
<1>4. \A i \in 1 .. l : log[i] > n <=> k <= i  BY <1>2, <1>3, FirstAfterIs
<1>5. \A i \in 1 .. l : log[i] = log[1] + (i - 1) /\ log[1] >= 1 /\ log[i] \in Nat
  BY <1>1, <1>2 DEF Steady
<1>6. PICK b : b = After(log, n)  OBVIOUS
<1>7. b = SubSeq(log, k, l)  BY <1>2, <1>3, <1>6 DEF After
<1>8. b \in Seq(Nat) /\ Len(b) = (l - k) + 1 /\ \A i \in 1 .. (l - k) + 1 : b[i] = log[k + (i - 1)]
  BY <1>1, <1>2, <1>7
<1>9. CASE k = l + 1
  <2>1. b = <<>>  BY <1>8, <1>9
  <2>2. l = 0 \/ log[l] <= n  BY <1>4, <1>5, <1>9
  <2>3. Steady(b)  BY <2>1 DEF Steady
  <2> QED  BY <1>1, <1>2, <1>6, <2>1, <2>2, <2>3
<1>10. CASE k <= l
  <2>1. Len(b) >= 1 /\ b # <<>> /\ log # <<>>  BY <1>1, <1>2, <1>8, <1>10
  <2>2. log[l] > n /\ log[k] > n  BY <1>4, <1>10
  <2>a. ASSUME NEW i \in 1 .. Len(b)
        PROVE  b[i] = log[k + (i - 1)] /\ b[i] = log[1] + (k + (i - 1) - 1)
    <3>1. i \in 1 .. (l - k) + 1 /\ k + (i - 1) \in 1 .. l  BY <1>8, <1>10
    <3> QED  BY <3>1, <1>5, <1>8
  <2>3. b[1] = log[k] /\ b[Len(b)] = log[l]
    <3>1. 1 \in 1 .. Len(b) /\ Len(b) \in 1 .. Len(b) /\ Len(b) \in Nat  BY <1>8, <2>1
    <3>2. k + (1 - 1) = k /\ k + (Len(b) - 1) = l  BY <1>8, <1>10
    <3> QED  BY <2>a, <3>1, <3>2
  <2>b. log[1] \in Nat /\ log[1] >= 1  BY <1>5, <1>10
  <2>4. \A i \in 1 .. Len(b) : b[i] = b[1] + (i - 1)
    <3>1. 1 \in 1 .. Len(b)  BY <1>8, <2>1
    <3>2. b[1] = log[1] + (k - 1)  BY <2>a, <2>b, <3>1
    <3> QED  BY <2>a, <2>b, <3>2
  <2>c. b[1] >= 1  BY <2>3, <1>5, <1>10
  <2>5. Steady(b)  BY <1>8, <2>c, <2>4 DEF Steady
  <2>6. ASSUME log[1] <= n + 1  PROVE b[1] = n + 1
    <3>1. CASE k = 1
      <4>1. b[1] = log[1] /\ log[1] > n  BY <3>1, <2>2, <2>3
      <4> QED  BY <4>1, <2>6, <2>b
    <3>2. CASE k > 1
      <4>1. ~(log[k - 1] > n)  BY <1>4, <1>10, <3>2
      <4>2. log[k] = log[1] + (k - 1) /\ log[k - 1] = log[1] + (k - 2) /\ log[1] \in Nat
        BY <1>5, <1>10, <3>2
      <4> QED  BY <4>1, <4>2, <2>2, <2>3, <1>10, <3>2
    <3> QED  BY <3>1, <3>2
  <2>7. log[l] \in Nat  BY <1>5, <1>10
  <2> QED  BY <1>2, <1>6, <2>1, <2>2, <2>3, <2>5, <2>6, <2>7
<1> QED  BY <1>9, <1>10

\* A batch of newer lines keeps it so (StreamLogs, sendLogEntries).
LEMMA BatchKept ==
  ASSUME NEW g, NEW n, Kept(g, n), NEW b, Steady(b), b # <<>> => b[1] > n
  PROVE  /\ Kept(g \o b, CursorAfter(b, n)) /\ CursorAfter(b, n) >= n
         /\ g = [i \in 1 .. n |-> i] /\ (b # <<>> => b[1] = n + 1) =>
              g \o b = [i \in 1 .. CursorAfter(b, n) |-> i]
<1>1. g \in Seq(Nat) /\ Len(g) \in Nat /\ n \in Nat /\ b \in Seq(Nat) /\ Len(b) \in Nat
  BY DEF Kept, Steady
<1>2. CASE b = <<>>
  <2>1. g \o b = g /\ CursorAfter(b, n) = n  BY <1>1, <1>2 DEF CursorAfter
  <2> QED  BY <1>1, <1>2, <2>1
<1>3. CASE b # <<>>
  <2>1. PICK p \in Nat : p = Len(g)  BY <1>1
  <2>2. PICK q \in Nat : q = Len(b) /\ q >= 1  BY <1>1, <1>3
  <2>3. PICK f \in Nat : f = b[1] /\ f > n
    <3>1. b[1] \in Nat /\ b[1] > n  BY <1>1, <1>3, <2>2
    <3> QED  BY <3>1
  <2>4. \A i \in 1 .. q : b[i] = f + (i - 1)  BY <2>2, <2>3 DEF Steady
  <2>5. \A i \in 1 .. p : g[i] <= n /\ g[i] \in Nat  BY <1>1, <2>1 DEF Kept, Rising
  <2>6. PICK h : h = g \o b  OBVIOUS
  <2>7. h \in Seq(Nat) /\ Len(h) = p + q  BY <1>1, <2>1, <2>2, <2>6
  <2>8. \A i \in 1 .. p : h[i] = g[i]  BY <1>1, <2>1, <2>2, <2>6
  <2>9. \A i \in p + 1 .. p + q : h[i] = f + (i - p - 1)
    <3> SUFFICES ASSUME NEW i \in p + 1 .. p + q  PROVE h[i] = f + (i - p - 1)
      OBVIOUS
    <3>1. i - p \in 1 .. q /\ i \in 1 .. p + q /\ ~(i <= p)  BY <2>1, <2>2
    <3>2. h[i] = b[i - p]  BY <1>1, <2>1, <2>2, <2>6, <3>1
    <3> QED  BY <3>1, <3>2, <2>4
  <2>10. Rising(h)
    <3> SUFFICES ASSUME NEW i \in 1 .. p + q, NEW j \in 1 .. p + q, i < j  PROVE h[i] < h[j]
      BY <2>7 DEF Rising
    <3>1. CASE j <= p
      <4>1. i \in 1 .. p /\ j \in 1 .. p  BY <3>1
      <4>2. h[i] = g[i] /\ h[j] = g[j]  BY <4>1, <2>8
      <4> QED  BY <4>1, <4>2, <2>1 DEF Kept, Rising
    <3>2. CASE i <= p /\ j > p
      <4>1. i \in 1 .. p /\ j \in p + 1 .. p + q  BY <3>2
      <4>2. h[i] = g[i] /\ h[j] = f + (j - p - 1)  BY <4>1, <2>8, <2>9
      <4> QED  BY <4>1, <4>2, <2>3, <2>5, <1>1
    <3>3. CASE i > p
      <4>1. i \in p + 1 .. p + q /\ j \in p + 1 .. p + q  BY <3>3
      <4>2. h[i] = f + (i - p - 1) /\ h[j] = f + (j - p - 1)  BY <4>1, <2>9
      <4> QED  BY <4>1, <4>2
    <3> QED  BY <3>1, <3>2, <3>3
  <2>11. h # <<>> /\ h[Len(h)] = f + (q - 1)
    <3>1. p + q \in p + 1 .. p + q  BY <2>2
    <3> QED  BY <3>1, <2>7, <2>9, <2>2
  <2>12. CursorAfter(b, n) = f + (q - 1)
    <3>1. q \in 1 .. q  BY <2>2
    <3> QED  BY <3>1, <2>4, <2>2, <1>3 DEF CursorAfter
  <2>13. PICK w \in Nat : w = f + (q - 1) /\ w >= n  BY <2>2, <2>3, <1>1
  <2>14. Kept(h, w)  BY <2>7, <2>10, <2>11, <2>13 DEF Kept
  <2>15. ASSUME g = [i \in 1 .. n |-> i], f = n + 1  PROVE h = [i \in 1 .. w |-> i]
    <3>1. p = n /\ \A i \in 1 .. n : g[i] = i  BY <1>1, <2>1, <2>15
    <3>2. w = p + q  BY <2>13, <2>15, <3>1
    <3>3. \A i \in 1 .. p + q : h[i] = i
      <4> SUFFICES ASSUME NEW i \in 1 .. p + q  PROVE h[i] = i
        OBVIOUS
      <4>1. CASE i <= p
        <5>1. i \in 1 .. p  BY <4>1
        <5> QED  BY <5>1, <2>8, <3>1
      <4>2. CASE i > p
        <5>1. i \in p + 1 .. p + q  BY <4>2
        <5> QED  BY <5>1, <2>9, <2>15, <3>1
      <4> QED  BY <4>1, <4>2
    <3>4. h = [i \in 1 .. p + q |-> h[i]]  BY <2>7
    <3> QED  BY <3>2, <3>3, <3>4
  <2> QED  BY <1>3, <2>3, <2>6, <2>12, <2>13, <2>14, <2>15
<1> QED  BY <1>2, <1>3

(***************************************************************************)
(* The windows                                                             *)
(***************************************************************************)
\* A log still fits when newer lines have been numbered.
LEMMA FitsLater ==
  ASSUME NEW log, NEW n \in Nat, NEW m \in Nat, m >= n, Fits(log, n)
  PROVE  Fits(log, m)
<1>1. log # <<>> => log[Len(log)] \in Nat
  <2>1. log \in Seq(Nat)  BY DEF Fits
  <2> QED  BY <2>1
<1> QED  BY <1>1, BoundAssumption DEF Fits, Window

\* append keeps the log a window that ends with the newest line.
LEMMA TakeFits ==
  ASSUME NEW log, NEW n \in Nat, Fits(log, n), n > 0 => log # <<>> /\ log[Len(log)] = n
  PROVE  /\ Fits(Trim(Append(log, n + 1)), n + 1)
         /\ Trim(Append(log, n + 1)) # <<>>
         /\ Trim(Append(log, n + 1))[Len(Trim(Append(log, n + 1)))] = n + 1
<1>1. log \in Seq(Nat) /\ Len(log) \in Nat /\ MaxEntries \in Nat /\ MaxEntries >= 1
  BY BoundAssumption DEF Fits
<1>2. PICK l \in Nat : l = Len(log)  BY <1>1
<1>3. PICK M \in Nat : M = MaxEntries /\ M >= 1 /\ l <= M  BY <1>1, <1>2 DEF Fits, Window
<1>4. \A i \in 1 .. l : log[i] = (n + i) - l
  <2> SUFFICES ASSUME NEW i \in 1 .. l  PROVE log[i] = (n + i) - l
    OBVIOUS
  <2>1. log[i] = log[l] - (l - i) /\ log[l] \in Nat /\ log[l] <= n /\ log # <<>>
    BY <1>1, <1>2 DEF Fits, Window
  <2>2. log[l] = n  BY <2>1, <1>2
  <2> QED  BY <2>1, <2>2
<1>5. n >= l
  <2>1. CASE l = 0  BY <2>1
  <2>2. CASE l > 0
    <3>1. log[1] >= 1 /\ 1 \in 1 .. l  BY <2>2, <1>1, <1>2 DEF Fits
    <3> QED  BY <3>1, <1>4
  <2> QED  BY <2>1, <2>2
<1>6. n <= M => l = n
  <2> SUFFICES ASSUME n <= M  PROVE l = n
    OBVIOUS
  <2>1. CASE n = 0  BY <2>1, <1>5
  <2>2. CASE n > 0
    <3>1. log # <<>> /\ 1 \in 1 .. l  BY <2>2, <1>1, <1>2
    <3>2. log[1] = 1  BY <3>1, <1>3 DEF Fits
    <3> QED  BY <3>1, <3>2, <1>4
  <2> QED  BY <2>1, <2>2
<1>7. PICK a : a = Append(log, n + 1)  OBVIOUS
<1>8. a \in Seq(Nat) /\ Len(a) = l + 1 /\ \A i \in 1 .. l + 1 : a[i] = (n + i) - l
  <2>1. a \in Seq(Nat) /\ Len(a) = l + 1 /\ a[l + 1] = n + 1 /\ \A i \in 1 .. l : a[i] = log[i]
    BY <1>1, <1>2, <1>7
  <2> QED  BY <2>1, <1>4
<1>9. PICK t : t = Trim(a)  OBVIOUS
<1>10. CASE l + 1 <= M
  <2>1. t = a  BY <1>3, <1>8, <1>9, <1>10 DEF Trim
  <2>2. a[Len(a)] = n + 1 /\ a # <<>> /\ a[1] = (n + 1) - l  BY <1>8
  <2>3. \A i \in 1 .. Len(a) : a[i] = a[Len(a)] - (Len(a) - i)  BY <1>8, <2>2
  <2>4. n + 1 <= M => a[1] = 1  BY <1>6, <2>2
  <2>5. Fits(a, n + 1)  BY <1>3, <1>5, <1>8, <1>10, <2>2, <2>3, <2>4 DEF Fits, Window
  <2> QED  BY <1>7, <1>9, <2>1, <2>2, <2>5
<1>11. CASE l + 1 > M
  <2>1. l = M  BY <1>3, <1>11
  <2>2. t = SubSeq(a, 2, M + 1)
    <3>1. Len(a) > M /\ (Len(a) - M) + 1 = 2 /\ Len(a) = M + 1  BY <1>8, <1>11, <2>1
    <3>2. t = SubSeq(a, (Len(a) - M) + 1, Len(a))  BY <3>1, <1>3, <1>9 DEF Trim
    <3> QED  BY <3>1, <3>2
  <2>3. t \in Seq(Nat) /\ Len(t) = M  BY <1>8, <1>3, <2>1, <2>2
  <2>4. \A i \in 1 .. M : t[i] = ((n + 1) + i) - M
    <3> SUFFICES ASSUME NEW i \in 1 .. M  PROVE t[i] = ((n + 1) + i) - M
      OBVIOUS
    <3>1. t[i] = a[2 + i - 1] /\ 2 + i - 1 \in 1 .. l + 1 /\ 2 + i - 1 = i + 1
      BY <1>3, <1>8, <2>1, <2>2
    <3>2. a[i + 1] = (n + (i + 1)) - l  BY <3>1, <1>8
    <3> QED  BY <3>1, <3>2, <2>1
  <2>5. t[Len(t)] = n + 1 /\ t # <<>> /\ t[1] = (n + 2) - M  BY <2>3, <2>4, <1>3
  <2>6. \A i \in 1 .. Len(t) : t[i] = t[Len(t)] - (Len(t) - i)  BY <2>3, <2>4, <2>5
  <2>7. ~(n + 1 <= M)  BY <2>1, <1>5
  <2>8. t[1] >= 1  BY <2>1, <2>5, <1>5
  <2>9. Fits(t, n + 1)  BY <1>3, <2>3, <2>5, <2>6, <2>7, <2>8 DEF Fits, Window
  <2> QED  BY <1>7, <1>9, <2>5, <2>9
<1> QED  BY <1>10, <1>11, <1>2, <1>3

\* Numbering a line: the log as it is afterwards (append).
LEMMA TakeKeepsLogs ==
  ASSUME LogsInv, NEW a, Take(a), UNCHANGED <<db, fdata, snap>>
  PROVE  LogsInv'
<1>1. seqno \in Nat /\ seqno' = seqno + 1 /\ entries' = Trim(Append(entries, seqno + 1))
  BY DEF LogsInv, Take
<1>2. /\ Fits(entries', seqno') /\ entries' # <<>>
      /\ entries'[Len(entries')] = seqno'
  BY <1>1, TakeFits DEF LogsInv
<1>3. \A log : Fits(log, seqno) => Fits(log, seqno')  BY <1>1, FitsLater
<1>4. Fits(db', seqno')  BY <1>3 DEF LogsInv
<1>5. \A f \in Flushers : Fits(fdata'[f], seqno')  BY <1>3 DEF LogsInv
<1>6. \A c \in Clients : Fits(snap'[c], seqno')  BY <1>3 DEF LogsInv
<1> QED  BY <1>1, <1>2, <1>4, <1>5, <1>6 DEF LogsInv

\* Every step keeps the logs windows of consecutive lines.
LEMMA StepKeepsLogs == LogsInv /\ [Next]_vars => LogsInv'
<1> SUFFICES ASSUME LogsInv, [Next]_vars  PROVE LogsInv'
  OBVIOUS
<1> USE DEF logger, wires, row, run, append, flush, client, hist
<1>e. Fits(<<>>, seqno)  BY BoundAssumption DEF Fits, Window, LogsInv
<1>t. entries \in Seq(Nat) /\ db \in Seq(Nat)  BY DEF LogsInv, Fits
<1>q. UNCHANGED <<entries, seqno, db, fdata, snap>> => LogsInv'  BY DEF LogsInv
<1>1. CASE UNCHANGED vars  BY <1>1, <1>q DEF vars
<1>2. CASE Run
  <2>1. CASE RunLine  BY <2>1, TakeKeepsLogs DEF RunLine
  <2>2. CASE ~RunLine
    BY <1>2, <2>2, <1>q DEF Run, SaveRunning, NewTaskLogger, ExecEnd, WriteStatus, CloseMark,
       CloseFlushed, Unregister, CloseChannel
  <2> QED  BY <2>1, <2>2
<1>3. CASE CancelRow \/ LoopExit  BY <1>3, <1>q DEF CancelRow, LoopExit
<1>4. CASE \E a \in Exec : Line(a)  BY <1>4, TakeKeepsLogs DEF Line
<1>5. CASE \E a \in Appenders, c \in Clients : Push(a, c) \/ PushPanic(a, c)
  BY <1>5, <1>q DEF Push, PushPanic
<1>6. CASE \E f \in Flushers : Flush(f) \/ FlushFault(f)
  <2>1. PICK f \in Flushers : Flush(f) \/ FlushFault(f)  BY <1>6
  <2>2. CASE FlushTake(f)
    <3>1. CASE UNCHANGED fdata  BY <2>2, <3>1, <1>q DEF FlushTake
    <3>2. CASE fdata' = [fdata EXCEPT ![f] = entries]
      BY <2>2, <3>2, <1>t DEF FlushTake, LogsInv
    <3> QED  BY <2>2, <3>1, <3>2 DEF FlushTake
  <2>3. CASE FlushLock(f)  BY <2>3, <1>q DEF FlushLock
  <2>4. CASE FlushWrite(f)  BY <2>4, <1>e DEF FlushWrite, LogsInv
  <2>5. CASE FlushFault(f)  BY <2>5, <1>e DEF FlushFault, LogsInv
  <2> QED  BY <2>1, <2>2, <2>3, <2>4, <2>5 DEF Flush
<1>7. CASE \E c \in Clients : \/ GetTaskLogs(c) \/ Open(c) \/ StreamLogs(c)
                              \/ ReadFault(c) \/ Leave(c)
  <2>1. PICK c \in Clients : \/ GetTaskLogs(c) \/ Open(c) \/ StreamLogs(c)
                             \/ ReadFault(c) \/ Leave(c)
    BY <1>7
  <2>2. CASE Open(c)
    <3>1. CASE UNCHANGED snap  BY <2>2, <3>1, <1>q DEF Open
    <3>2. CASE snap' = [snap EXCEPT ![c] = db]
      BY <2>2, <3>2, <1>t DEF Open, LogsInv
    <3> QED  BY <2>2, <3>1, <3>2 DEF Open
  <2>3. CASE Subscribe(c)  BY <2>3, <1>e DEF Subscribe, LogsInv
  <2>4. CASE ~Open(c) /\ ~Subscribe(c)
    BY <2>1, <2>4, <1>q DEF GetTaskLogs, StreamLogs, Recv, RecvClosed, Tick, TickRead, Unsub,
       ReadFault, Leave
  <2> QED  BY <2>2, <2>3, <2>4
<1> QED  BY <1>1, <1>2, <1>3, <1>4, <1>5, <1>6, <1>7 DEF Next
(***************************************************************************)
(* The channels                                                            *)
(***************************************************************************)
\* Steps that leave the doors alone.
LEMMA DoorsRest ==
  ASSUME DoorsInv, UNCHANGED <<subs, closing, cstate, cpc, closed, apc, rpc>>
  PROVE  DoorsInv'
BY DEF DoorsInv

\* A client's own steps, but for subscribing and leaving, move it along (StreamLogs).
LEMMA DoorsMove ==
  ASSUME DoorsInv, UNCHANGED <<subs, closing, cstate, closed, apc, rpc>>, NEW c \in Clients,
         NEW p \in {"subscribe", "loop", "read", "leaving"}, cpc' = [cpc EXCEPT ![c] = p],
         \/ cpc[c] = "new" /\ p \in {"subscribe", "leaving"}
         \/ cpc[c] \in {"loop", "read"} /\ p \in {"loop", "read", "leaving"}
         \/ cpc[c] = "subscribe" /\ p = "loop"
  PROVE  DoorsInv'
<1>1. \A d \in Clients : cpc'[d] = IF d = c THEN p ELSE cpc[d]  BY DEF DoorsInv
<1>2. cpc' \in [Clients -> {"new", "subscribe", "loop", "read", "leaving", "gone"}]
  BY DEF DoorsInv
<1>3. \A d \in subs' : cpc'[d] \in {"loop", "read", "leaving"}  BY <1>1 DEF DoorsInv
<1>4. \A d \in Clients : cpc'[d] \in {"new", "subscribe"} => cstate'[d] = "none"
  BY <1>1 DEF DoorsInv
<1>5. \A d \in Clients : cstate'[d] = "closed" /\ cpc'[d] \in {"loop", "read"} => closed'
  BY <1>1 DEF DoorsInv
<1> QED  BY <1>2, <1>3, <1>4, <1>5 DEF DoorsInv

\* SubscribeSince, from the first look at the logger or from a tick.
LEMMA DoorsSubscribe ==
  ASSUME DoorsInv, NEW c \in Clients, NEW p \in {"loop", "read"},
         UNCHANGED <<closing, closed, apc, rpc>>, cpc' = [cpc EXCEPT ![c] = p],
         cstate[c] = "none",
         IF closed THEN UNCHANGED <<subs, cstate>>
         ELSE subs' = subs \cup {c} /\ cstate' = [cstate EXCEPT ![c] = "open"]
  PROVE  DoorsInv'
<1>1. \A d \in Clients : cpc'[d] = IF d = c THEN p ELSE cpc[d]  BY DEF DoorsInv
<1>2. cpc' \in [Clients -> {"new", "subscribe", "loop", "read", "leaving", "gone"}]
  BY DEF DoorsInv
<1>3. CASE closed  BY <1>1, <1>2, <1>3 DEF DoorsInv
<1>4. CASE ~closed
  <2>1. subs' = subs \cup {c} /\ closing' = closing  BY <1>4
  <2>2. \A d \in Clients : cstate'[d] = IF d = c THEN "open" ELSE cstate[d]
    BY <1>4 DEF DoorsInv
  <2>3. /\ cstate' \in [Clients -> {"none", "open", "closed"}] /\ subs' \in SUBSET Clients
        /\ closed' = closed
    BY <1>4 DEF DoorsInv
  <2>4. \A d \in Clients : cstate'[d] = "open" <=> d \in subs' \cup closing'
    BY <2>1, <2>2 DEF DoorsInv
  <2>5. \A d \in subs' : cpc'[d] \in {"loop", "read", "leaving"}  BY <1>1, <2>1 DEF DoorsInv
  <2>6. \A d \in Clients : cpc'[d] \in {"new", "subscribe"} => cstate'[d] = "none"
    BY <1>1, <2>2 DEF DoorsInv
  <2>7. \A d \in Clients : cstate'[d] = "closed" /\ cpc'[d] \in {"loop", "read"} => closed'
    BY <1>1, <2>2 DEF DoorsInv
  <2> QED  BY <1>2, <1>4, <2>1, <2>3, <2>4, <2>5, <2>6, <2>7 DEF DoorsInv
<1> QED  BY <1>3, <1>4

\* unsub closes the channel of a client that leaves, if it is still subscribed.
LEMMA DoorsUnsub ==
  ASSUME DoorsInv, NEW c \in Clients, Unsub(c)
  PROVE  DoorsInv'
<1> USE DEF logger, wires, row, run, append, flush, client, hist
<1>0. /\ cpc[c] = "leaving" /\ cpc' = [cpc EXCEPT ![c] = "gone"]
      /\ closing' = closing /\ closed' = closed /\ apc' = apc /\ rpc' = rpc
  BY DEF Unsub, Stay
<1>1. \A d \in Clients : cpc'[d] = IF d = c THEN "gone" ELSE cpc[d]  BY <1>0 DEF DoorsInv
<1>2. cpc' \in [Clients -> {"new", "subscribe", "loop", "read", "leaving", "gone"}]
  BY <1>0 DEF DoorsInv
<1>3. CASE c \notin subs
  <2>1. subs' = subs /\ cstate' = cstate  BY <1>3 DEF Unsub
  <2> QED  BY <1>0, <1>1, <1>2, <1>3, <2>1 DEF DoorsInv
<1>4. CASE c \in subs
  <2>1. subs' = subs \ {c} /\ cstate' = [cstate EXCEPT ![c] = "closed"]  BY <1>4 DEF Unsub
  <2>2. \A d \in Clients : cstate'[d] = IF d = c THEN "closed" ELSE cstate[d]
    BY <2>1 DEF DoorsInv
  <2>3. cstate' \in [Clients -> {"none", "open", "closed"}] /\ subs' \in SUBSET Clients
    BY <2>1 DEF DoorsInv
  <2>a. closing = {}  BY <1>4 DEF DoorsInv
  <2>4. \A d \in Clients : cstate'[d] = "open" <=> d \in subs' \cup closing'
    BY <1>0, <2>a, <2>1, <2>2 DEF DoorsInv
  <2>5. \A d \in subs' : cpc'[d] \in {"loop", "read", "leaving"}  BY <1>1, <2>1 DEF DoorsInv
  <2>6. \A d \in Clients : cpc'[d] \in {"new", "subscribe"} => cstate'[d] = "none"
    BY <1>1, <2>2 DEF DoorsInv
  <2>7. \A d \in Clients : cstate'[d] = "closed" /\ cpc'[d] \in {"loop", "read"} => closed'
    BY <1>0, <1>1, <2>2 DEF DoorsInv
  <2> QED  BY <1>0, <1>2, <1>4, <2>1, <2>3, <2>4, <2>5, <2>6, <2>7 DEF DoorsInv
<1> QED  BY <1>3, <1>4

\* run's own steps.
LEMMA DoorsRun ==
  ASSUME DoorsInv, Run
  PROVE  DoorsInv'
<1> USE DEF logger, wires, row, run, append, flush, client, hist
<1>1. CASE SaveRunning  BY <1>1 DEF SaveRunning, DoorsInv
<1>2. CASE NewTaskLogger  BY <1>2 DEF NewTaskLogger, DoorsInv
<1>3. CASE RunLine
  <2>1. apc' \in [Appenders -> {"idle", "push", "dead"}]  BY <1>3 DEF RunLine, Take, DoorsInv
  <2>2. UNCHANGED <<subs, closing, cstate, cpc, closed>>  BY <1>3 DEF RunLine, Take
  <2>3. rpc' \in {"exec", "status"} /\ rpc \in {"begin", "end"}  BY <1>3 DEF RunLine
  <2> QED  BY <2>1, <2>2, <2>3 DEF DoorsInv
<1>4. CASE ExecEnd  BY <1>4 DEF ExecEnd, DoorsInv
<1>5. CASE WriteStatus  BY <1>5 DEF WriteStatus, DoorsInv
<1>6. CASE CloseMark  BY <1>6 DEF CloseMark, DoorsInv
<1>7. CASE CloseFlushed  BY <1>7 DEF CloseFlushed, DoorsInv
<1>8. CASE Unregister  BY <1>8 DEF Unregister, DoorsInv
<1>9. CASE \E c \in Clients : CloseChannel(c)
  <2>1. PICK c \in Clients : CloseChannel(c)  BY <1>9
  <2>2. /\ rpc = "chans" /\ c \in closing /\ UNCHANGED <<subs, cpc, closed, apc, rpc>>
        /\ cstate' = [cstate EXCEPT ![c] = "closed"] /\ closing' = closing \ {c}
    BY <2>1 DEF CloseChannel
  <2>3. \A d \in Clients : cstate'[d] = IF d = c THEN "closed" ELSE cstate[d]
    BY <2>2 DEF DoorsInv
  <2>4. cstate' \in [Clients -> {"none", "open", "closed"}] /\ closing' \in SUBSET Clients
    BY <2>2 DEF DoorsInv
  <2>5. closed /\ subs = {}  BY <2>2 DEF DoorsInv
  <2>6. \A d \in Clients : cstate'[d] = "open" <=> d \in subs' \cup closing'
    BY <2>2, <2>3, <2>5 DEF DoorsInv
  <2>7. \A d \in Clients : cpc'[d] \in {"new", "subscribe"} => cstate'[d] = "none"
    BY <2>2, <2>3 DEF DoorsInv
  <2> QED  BY <2>2, <2>4, <2>5, <2>6, <2>7 DEF DoorsInv
<1> QED  BY <1>1, <1>2, <1>3, <1>4, <1>5, <1>6, <1>7, <1>8, <1>9 DEF Run

\* Every step keeps each open channel with the one party that will close it.
LEMMA StepKeepsDoors == DoorsInv /\ [Next]_vars => DoorsInv'
<1> SUFFICES ASSUME DoorsInv, [Next]_vars  PROVE DoorsInv'
  OBVIOUS
<1> USE DEF logger, wires, row, run, append, flush, client, hist
<1>1. CASE UNCHANGED vars  BY <1>1, DoorsRest DEF vars
<1>2. CASE Run  BY <1>2, DoorsRun
<1>3. CASE CancelRow \/ LoopExit  BY <1>3, DoorsRest DEF CancelRow, LoopExit
<1>4. CASE \E a \in Exec : Line(a)
  <2>1. PICK a \in Exec : Line(a)  BY <1>4
  <2>2. /\ apc' \in [Appenders -> {"idle", "push", "dead"}] /\ a # "run" /\ apc'["run"] = apc["run"]
        /\ UNCHANGED <<subs, closing, cstate, cpc, closed, rpc>>
    BY <2>1, ExecAssumption DEF Line, Take, DoorsInv, Appenders
  <2> QED  BY <2>2 DEF DoorsInv
<1>5. CASE \E a \in Appenders, c \in Clients : Push(a, c) \/ PushPanic(a, c)
  <2>1. PICK a \in Appenders, c \in Clients : Push(a, c) \/ PushPanic(a, c)  BY <1>5
  <2>2. CASE Push(a, c)
    <3>1. /\ UNCHANGED <<subs, closing, cstate, cpc, closed, rpc>>
          /\ apc' \in [Appenders -> {"idle", "push", "dead"}]
          /\ apc'["run"] = "push" => apc["run"] = "push"
      BY <2>2 DEF Push, DoorsInv, Appenders
    <3> QED  BY <3>1 DEF DoorsInv
  <2>3. CASE PushPanic(a, c)
    <3>1. /\ UNCHANGED <<subs, closing, cstate, cpc, closed>>
          /\ apc' \in [Appenders -> {"idle", "push", "dead"}] /\ apc[a] = "push"
          /\ a = "run" => apc'["run"] = "dead" /\ rpc' = "close"
          /\ a # "run" => apc'["run"] = apc["run"] /\ rpc' = rpc
      BY <2>3 DEF PushPanic, DoorsInv, Appenders
    <3> QED  BY <3>1 DEF DoorsInv
  <2> QED  BY <2>1, <2>2, <2>3
<1>6. CASE \E f \in Flushers : Flush(f) \/ FlushFault(f)
  BY <1>6, DoorsRest DEF Flush, FlushTake, FlushLock, FlushWrite, FlushFault
<1>7. CASE \E c \in Clients : \/ GetTaskLogs(c) \/ Open(c) \/ StreamLogs(c)
                              \/ ReadFault(c) \/ Leave(c)
  <2>1. PICK c \in Clients : \/ GetTaskLogs(c) \/ Open(c) \/ StreamLogs(c)
                             \/ ReadFault(c) \/ Leave(c)
    BY <1>7
  <2>2. CASE GetTaskLogs(c) \/ Recv(c)  BY <2>2, DoorsRest DEF GetTaskLogs, Recv
  <2>3. CASE Open(c)  BY <2>3, DoorsMove DEF Open, End, Stay
  <2>4. CASE RecvClosed(c)  BY <2>4, DoorsMove DEF RecvClosed, End
  <2>5. CASE TickRead(c)  BY <2>5, DoorsMove DEF TickRead, End, Stay
  <2>6. CASE ReadFault(c)  BY <2>6, DoorsMove DEF ReadFault, End
  <2>7. CASE Leave(c)  BY <2>7, DoorsMove DEF Leave, End
  <2>8. CASE Unsub(c)  BY <2>8, DoorsUnsub
  <2>9. CASE Subscribe(c)
    <3>1. cpc[c] = "subscribe" /\ cpc' = [cpc EXCEPT ![c] = "loop"] /\ cstate[c] = "none"
          /\ UNCHANGED <<closing, closed, apc, rpc>>
      BY <2>9 DEF Subscribe, Stay, DoorsInv
    <3>2. CASE live  BY <2>9, <3>1, <3>2, DoorsSubscribe DEF Subscribe, SubscribeSince
    <3>3. CASE ~live  BY <2>9, <3>1, <3>3, DoorsMove DEF Subscribe
    <3> QED  BY <3>2, <3>3
  <2>10. CASE Tick(c)
    <3>1. cpc[c] = "loop" /\ cpc' = [cpc EXCEPT ![c] = "read"]
          /\ UNCHANGED <<closing, closed, apc, rpc>>
      BY <2>10 DEF Tick, Stay
    <3>2. CASE cstate[c] = "none" /\ live
      BY <2>10, <3>1, <3>2, DoorsSubscribe DEF Tick, SubscribeSince
    <3>3. CASE ~(cstate[c] = "none" /\ live)  BY <2>10, <3>1, <3>3, DoorsMove DEF Tick
    <3> QED  BY <3>2, <3>3
  <2> QED  BY <2>1, <2>2, <2>3, <2>4, <2>5, <2>6, <2>7, <2>8, <2>9, <2>10 DEF StreamLogs
<1> QED  BY <1>1, <1>2, <1>3, <1>4, <1>5, <1>6, <1>7 DEF Next
(***************************************************************************)
(* Lines under way, and the cursors                                        *)
(***************************************************************************)
\* Numbers only grow, and a client that has had a channel keeps it, open or closed.
LEMMA StepGrows ==
  ASSUME LogsInv, DoorsInv, [Next]_vars
  PROVE  /\ seqno \in Nat /\ seqno' \in Nat /\ seqno' >= seqno
         /\ \A c \in Clients : cstate'[c] = "none" => cstate[c] = "none"
<1> USE DEF logger, wires, row, run, append, flush, client, hist
<1>0. seqno \in Nat /\ seqno' \in Nat  BY StepKeepsLogs DEF LogsInv
<1>1. cstate \in [Clients -> {"none", "open", "closed"}]  BY DEF DoorsInv
<1>2. CASE UNCHANGED <<seqno, cstate>>  BY <1>0, <1>2
<1>3. CASE Run
  BY <1>0, <1>1, <1>3 DEF Run, SaveRunning, NewTaskLogger, RunLine, Take, ExecEnd, WriteStatus,
     CloseMark, CloseFlushed, Unregister, CloseChannel
<1>4. CASE \E a \in Exec : Line(a)  BY <1>0, <1>4 DEF Line, Take
<1>5. CASE \E c \in Clients : StreamLogs(c)
  <2>1. PICK c \in Clients : StreamLogs(c)  BY <1>5
  <2>2. CASE Subscribe(c)  BY <1>0, <1>1, <2>2 DEF Subscribe, SubscribeSince
  <2>3. CASE Tick(c)  BY <1>0, <1>1, <2>3 DEF Tick, SubscribeSince
  <2>4. CASE Unsub(c)  BY <1>0, <1>1, <2>4 DEF Unsub
  <2>5. CASE Recv(c) \/ RecvClosed(c) \/ TickRead(c)
    BY <1>2, <2>5 DEF Recv, RecvClosed, TickRead
  <2> QED  BY <2>1, <2>2, <2>3, <2>4, <2>5 DEF StreamLogs
<1>6. CASE \/ CancelRow \/ LoopExit \/ UNCHANGED vars
           \/ \E a \in Appenders, c \in Clients : Push(a, c) \/ PushPanic(a, c)
           \/ \E f \in Flushers : Flush(f) \/ FlushFault(f)
           \/ \E c \in Clients : GetTaskLogs(c) \/ Open(c) \/ ReadFault(c) \/ Leave(c)
  BY <1>2, <1>6 DEF CancelRow, LoopExit, vars, Push, PushPanic, Flush, FlushTake, FlushLock,
     FlushWrite, FlushFault, GetTaskLogs, Open, ReadFault, Leave
<1> QED  BY <1>3, <1>4, <1>5, <1>6 DEF Next

\* The lines under way stay what they are when no appender moves.
LEMMA PushRest ==
  ASSUME PushInv, UNCHANGED <<apc, aseq, targets>>, seqno \in Nat, seqno' \in Nat, seqno' >= seqno,
         \A c \in Clients : cstate'[c] = "none" => cstate[c] = "none"
  PROVE  PushInv'
BY DEF PushInv

\* A line that is numbered has a number of its own (append).
LEMMA PushTake ==
  ASSUME PushInv, DoorsInv, seqno \in Nat, NEW a \in Appenders, Take(a), UNCHANGED cstate
  PROVE  PushInv'
<1>1. seqno' = seqno + 1 /\ subs \in SUBSET Clients  BY DEF Take, DoorsInv
<1>2. \A b \in Appenders : targets'[b] = IF b = a THEN subs ELSE targets[b]
  BY DEF Take, PushInv
<1>3. \A b \in Appenders : aseq'[b] = IF b = a THEN (IF subs = {} THEN 0 ELSE seqno + 1) ELSE aseq[b]
  BY DEF Take, PushInv
<1>4. \A b \in Appenders : apc'[b] = IF b = a THEN (IF subs = {} THEN "idle" ELSE "push") ELSE apc[b]
  BY DEF Take, DoorsInv
<1>5. aseq' \in [Appenders -> Nat] /\ targets' \in [Appenders -> SUBSET Clients]
  BY <1>1 DEF Take, PushInv
<1>6. \A b \in Appenders : apc'[b] # "push" => targets'[b] = {}  BY <1>2, <1>4 DEF PushInv
<1>7. \A b \in Appenders : apc'[b] = "push" => aseq'[b] \in 1 .. seqno'
  BY <1>1, <1>3, <1>4 DEF PushInv
<1>8. \A b, d \in Appenders : apc'[b] = "push" /\ apc'[d] = "push" /\ b # d => aseq'[b] # aseq'[d]
  BY <1>3, <1>4 DEF PushInv
<1>9. \A b \in Appenders : \A c \in targets'[b] : cstate'[c] # "none"
  BY <1>1, <1>2 DEF PushInv, DoorsInv
<1> QED  BY <1>5, <1>6, <1>7, <1>8, <1>9 DEF PushInv

\* A line goes to one client after the other, or is given up in a panic.
LEMMA PushSends ==
  ASSUME PushInv, DoorsInv, seqno \in Nat, NEW a \in Appenders, NEW c \in Clients,
         Push(a, c) \/ PushPanic(a, c)
  PROVE  PushInv'
<1> USE DEF logger, wires, row, run, append, flush, client, hist
<1>1. CASE Push(a, c)
  <2>1. PICK last \in BOOLEAN : last = (targets[a] = {c})  OBVIOUS
  <2>2. /\ apc[a] = "push" /\ UNCHANGED <<seqno, cstate>>
        /\ targets' = [targets EXCEPT ![a] = @ \ {c}]
        /\ apc' = [apc EXCEPT ![a] = IF last THEN "idle" ELSE "push"]
        /\ aseq' = [aseq EXCEPT ![a] = IF last THEN 0 ELSE @]
    BY <1>1, <2>1 DEF Push
  <2>3. \A b \in Appenders : targets'[b] = IF b = a THEN targets[a] \ {c} ELSE targets[b]
    BY <2>2 DEF PushInv
  <2>4. \A b \in Appenders : apc'[b] = IF b = a THEN (IF last THEN "idle" ELSE "push") ELSE apc[b]
    BY <2>2 DEF DoorsInv
  <2>5. \A b \in Appenders : aseq'[b] = IF b = a /\ last THEN 0 ELSE aseq[b]
    BY <2>2 DEF PushInv
  <2>6. aseq' \in [Appenders -> Nat] /\ targets' \in [Appenders -> SUBSET Clients]
    BY <2>2 DEF PushInv
  <2>7. \A b \in Appenders : apc'[b] # "push" => targets'[b] = {}
    BY <2>1, <2>3, <2>4 DEF PushInv
  <2>8. \A b \in Appenders : apc'[b] = "push" => apc[b] = "push" /\ aseq'[b] = aseq[b]
    BY <2>2, <2>4, <2>5
  <2>9. \A b \in Appenders : \A d \in targets'[b] : cstate'[d] # "none"
    BY <2>2, <2>3 DEF PushInv
  <2> QED  BY <2>2, <2>6, <2>7, <2>8, <2>9 DEF PushInv
<1>2. CASE PushPanic(a, c)
  <2>1. /\ UNCHANGED <<seqno, cstate>>
        /\ apc' = [apc EXCEPT ![a] = "dead"] /\ aseq' = [aseq EXCEPT ![a] = 0]
        /\ targets' = [targets EXCEPT ![a] = {}]
    BY <1>2 DEF PushPanic
  <2>2. \A b \in Appenders : targets'[b] = IF b = a THEN {} ELSE targets[b]
    BY <2>1 DEF PushInv
  <2>3. \A b \in Appenders : apc'[b] = IF b = a THEN "dead" ELSE apc[b]  BY <2>1 DEF DoorsInv
  <2>4. \A b \in Appenders : aseq'[b] = IF b = a THEN 0 ELSE aseq[b]  BY <2>1 DEF PushInv
  <2>5. aseq' \in [Appenders -> Nat] /\ targets' \in [Appenders -> SUBSET Clients]
    BY <2>1 DEF PushInv
  <2>6. \A b \in Appenders : apc'[b] # "push" => targets'[b] = {}  BY <2>2, <2>3 DEF PushInv
  <2>7. \A b \in Appenders : apc'[b] = "push" => apc[b] = "push" /\ aseq'[b] = aseq[b]
    BY <2>3, <2>4
  <2>8. \A b \in Appenders : \A d \in targets'[b] : cstate'[d] # "none"
    BY <2>1, <2>2 DEF PushInv
  <2> QED  BY <2>1, <2>5, <2>6, <2>7, <2>8 DEF PushInv
<1> QED  BY <1>1, <1>2

\* Every step keeps the numbers of lines under way apart.
LEMMA StepKeepsPushes == LogsInv /\ DoorsInv /\ PushInv /\ [Next]_vars => PushInv'
<1> SUFFICES ASSUME LogsInv, DoorsInv, PushInv, [Next]_vars  PROVE PushInv'
  OBVIOUS
<1> USE DEF logger, wires, row, run, append, flush, client, hist
<1>q. UNCHANGED <<apc, aseq, targets>> => PushInv'  BY PushRest, StepGrows
<1>s. seqno \in Nat  BY DEF LogsInv
<1>1. CASE UNCHANGED vars  BY <1>1, <1>q DEF vars
<1>2. CASE Run
  <2>1. CASE RunLine  BY <1>s, <2>1, PushTake DEF RunLine, Appenders
  <2>2. CASE ~RunLine
    BY <1>2, <2>2, <1>q DEF Run, SaveRunning, NewTaskLogger, ExecEnd, WriteStatus, CloseMark,
       CloseFlushed, Unregister, CloseChannel
  <2> QED  BY <2>1, <2>2
<1>3. CASE CancelRow \/ LoopExit  BY <1>3, <1>q DEF CancelRow, LoopExit
<1>4. CASE \E a \in Exec : Line(a)  BY <1>s, <1>4, PushTake DEF Line, Appenders
<1>5. CASE \E a \in Appenders, c \in Clients : Push(a, c) \/ PushPanic(a, c)
  BY <1>s, <1>5, PushSends
<1>6. CASE \E f \in Flushers : Flush(f) \/ FlushFault(f)
  BY <1>6, <1>q DEF Flush, FlushTake, FlushLock, FlushWrite, FlushFault
<1>7. CASE \E c \in Clients : \/ GetTaskLogs(c) \/ Open(c) \/ StreamLogs(c)
                              \/ ReadFault(c) \/ Leave(c)
  BY <1>7, <1>q DEF GetTaskLogs, Open, StreamLogs, Subscribe, Recv, RecvClosed, Tick, TickRead,
     Unsub, ReadFault, Leave
<1> QED  BY <1>1, <1>2, <1>3, <1>4, <1>5, <1>6, <1>7 DEF Next
(***************************************************************************)
(* What a client receives                                                  *)
(***************************************************************************)
\* What is read of a log after the cursor, and how far it takes the cursor.
LEMMA LogBatch ==
  ASSUME NEW n \in Nat, NEW m \in Nat, n <= m, NEW log, Fits(log, m), NEW b, b = After(log, n)
  PROVE  /\ Steady(b) /\ (b # <<>> => b[1] > n /\ b[Len(b)] <= m)
         /\ b # <<>> /\ m <= MaxEntries => b[1] = n + 1
         /\ log # <<>> /\ log[Len(log)] = m => CursorAfter(b, n) = m
<1>1. /\ Steady(log) /\ (log # <<>> => Len(log) \in Nat \ {0} /\ log[Len(log)] <= m)
      /\ log # <<>> /\ m <= MaxEntries => log[1] = 1
  BY FitIsSteady
<1>2. Steady(b) /\ (b = <<>> <=> (log = <<>> \/ log[Len(log)] <= n))
  BY <1>1, AfterIs
<1>3. b # <<>> => /\ b[1] > n /\ b[Len(b)] = log[Len(log)]
                  /\ log[1] <= n + 1 => b[1] = n + 1
  BY <1>1, AfterIs
<1>4. log # <<>> => log[Len(log)] \in Nat  BY <1>1 DEF Steady
<1> QED  BY <1>1, <1>2, <1>3, <1>4 DEF CursorAfter

\* A batch of newer lines moves one client's cursor and nothing else (StreamLogs).
LEMMA ReceiveMoves ==
  ASSUME CursorInv, seqno \in Nat, NEW c \in Clients, NEW b, Receive(c, b), Steady(b),
         b # <<>> => b[1] > since[c] /\ b[Len(b)] <= seqno
  PROVE  /\ got' \in [Clients -> Seq(Nat)] /\ since' \in [Clients -> Nat]
         /\ \A d \in Clients : Kept(got'[d], since'[d]) /\ since'[d] <= seqno
         /\ \A d \in Clients : since'[d] >= since[d]
         /\ since'[c] = CursorAfter(b, since[c])
         /\ \A d \in Clients \ {c} : got'[d] = got[d] /\ since'[d] = since[d]
         /\ got[c] = [i \in 1 .. since[c] |-> i] /\ (b # <<>> => b[1] = since[c] + 1) =>
              got'[c] = [i \in 1 .. since'[c] |-> i]
<1>1. PICK g, n : g = got[c] /\ n = since[c]  OBVIOUS
<1>2. Kept(g, n) /\ n \in Nat /\ n <= seqno /\ g \in Seq(Nat)  BY <1>1 DEF CursorInv
<1>3. PICK h, w : h = g \o b /\ w = CursorAfter(b, n)  OBVIOUS
<1>4. Kept(h, w) /\ w >= n /\ (g = [i \in 1 .. n |-> i] /\ (b # <<>> => b[1] = n + 1)
                               => h = [i \in 1 .. w |-> i])
  <2>1. Steady(b) /\ (b # <<>> => b[1] > n)  BY <1>1
  <2>2. /\ Kept(g \o b, CursorAfter(b, n)) /\ CursorAfter(b, n) >= n
        /\ g = [i \in 1 .. n |-> i] /\ (b # <<>> => b[1] = n + 1) =>
             g \o b = [i \in 1 .. CursorAfter(b, n) |-> i]
    BY <1>2, <2>1, BatchKept
  <2> QED  BY <1>3, <2>2
<1>5. w <= seqno /\ w \in Nat /\ h \in Seq(Nat)  BY <1>1, <1>2, <1>3, <1>4 DEF CursorAfter, Kept
<1>6. got' = [got EXCEPT ![c] = h] /\ since' = [since EXCEPT ![c] = w]
  BY <1>1, <1>3 DEF Receive
<1>7. got'[c] = h /\ since'[c] = w  BY <1>6 DEF CursorInv
<1>8. \A d \in Clients \ {c} : got'[d] = got[d] /\ since'[d] = since[d]  BY <1>6 DEF CursorInv
<1>9. got' \in [Clients -> Seq(Nat)] /\ since' \in [Clients -> Nat]
  BY <1>5, <1>6 DEF CursorInv
<1>10. \A d \in Clients : Kept(got'[d], since'[d]) /\ since'[d] <= seqno /\ since'[d] >= since[d]
  <2> SUFFICES ASSUME NEW d \in Clients
               PROVE  Kept(got'[d], since'[d]) /\ since'[d] <= seqno /\ since'[d] >= since[d]
    OBVIOUS
  <2>1. CASE d = c  BY <2>1, <1>1, <1>4, <1>5, <1>7
  <2>2. CASE d # c  BY <2>2, <1>8 DEF CursorInv
  <2> QED  BY <2>1, <2>2
<1> QED  BY <1>1, <1>3, <1>4, <1>7, <1>8, <1>9, <1>10

\* What has been covered stays so while only cursors advance.
LEMMA CoverStays ==
  ASSUME NEW c \in Clients, Covered(c), CursorInv, since'[c] \in Nat, since'[c] >= since[c],
         seqno \in Nat, UNCHANGED <<seqno, aseq, targets>>, chan'[c] = chan[c]
  PROVE  Covered(c)'
<1>1. since[c] \in Nat  BY DEF CursorInv
<1>2. \A n \in since'[c] + 1 .. seqno : n \in since[c] + 1 .. seqno  BY <1>1
<1>3. \A n \in since'[c] + 1 .. seqno :
        Has(chan[c], n) \/ \E a \in Appenders : c \in targets[a] /\ aseq[a] = n
  BY <1>2 DEF Covered
<1> QED  BY <1>3 DEF Covered, Has, Rising

\* Steps by which no client receives anything, and none begins to follow.
LEMMA StreamRest ==
  ASSUME CursorInv, StreamInv, seqno \in Nat, UNCHANGED <<seqno, got, since, chan, aseq, targets>>,
         Undisturbed' => Undisturbed,
         \A c \in Clients : cstate'[c] = "none" => cstate[c] = "none",
         \A c \in Clients : Follows(c)' => Follows(c)
  PROVE  CursorInv' /\ StreamInv'
<1>1. CursorInv'  BY DEF CursorInv
<1>2. ASSUME Undisturbed', NEW c \in Clients
      PROVE  /\ got'[c] = [i \in 1 .. since'[c] |-> i]
             /\ Follows(c)' => Covered(c)'
  <2>1. got[c] = [i \in 1 .. since[c] |-> i] /\ (Follows(c) => Covered(c))
    BY <1>2 DEF StreamInv
  <2>2. since'[c] \in Nat /\ since'[c] >= since[c]  BY DEF CursorInv
  <2> QED  BY <2>1, <2>2, CoverStays
<1> QED  BY <1>1, <1>2 DEF StreamInv

\* A client reads a log after its cursor: the memory, with or without subscribing, or the row.
LEMMA StreamReads ==
  ASSUME CursorInv, StreamInv, PushInv, seqno \in Nat,
         UNCHANGED <<seqno, chan, aseq, targets, lagged, crossed, panicked>>,
         NEW c \in Clients, NEW log, Fits(log, seqno), Receive(c, After(log, since[c])),
         \A d \in Clients : cstate'[d] = "none" => cstate[d] = "none",
         \A d \in Clients \ {c} : Follows(d)' => Follows(d),
         Follows(c)' => \/ Follows(c)
                        \/ /\ cstate[c] = "none"
                           /\ seqno > 0 => log # <<>> /\ log[Len(log)] = seqno
  PROVE  CursorInv' /\ StreamInv'
<1>1. PICK n \in Nat : n = since[c] /\ n <= seqno  BY DEF CursorInv
<1>2. PICK b : b = After(log, n)  OBVIOUS
<1>3. /\ Steady(b) /\ (b # <<>> => b[1] > n /\ b[Len(b)] <= seqno)
      /\ b # <<>> /\ seqno <= MaxEntries => b[1] = n + 1
      /\ log # <<>> /\ log[Len(log)] = seqno => CursorAfter(b, n) = seqno
  BY <1>1, <1>2, LogBatch
<1>4. Receive(c, b)  BY <1>1, <1>2
<1>5. /\ got' \in [Clients -> Seq(Nat)] /\ since' \in [Clients -> Nat]
      /\ \A d \in Clients : Kept(got'[d], since'[d]) /\ since'[d] <= seqno
      /\ \A d \in Clients : since'[d] >= since[d]
      /\ since'[c] = CursorAfter(b, n)
      /\ \A d \in Clients \ {c} : got'[d] = got[d] /\ since'[d] = since[d]
      /\ got[c] = [i \in 1 .. n |-> i] /\ (b # <<>> => b[1] = n + 1) =>
           got'[c] = [i \in 1 .. since'[c] |-> i]
  BY <1>1, <1>3, <1>4, ReceiveMoves
<1>6. CursorInv'
  <2>1. chan' \in [Clients -> Seq(Nat)] /\ seqno' = seqno /\ chan' = chan  BY DEF CursorInv
  <2>2. \A d \in Clients : cstate'[d] = "none" => chan'[d] = <<>>  BY DEF CursorInv
  <2>3. \A d \in Clients : \A i \in 1 .. Len(chan'[d]) : chan'[d][i] \in 1 .. seqno'
    BY DEF CursorInv
  <2> QED  BY <1>5, <2>1, <2>2, <2>3 DEF CursorInv
<1>7. ASSUME Undisturbed', NEW d \in Clients
      PROVE  /\ got'[d] = [i \in 1 .. since'[d] |-> i]
             /\ Follows(d)' => Covered(d)'
  <2>0. Undisturbed /\ seqno <= MaxEntries  BY <1>7 DEF Undisturbed
  <2>1. got[d] = [i \in 1 .. since[d] |-> i] /\ (Follows(d) => Covered(d))
    BY <2>0 DEF StreamInv
  <2>2. got'[d] = [i \in 1 .. since'[d] |-> i]
    <3>1. CASE d = c  BY <3>1, <2>0, <2>1, <1>1, <1>3, <1>5
    <3>2. CASE d # c  BY <3>2, <2>1, <1>5
    <3> QED  BY <3>1, <3>2
  <2>3. since'[d] \in Nat /\ since'[d] >= since[d] /\ chan'[d] = chan[d]  BY <1>5
  <2>4. Follows(d) => Covered(d)'  BY <2>1, <2>3, CoverStays
  <2>5. ASSUME Follows(d)', ~Follows(d)  PROVE Covered(d)'
    <3>1. d = c /\ cstate[c] = "none"  BY <2>5
    <3>2. since'[c] = seqno
      <4>1. CASE seqno > 0  BY <3>1, <4>1, <2>5, <1>3, <1>5
      <4>2. CASE seqno = 0  BY <4>2, <1>5
      <4> QED  BY <4>1, <4>2
    <3>3. chan'[c] = <<>>  BY <3>1 DEF CursorInv
    <3>4. Len(chan'[c]) = 0 /\ Rising(chan'[c])  BY <3>3 DEF Rising
    <3>5. Rising(chan[c])'  BY <3>4 DEF Rising
    <3>6. \A m \in since'[c] + 1 .. seqno' : FALSE  BY <3>2
    <3> QED  BY <3>1, <3>4, <3>5, <3>6 DEF Covered
  <2> QED  BY <2>2, <2>4, <2>5
<1> QED  BY <1>6, <1>7 DEF StreamInv
\* A numbered line is on its way to every client that follows (append).
LEMMA StreamTake ==
  ASSUME CursorInv, StreamInv, PushInv, DoorsInv, seqno \in Nat, NEW a \in Appenders, Take(a),
         UNCHANGED <<got, since, chan, cstate, cpc, lagged, crossed, panicked>>
  PROVE  CursorInv' /\ StreamInv'
<1>1. ~closed /\ seqno' = seqno + 1 /\ apc[a] = "idle"  BY DEF Take
<1>2. CursorInv'
  <2>1. \A d \in Clients : since[d] \in Nat /\ since[d] <= seqno'  BY <1>1 DEF CursorInv
  <2>2. \A d \in Clients : \A i \in 1 .. Len(chan[d]) : chan[d][i] \in 1 .. seqno'
    BY <1>1 DEF CursorInv
  <2> QED  BY <2>1, <2>2 DEF CursorInv
<1>3. \A b \in Appenders : targets'[b] = IF b = a THEN subs ELSE targets[b]
  BY DEF Take, PushInv
<1>4. subs # {} => aseq'[a] = seqno + 1  BY DEF Take, PushInv
<1>5. \A b \in Appenders \ {a} : aseq'[b] = aseq[b]  BY DEF Take, PushInv
<1>6. targets[a] = {}  BY <1>1 DEF PushInv
<1>7. ASSUME Undisturbed', NEW c \in Clients
      PROVE  /\ got'[c] = [i \in 1 .. since'[c] |-> i]
             /\ Follows(c)' => Covered(c)'
  <2>1. Undisturbed  BY <1>1, <1>7, BoundAssumption DEF Undisturbed
  <2>2. got'[c] = [i \in 1 .. since'[c] |-> i]  BY <2>1 DEF StreamInv
  <2>3. ASSUME Follows(c)'  PROVE Covered(c)'
    <3>1. Follows(c) /\ Covered(c)  BY <2>1, <2>3 DEF StreamInv, Follows
    <3>2. c \in subs  BY <1>1, <3>1 DEF DoorsInv, Follows
    <3>3. Rising(chan[c])'  BY <3>1 DEF Covered, Rising
    <3>4. \A i \in 1 .. Len(chan[c]) : \A b \in Appenders : c \in targets'[b] => chan[c][i] < aseq'[b]
      <4> SUFFICES ASSUME NEW i \in 1 .. Len(chan[c]), NEW b \in Appenders, c \in targets'[b]
                   PROVE  chan[c][i] < aseq'[b]
        OBVIOUS
      <4>1. CASE b = a
        <5>1. chan[c][i] \in 1 .. seqno  BY DEF CursorInv
        <5>2. aseq'[a] = seqno + 1  BY <1>4, <3>2
        <5> QED  BY <4>1, <5>1, <5>2
      <4>2. CASE b # a  BY <4>2, <1>3, <1>5, <3>1 DEF Covered
      <4> QED  BY <4>1, <4>2
    <3>5. \A n \in since[c] + 1 .. seqno' :
             Has(chan[c], n) \/ \E b \in Appenders : c \in targets'[b] /\ aseq'[b] = n
      <4> SUFFICES ASSUME NEW n \in since[c] + 1 .. seqno'
                   PROVE  Has(chan[c], n) \/ \E b \in Appenders : c \in targets'[b] /\ aseq'[b] = n
        OBVIOUS
      <4>0. since[c] \in Nat  BY DEF CursorInv
      <4>1. CASE n = seqno + 1  BY <4>1, <1>3, <1>4, <3>2
      <4>2. CASE n # seqno + 1
        <5>1. n \in since[c] + 1 .. seqno  BY <4>0, <4>2, <1>1
        <5>2. Has(chan[c], n) \/ \E b \in Appenders : c \in targets[b] /\ aseq[b] = n
          BY <5>1, <3>1 DEF Covered
        <5> QED  BY <5>2, <1>3, <1>5, <1>6
      <4> QED  BY <4>1, <4>2
    <3> QED  BY <3>3, <3>4, <3>5 DEF Covered, Has
  <2> QED  BY <2>2, <2>3
<1> QED  BY <1>2, <1>7 DEF StreamInv

\* What is appended to a channel is in it afterwards, behind what was.
LEMMA AppendHas ==
  ASSUME NEW s \in Seq(Nat), NEW e \in Nat
  PROVE  /\ Append(s, e) \in Seq(Nat) /\ Has(Append(s, e), e)
         /\ \A n : Has(s, n) => Has(Append(s, e), n)
         /\ \A i \in 1 .. Len(Append(s, e)) :
              \/ i \in 1 .. Len(s) /\ Append(s, e)[i] = s[i]
              \/ i = Len(s) + 1 /\ Append(s, e)[i] = e
         /\ Rising(s) /\ (\A i \in 1 .. Len(s) : s[i] < e) => Rising(Append(s, e))
<1>1. PICK l \in Nat : l = Len(s)  OBVIOUS
<1>2. PICK t : t = Append(s, e)  OBVIOUS
<1>3. /\ t \in Seq(Nat) /\ Len(t) = l + 1 /\ t[l + 1] = e
      /\ \A i \in 1 .. l : t[i] = s[i]
  BY <1>1, <1>2
<1>4. Has(t, e)  BY <1>3 DEF Has
<1>5. \A n : Has(s, n) => Has(t, n)
  <2> SUFFICES ASSUME NEW n, Has(s, n)  PROVE Has(t, n)
    OBVIOUS
  <2>1. PICK i \in 1 .. l : s[i] = n  BY <1>1 DEF Has
  <2>2. i \in 1 .. Len(t) /\ t[i] = n  BY <2>1, <1>3
  <2> QED  BY <2>2 DEF Has
<1>6. \A i \in 1 .. Len(t) : (i \in 1 .. l /\ t[i] = s[i]) \/ (i = l + 1 /\ t[i] = e)  BY <1>3
<1>7. ASSUME Rising(s), \A i \in 1 .. l : s[i] < e  PROVE Rising(t)
  <2> SUFFICES ASSUME NEW i \in 1 .. l + 1, NEW j \in 1 .. l + 1, i < j  PROVE t[i] < t[j]
    BY <1>3 DEF Rising
  <2>1. i \in 1 .. l /\ t[i] = s[i]  BY <1>3
  <2>2. CASE j = l + 1  BY <2>1, <2>2, <1>3, <1>7
  <2>3. CASE j \in 1 .. l  BY <2>1, <2>3, <1>1, <1>3, <1>7 DEF Rising
  <2> QED  BY <2>2, <2>3
<1> QED  BY <1>1, <1>2, <1>3, <1>4, <1>5, <1>6, <1>7

\* A push puts the line into the client's channel, and otherwise the stream is disturbed: it
\* is when the channel is full, or an older line is still to come.
LEMMA StreamPush ==
  ASSUME CursorInv, StreamInv, PushInv, DoorsInv, seqno \in Nat, NEW a \in Appenders,
         NEW c \in Clients, Push(a, c)
  PROVE  CursorInv' /\ StreamInv'
<1> USE DEF logger, wires, row, run, append, flush, client, hist
<1>1. /\ apc[a] = "push" /\ c \in targets[a] /\ cstate[c] = "open"
      /\ UNCHANGED <<seqno, cstate, got, since, cpc, panicked>>
      /\ targets' = [targets EXCEPT ![a] = @ \ {c}]
      /\ crossed' = (crossed \/ \E b \in Appenders : c \in targets[b] /\ aseq[b] < aseq[a])
  BY DEF Push
<1>2. PICK e : e = aseq[a]  OBVIOUS
<1>3. e \in Nat /\ e \in 1 .. seqno  BY <1>1, <1>2 DEF PushInv
<1>4. \/ chan' = chan /\ lagged'
      \/ chan' = [chan EXCEPT ![c] = Append(@, e)] /\ lagged' = lagged
  BY <1>2 DEF Push
<1>5. PICK s : s = chan[c] /\ s \in Seq(Nat)  BY DEF CursorInv
<1>6. PICK t : t = Append(s, e)  OBVIOUS
<1>7. /\ t \in Seq(Nat) /\ Has(t, e)
      /\ \A n : Has(s, n) => Has(t, n)
      /\ \A i \in 1 .. Len(t) : (i \in 1 .. Len(s) /\ t[i] = s[i]) \/ (i = Len(s) + 1 /\ t[i] = e)
      /\ Rising(s) /\ (\A i \in 1 .. Len(s) : s[i] < e) => Rising(t)
  BY <1>3, <1>5, <1>6, AppendHas
<1>8. CASE chan' = chan /\ lagged'
  <2>1. CursorInv'  BY <1>1, <1>8 DEF CursorInv
  <2>2. ~Undisturbed'  BY <1>8 DEF Undisturbed
  <2> QED  BY <2>1, <2>2 DEF StreamInv
<1>9. CASE chan' = [chan EXCEPT ![c] = Append(@, e)] /\ lagged' = lagged
  <2>1. \A d \in Clients : chan'[d] = IF d = c THEN t ELSE chan[d]
    BY <1>5, <1>6, <1>9 DEF CursorInv
  <2>2. CursorInv'
    <3>1. chan' \in [Clients -> Seq(Nat)]  BY <1>5, <1>6, <1>7, <1>9 DEF CursorInv
    <3>2. \A d \in Clients : cstate'[d] = "none" => chan'[d] = <<>>
      BY <1>1, <2>1 DEF CursorInv
    <3>3. \A d \in Clients : \A i \in 1 .. Len(chan'[d]) : chan'[d][i] \in 1 .. seqno
      BY <1>3, <1>5, <1>7, <2>1 DEF CursorInv
    <3> QED  BY <1>1, <3>1, <3>2, <3>3 DEF CursorInv
  <2>3. ASSUME Undisturbed', NEW d \in Clients
        PROVE  /\ got'[d] = [i \in 1 .. since'[d] |-> i]
               /\ Follows(d)' => Covered(d)'
    <3>1. Undisturbed /\ ~\E b \in Appenders : c \in targets[b] /\ aseq[b] < aseq[a]
      BY <1>1, <1>9, <2>3 DEF Undisturbed
    <3>2. got'[d] = [i \in 1 .. since'[d] |-> i]  BY <1>1, <3>1 DEF StreamInv
    <3>3. ASSUME Follows(d)'  PROVE Covered(d)'
      <4>1. Follows(d) /\ Covered(d)  BY <1>1, <3>1, <3>3 DEF StreamInv, Follows
      <4>2. \A b \in Appenders : d \in targets'[b] =>
              d \in targets[b] /\ apc[b] = "push" /\ aseq'[b] = aseq[b] /\ (d = c => b # a)
        BY <1>1 DEF Push, PushInv
      <4>3. CASE d # c
        <5>1. \A b \in Appenders : d \in targets[b] => d \in targets'[b] /\ aseq'[b] = aseq[b]
          BY <1>1, <4>3 DEF Push, PushInv
        <5>2. chan'[d] = chan[d]  BY <2>1, <4>3
        <5> QED  BY <1>1, <4>1, <4>2, <5>1, <5>2 DEF Covered, Has, Rising
      <4>4. CASE d = c
        <5>1. chan'[c] = t  BY <2>1
        <5>2. \A i \in 1 .. Len(s) : s[i] < e  BY <1>1, <1>2, <1>5, <4>1, <4>4 DEF Covered
        <5>3. Rising(t)  BY <1>5, <1>7, <4>1, <4>4, <5>2 DEF Covered
        <5>4. \A b \in Appenders : c \in targets'[b] => e < aseq'[b]
          <6> SUFFICES ASSUME NEW b \in Appenders, c \in targets'[b]  PROVE e < aseq'[b]
            OBVIOUS
          <6>1. c \in targets[b] /\ apc[b] = "push" /\ aseq'[b] = aseq[b] /\ b # a  BY <4>2, <4>4
          <6>2. aseq[b] # e /\ aseq[b] \in Nat /\ ~(aseq[b] < e)  BY <6>1, <1>1, <1>2, <3>1 DEF PushInv
          <6> QED  BY <6>1, <6>2, <1>3
        <5>5. \A i \in 1 .. Len(t) : \A b \in Appenders : c \in targets'[b] => t[i] < aseq'[b]
          <6> SUFFICES ASSUME NEW i \in 1 .. Len(t), NEW b \in Appenders, c \in targets'[b]
                       PROVE  t[i] < aseq'[b]
            OBVIOUS
          <6>1. CASE t[i] = e  BY <6>1, <5>4
          <6>2. CASE i \in 1 .. Len(s) /\ t[i] = s[i]
            BY <6>2, <1>5, <4>1, <4>2, <4>4 DEF Covered
          <6> QED  BY <6>1, <6>2, <1>7
        <5>6. \A n \in since'[c] + 1 .. seqno' :
                 Has(t, n) \/ \E b \in Appenders : c \in targets'[b] /\ aseq'[b] = n
          <6> SUFFICES ASSUME NEW n \in since[c] + 1 .. seqno
                       PROVE  Has(t, n) \/ \E b \in Appenders : c \in targets'[b] /\ aseq'[b] = n
            BY <1>1
          <6>1. Has(s, n) \/ \E b \in Appenders : c \in targets[b] /\ aseq[b] = n
            BY <1>5, <4>1, <4>4 DEF Covered
          <6>2. CASE Has(s, n)  BY <6>2, <1>7
          <6>3. CASE \E b \in Appenders : c \in targets[b] /\ aseq[b] = n
            <7>1. PICK b \in Appenders : c \in targets[b] /\ aseq[b] = n  BY <6>3
            <7>2. CASE b = a  BY <7>1, <7>2, <1>2, <1>7
            <7>3. CASE b # a
              <8>1. targets'[b] = targets[b] /\ aseq'[b] = aseq[b]
                BY <1>1, <7>3 DEF Push, PushInv
              <8> QED  BY <7>1, <8>1
            <7> QED  BY <7>2, <7>3
          <6> QED  BY <6>1, <6>2, <6>3
        <5>7. Rising(chan[c])'  BY <5>1, <5>3 DEF Rising
        <5> QED  BY <4>4, <5>1, <5>5, <5>6, <5>7 DEF Covered, Has
      <4> QED  BY <4>3, <4>4
    <3> QED  BY <3>2, <3>3
  <2> QED  BY <2>2, <2>3 DEF StreamInv
<1> QED  BY <1>4, <1>8, <1>9
\* A channel without its first line.
LEMMA TailHas ==
  ASSUME NEW s \in Seq(Nat), s # <<>>
  PROVE  /\ Tail(s) \in Seq(Nat) /\ Head(s) = s[1] /\ Head(s) \in Nat /\ 1 \in 1 .. Len(s)
         /\ \A i \in 1 .. Len(Tail(s)) : i + 1 \in 1 .. Len(s) /\ Tail(s)[i] = s[i + 1]
         /\ \A n : Has(s, n) /\ n # Head(s) => Has(Tail(s), n)
         /\ Rising(s) => Rising(Tail(s)) /\ \A i \in 1 .. Len(s) : s[1] <= s[i]
<1>1. PICK l \in Nat : l = Len(s) /\ l >= 1  OBVIOUS
<1>2. PICK t : t = Tail(s)  OBVIOUS
<1>3. /\ t \in Seq(Nat) /\ Len(t) = l - 1
      /\ \A i \in 1 .. l - 1 : t[i] = s[i + 1]
  BY <1>1, <1>2
<1>4. Head(s) = s[1] /\ s[1] \in Nat /\ 1 \in 1 .. l  BY <1>1
<1>5. \A i \in 1 .. Len(t) : i + 1 \in 1 .. l /\ t[i] = s[i + 1]  BY <1>3
<1>6. \A n : Has(s, n) /\ n # Head(s) => Has(t, n)
  <2> SUFFICES ASSUME NEW n, Has(s, n), n # Head(s)  PROVE Has(t, n)
    OBVIOUS
  <2>1. PICK i \in 1 .. l : s[i] = n  BY <1>1 DEF Has
  <2>2. i # 1 /\ i - 1 \in 1 .. l - 1 /\ (i - 1) + 1 = i  BY <2>1, <1>4
  <2>3. t[i - 1] = n  BY <2>1, <2>2, <1>3
  <2> QED  BY <2>2, <2>3, <1>3 DEF Has
<1>7. ASSUME Rising(s)  PROVE Rising(t) /\ \A i \in 1 .. l : s[1] <= s[i]
  <2>1. Rising(t)
    <3> SUFFICES ASSUME NEW i \in 1 .. l - 1, NEW j \in 1 .. l - 1, i < j  PROVE t[i] < t[j]
      BY <1>3 DEF Rising
    <3>1. i + 1 \in 1 .. l /\ j + 1 \in 1 .. l /\ i + 1 < j + 1  OBVIOUS
    <3> QED  BY <3>1, <1>1, <1>3, <1>7 DEF Rising
  <2>2. \A i \in 1 .. l : s[1] <= s[i]
    <3> SUFFICES ASSUME NEW i \in 1 .. l  PROVE s[1] <= s[i]
      OBVIOUS
    <3>1. CASE i = 1  BY <3>1, <1>4
    <3>2. CASE i > 1
      <4>1. s[1] < s[i]  BY <3>2, <1>1, <1>4, <1>7 DEF Rising
      <4>2. s[i] \in Nat  BY <1>1
      <4> QED  BY <4>1, <4>2, <1>4
    <3> QED  BY <3>1, <3>2
  <2> QED  BY <2>1, <2>2
<1> QED  BY <1>1, <1>2, <1>3, <1>4, <1>5, <1>6, <1>7

\* The stream's loop takes a line out of the channel: it is the next one, or known already.
LEMMA StreamRecv ==
  ASSUME CursorInv, StreamInv, PushInv, seqno \in Nat, NEW c \in Clients, Recv(c)
  PROVE  CursorInv' /\ StreamInv'
<1> USE DEF logger, wires, row, run, append, flush, client, hist
<1>1. /\ cpc[c] = "loop" /\ chan[c] # <<>> /\ chan' = [chan EXCEPT ![c] = Tail(@)]
      /\ UNCHANGED <<seqno, cstate, cpc, aseq, targets, lagged, crossed, panicked>>
  BY DEF Recv
<1>2. PICK s : s = chan[c]  OBVIOUS
<1>3. s \in Seq(Nat) /\ s # <<>> /\ cstate[c] # "none"  BY <1>1, <1>2 DEF CursorInv
<1>4. PICK t : t = Tail(s)  OBVIOUS
<1>5. PICK h : h = Head(s)  OBVIOUS
<1>6. /\ t \in Seq(Nat) /\ h = s[1] /\ h \in Nat /\ 1 \in 1 .. Len(s)
      /\ \A i \in 1 .. Len(t) : i + 1 \in 1 .. Len(s) /\ t[i] = s[i + 1]
      /\ \A n : Has(s, n) /\ n # h => Has(t, n)
      /\ Rising(s) => Rising(t) /\ \A i \in 1 .. Len(s) : s[1] <= s[i]
  BY <1>3, <1>4, <1>5, TailHas
<1>7. \A i \in 1 .. Len(s) : s[i] \in 1 .. seqno  BY <1>2 DEF CursorInv
<1>8. h \in 1 .. seqno  BY <1>6, <1>7
<1>9. PICK n \in Nat : n = since[c] /\ n <= seqno  BY DEF CursorInv
<1>10. PICK b : b = After(<<h>>, n)  OBVIOUS
<1>11. <<h>> \in Seq(Nat) /\ Len(<<h>>) = 1 /\ <<h>>[1] = h /\ <<h>> # <<>>  BY <1>6
<1>12. Steady(<<h>>)  BY <1>8, <1>11 DEF Steady
<1>13. /\ Steady(b) /\ (b = <<>> <=> h <= n)
       /\ b # <<>> => b[1] > n /\ b[Len(b)] = h
       /\ b # <<>> /\ h <= n + 1 => b[1] = n + 1
  <2>1. PICK log : log = <<h>>  OBVIOUS
  <2>2. Steady(log) /\ log # <<>> /\ log[Len(log)] = h /\ log[1] = h
    BY <1>11, <1>12, <2>1
  <2>3. b = After(log, n)  BY <1>10, <2>1
  <2>4. /\ Steady(b) /\ (b = <<>> <=> (log = <<>> \/ log[Len(log)] <= n))
        /\ b # <<>> => /\ b[1] > n /\ b[Len(b)] = log[Len(log)]
                       /\ log[1] <= n + 1 => b[1] = n + 1
    BY <2>2, <2>3, AfterIs
  <2> QED  BY <2>2, <2>4
<1>14. Receive(c, b)  BY <1>2, <1>5, <1>9, <1>10 DEF Recv
<1>15. b # <<>> => b[1] > since[c] /\ b[Len(b)] <= seqno  BY <1>8, <1>9, <1>13
<1>16. /\ got' \in [Clients -> Seq(Nat)] /\ since' \in [Clients -> Nat]
       /\ \A d \in Clients : Kept(got'[d], since'[d]) /\ since'[d] <= seqno
       /\ \A d \in Clients : since'[d] >= since[d]
       /\ since'[c] = CursorAfter(b, since[c])
       /\ \A d \in Clients \ {c} : got'[d] = got[d] /\ since'[d] = since[d]
       /\ got[c] = [i \in 1 .. since[c] |-> i] /\ (b # <<>> => b[1] = since[c] + 1) =>
            got'[c] = [i \in 1 .. since'[c] |-> i]
  BY <1>13, <1>14, <1>15, ReceiveMoves
<1>17. since'[c] >= h /\ since'[c] \in Nat  BY <1>9, <1>13, <1>16 DEF CursorAfter
<1>18. \A d \in Clients : chan'[d] = IF d = c THEN t ELSE chan[d]
  BY <1>1, <1>2, <1>4 DEF CursorInv
<1>19. CursorInv'
  <2>1. chan' \in [Clients -> Seq(Nat)]  BY <1>1, <1>2, <1>4, <1>6 DEF CursorInv
  <2>2. \A d \in Clients : cstate'[d] = "none" => chan'[d] = <<>>
    BY <1>1, <1>3, <1>18 DEF CursorInv
  <2>3. \A d \in Clients : \A i \in 1 .. Len(chan'[d]) : chan'[d][i] \in 1 .. seqno
    BY <1>6, <1>7, <1>18 DEF CursorInv
  <2> QED  BY <1>1, <1>16, <2>1, <2>2, <2>3 DEF CursorInv
<1>20. ASSUME Undisturbed', NEW d \in Clients
       PROVE  /\ got'[d] = [i \in 1 .. since'[d] |-> i]
              /\ Follows(d)' => Covered(d)'
  <2>1. Undisturbed  BY <1>1, <1>20 DEF Undisturbed
  <2>2. got[d] = [i \in 1 .. since[d] |-> i] /\ (Follows(d) => Covered(d))
    BY <2>1 DEF StreamInv
  <2>3. CASE d # c
    <3>1. since'[d] \in Nat /\ since'[d] >= since[d] /\ chan'[d] = chan[d]
      BY <2>3, <1>16, <1>18
    <3>2. Follows(d)' => Follows(d)  BY <1>1 DEF Follows
    <3>3. Follows(d) => Covered(d)'  BY <1>1, <2>2, <3>1, CoverStays
    <3> QED  BY <2>2, <2>3, <1>16, <3>2, <3>3
  <2>4. CASE d = c
    <3>1. Covered(c)  BY <1>1, <1>3, <2>2, <2>4 DEF Follows
    <3>2. Rising(s)  BY <1>2, <3>1 DEF Covered
    <3>3. h <= n + 1
      <4> SUFFICES ASSUME h > n  PROVE h <= n + 1
        BY <1>8, <1>9
      <4>1. n + 1 \in since[c] + 1 .. seqno  BY <1>8, <1>9
      <4>2. CASE Has(s, n + 1)
        <5>1. PICK i \in 1 .. Len(s) : s[i] = n + 1  BY <4>2 DEF Has
        <5>2. s[1] <= s[i]  BY <3>2, <1>6
        <5> QED  BY <5>1, <5>2, <1>6
      <4>3. CASE \E a \in Appenders : c \in targets[a] /\ aseq[a] = n + 1
        <5>1. PICK a \in Appenders : c \in targets[a] /\ aseq[a] = n + 1  BY <4>3
        <5>2. s[1] < aseq[a]  BY <5>1, <1>2, <1>6, <3>1 DEF Covered
        <5> QED  BY <5>1, <5>2, <1>6, <1>8
      <4> QED  BY <1>2, <3>1, <4>1, <4>2, <4>3 DEF Covered
    <3>4. got'[c] = [i \in 1 .. since'[c] |-> i]
      BY <1>9, <1>13, <1>16, <2>2, <2>4, <3>3
    <3>5. \A i \in 1 .. Len(t) : \A a \in Appenders : c \in targets[a] => t[i] < aseq[a]
      BY <1>2, <1>6, <3>1 DEF Covered
    <3>6. \A m \in since'[c] + 1 .. seqno :
             Has(t, m) \/ \E a \in Appenders : c \in targets[a] /\ aseq[a] = m
      <4> SUFFICES ASSUME NEW m \in since'[c] + 1 .. seqno
                   PROVE  Has(t, m) \/ \E a \in Appenders : c \in targets[a] /\ aseq[a] = m
        OBVIOUS
      <4>1. m \in since[c] + 1 .. seqno /\ m # h  BY <1>8, <1>9, <1>16, <1>17
      <4>2. Has(s, m) \/ \E a \in Appenders : c \in targets[a] /\ aseq[a] = m
        BY <1>2, <3>1, <4>1 DEF Covered
      <4> QED  BY <4>1, <4>2, <1>6
    <3>7. chan'[c] = t /\ Rising(t)  BY <1>6, <1>18, <3>2
    <3>8. Rising(chan[c])'  BY <3>7 DEF Rising
    <3>9. Covered(c)'  BY <1>1, <3>5, <3>6, <3>7, <3>8 DEF Covered, Has
    <3> QED  BY <2>4, <3>4, <3>9
  <2> QED  BY <2>3, <2>4
<1> QED  BY <1>19, <1>20 DEF StreamInv

\* The row as GetTaskLogs reads it is what the client begins with.
LEMMA AllAfter ==
  ASSUME NEW log, Steady(log)
  PROVE  After(log, 0) = log
<1>1. log \in Seq(Nat) /\ Len(log) \in Nat  BY DEF Steady
<1>2. PICK k \in 1 .. Len(log) + 1 : k = FirstAfter(log, 0)  BY FirstAfterIs
<1>3. \A i \in 1 .. Len(log) : log[i] > 0 <=> k <= i  BY <1>2, FirstAfterIs
<1>4. CASE log = <<>>  BY <1>1, <1>2, <1>4 DEF After
<1>5. CASE log # <<>>
  <2>1. 1 \in 1 .. Len(log) /\ log[1] \in Nat /\ log[1] >= 1  BY <1>1, <1>5 DEF Steady
  <2>2. k = 1  BY <1>2, <1>3, <2>1
  <2>3. SubSeq(log, 1, Len(log)) = log  BY <1>1
  <2> QED  BY <1>2, <2>2, <2>3 DEF After
<1> QED  BY <1>4, <1>5
\* A disturbed stream stays disturbed.
LEMMA StepDisturbs ==
  ASSUME LogsInv, DoorsInv, [Next]_vars, Undisturbed'
  PROVE  Undisturbed
<1> USE DEF logger, wires, row, run, append, flush, client, hist
<1>1. seqno \in Nat /\ seqno' \in Nat /\ seqno' >= seqno  BY StepGrows
<1>2. CASE UNCHANGED <<panicked, lagged, crossed>>
  BY <1>1, <1>2, BoundAssumption DEF Undisturbed
<1>3. CASE \E a \in Appenders, c \in Clients : Push(a, c)
  BY <1>1, <1>3, BoundAssumption DEF Push, Undisturbed
<1>4. CASE \E a \in Appenders, c \in Clients : PushPanic(a, c)
  BY <1>1, <1>4, BoundAssumption DEF PushPanic, Undisturbed
<1>5. CASE Run
  BY <1>2, <1>5 DEF Run, SaveRunning, NewTaskLogger, RunLine, ExecEnd, WriteStatus, CloseMark,
     CloseFlushed, Unregister, CloseChannel
<1>6. CASE \/ CancelRow \/ LoopExit \/ UNCHANGED vars
           \/ \E a \in Exec : Line(a)
           \/ \E f \in Flushers : Flush(f) \/ FlushFault(f)
           \/ \E c \in Clients : GetTaskLogs(c) \/ Open(c) \/ ReadFault(c) \/ Leave(c)
  BY <1>2, <1>6 DEF CancelRow, LoopExit, vars, Line, Flush, FlushTake, FlushLock,
     FlushWrite, FlushFault, GetTaskLogs, Open, ReadFault, Leave
<1>7. CASE \E c \in Clients : StreamLogs(c)
  BY <1>2, <1>7 DEF StreamLogs, Subscribe, Recv, RecvClosed, Tick, TickRead, Unsub
<1> QED  BY <1>3, <1>4, <1>5, <1>6, <1>7 DEF Next

\* The first lines of a client are the row's, all of them (GetTaskLogs).
LEMMA StreamBegins ==
  ASSUME LogsInv, DoorsInv, PushInv, CursorInv, StreamInv, NEW c \in Clients, GetTaskLogs(c)
  PROVE  CursorInv' /\ StreamInv'
<1> USE DEF logger, wires, row, run, append, flush, client, hist
<1>1. /\ cpc[c] = "new" /\ got[c] = <<>> /\ Receive(c, db)
      /\ UNCHANGED <<seqno, chan, aseq, targets, lagged, crossed, panicked, cstate, cpc>>
  BY DEF GetTaskLogs
<1>2. since[c] = 0  BY <1>1 DEF CursorInv, Kept
<1>3. seqno \in Nat /\ Fits(db, seqno)  BY DEF LogsInv
<1>4. After(db, since[c]) = db  BY <1>2, <1>3, FitIsSteady, AllAfter
<1>5. Receive(c, After(db, since[c]))  BY <1>1, <1>4
<1>6. \A d \in Clients : Follows(d)' => Follows(d)  BY <1>1 DEF Follows
<1> QED  BY <1>1, <1>3, <1>5, <1>6, StreamReads

\* Every step keeps cursors and channels in order, and what has not arrived on its way.
LEMMA StepKeepsStreams ==
  ASSUME LogsInv, DoorsInv, PushInv, CursorInv, StreamInv, [Next]_vars
  PROVE  CursorInv' /\ StreamInv'
<1> USE DEF logger, wires, row, run, append, flush, client, hist
<1>s. seqno \in Nat  BY DEF LogsInv
<1>u. Undisturbed' => Undisturbed  BY StepDisturbs
<1>c. \A d \in Clients : cstate'[d] = "none" => cstate[d] = "none"  BY StepGrows
<1>q. ASSUME UNCHANGED <<seqno, got, since, chan, aseq, targets>>,
             \A d \in Clients : Follows(d)' => Follows(d)
      PROVE  CursorInv' /\ StreamInv'
  BY <1>s, <1>u, <1>c, <1>q, StreamRest
<1>p. ASSUME UNCHANGED <<seqno, got, since, chan, aseq, targets, cstate, cpc>>
      PROVE  CursorInv' /\ StreamInv'
  <2>1. \A d \in Clients : Follows(d)' => Follows(d)  BY <1>p DEF Follows
  <2> QED  BY <1>p, <1>q, <2>1
<1>1. CASE UNCHANGED vars  BY <1>1, <1>p DEF vars
<1>2. CASE Run
  <2>1. CASE RunLine  BY <1>s, <2>1, StreamTake DEF RunLine, Appenders
  <2>2. CASE \E c \in Clients : CloseChannel(c)
    <3>1. PICK c \in Clients : CloseChannel(c)  BY <2>2
    <3>2. /\ UNCHANGED <<seqno, got, since, chan, aseq, targets, cpc>> /\ cstate[c] = "open"
          /\ cstate' = [cstate EXCEPT ![c] = "closed"]
      BY <3>1 DEF CloseChannel, DoorsInv
    <3>3. \A d \in Clients : Follows(d)' => Follows(d)  BY <3>2 DEF Follows, DoorsInv
    <3> QED  BY <1>q, <3>2, <3>3
  <2>3. CASE ~RunLine /\ ~\E c \in Clients : CloseChannel(c)
    BY <1>2, <2>3, <1>p DEF Run, SaveRunning, NewTaskLogger, ExecEnd, WriteStatus, CloseMark,
       CloseFlushed, Unregister
  <2> QED  BY <2>1, <2>2, <2>3
<1>3. CASE CancelRow \/ LoopExit  BY <1>3, <1>p DEF CancelRow, LoopExit
<1>4. CASE \E a \in Exec : Line(a)  BY <1>s, <1>4, StreamTake DEF Line, Appenders
<1>5. CASE \E a \in Appenders, c \in Clients : Push(a, c) \/ PushPanic(a, c)
  <2>1. PICK a \in Appenders, c \in Clients : Push(a, c) \/ PushPanic(a, c)  BY <1>5
  <2>2. CASE Push(a, c)  BY <1>s, <2>2, StreamPush
  <2>3. CASE PushPanic(a, c)
    <3>1. UNCHANGED <<seqno, got, since, chan, cstate>> /\ a \in panicked'
      BY <2>3 DEF PushPanic
    <3>2. CursorInv'  BY <3>1 DEF CursorInv
    <3>3. ~Undisturbed'  BY <3>1 DEF Undisturbed
    <3> QED  BY <3>2, <3>3 DEF StreamInv
  <2> QED  BY <2>1, <2>2, <2>3
<1>6. CASE \E f \in Flushers : Flush(f) \/ FlushFault(f)
  BY <1>6, <1>p DEF Flush, FlushTake, FlushLock, FlushWrite, FlushFault
<1>7. CASE \E c \in Clients : \/ GetTaskLogs(c) \/ Open(c) \/ StreamLogs(c)
                              \/ ReadFault(c) \/ Leave(c)
  <2>1. PICK c \in Clients : \/ GetTaskLogs(c) \/ Open(c) \/ StreamLogs(c)
                             \/ ReadFault(c) \/ Leave(c)
    BY <1>7
  <2>l. /\ Fits(db, seqno) /\ Fits(entries, seqno) /\ Fits(snap[c], seqno)
        /\ seqno > 0 => entries # <<>> /\ entries[Len(entries)] = seqno
    BY DEF LogsInv
  <2>m. ASSUME NEW p, p \notin {"loop", "read"} \/ cpc[c] \in {"loop", "read"} \/ cstate[c] = "none",
               cpc' = [cpc EXCEPT ![c] = p], UNCHANGED cstate
        PROVE  \A d \in Clients : Follows(d)' => Follows(d)
    BY <2>m DEF Follows, DoorsInv
  <2>2. CASE GetTaskLogs(c)  BY <2>2, StreamBegins
  <2>3. CASE Open(c)
    <3>1. CASE status = "final"
      <4>1. /\ Receive(c, After(db, since[c])) /\ cpc' = [cpc EXCEPT ![c] = "leaving"]
            /\ UNCHANGED <<seqno, chan, aseq, targets, lagged, crossed, panicked, cstate>>
        BY <2>3, <3>1 DEF Open, End
      <4>2. \A d \in Clients : Follows(d)' => Follows(d)  BY <2>m, <4>1
      <4> QED  BY <1>s, <2>l, <4>1, <4>2, StreamReads
    <3>2. CASE status # "final"
      <4>1. /\ cpc' = [cpc EXCEPT ![c] = "subscribe"]
            /\ UNCHANGED <<seqno, got, since, chan, aseq, targets, cstate>>
        BY <2>3, <3>2 DEF Open, Stay
      <4>2. \A d \in Clients : Follows(d)' => Follows(d)  BY <2>m, <4>1
      <4> QED  BY <1>q, <4>1, <4>2
    <3> QED  BY <3>1, <3>2
  <2>4. CASE Subscribe(c)
    <3>1. /\ cpc[c] = "subscribe" /\ cpc' = [cpc EXCEPT ![c] = "loop"] /\ cstate[c] = "none"
          /\ UNCHANGED <<seqno, chan, aseq, targets, lagged, crossed, panicked>>
      BY <2>4 DEF Subscribe, Stay, DoorsInv
    <3>2. CASE live
      <4>1. Receive(c, After(entries, since[c]))  BY <2>4, <3>2 DEF Subscribe, SubscribeSince
      <4>2. \A d \in Clients \ {c} : cstate'[d] = cstate[d] /\ cpc'[d] = cpc[d]
        BY <2>4, <3>1, <3>2 DEF Subscribe, SubscribeSince, DoorsInv
      <4>3. \A d \in Clients \ {c} : Follows(d)' => Follows(d)  BY <4>2 DEF Follows
      <4> QED  BY <1>s, <1>c, <2>l, <3>1, <4>1, <4>3, StreamReads
    <3>3. CASE ~live
      <4>1. Receive(c, After(snap[c], since[c])) /\ UNCHANGED cstate  BY <2>4, <3>3 DEF Subscribe
      <4>2. \A d \in Clients : Follows(d)' => Follows(d)
        BY <3>1, <4>1 DEF Follows, DoorsInv
      <4> QED  BY <1>s, <1>c, <2>l, <3>1, <4>1, <4>2, StreamReads
    <3> QED  BY <3>2, <3>3
  <2>5. CASE Recv(c)  BY <1>s, <2>5, StreamRecv
  <2>6. CASE RecvClosed(c)
    <3>1. /\ Receive(c, After(db, since[c])) /\ cpc' = [cpc EXCEPT ![c] = "leaving"]
          /\ UNCHANGED <<seqno, chan, aseq, targets, lagged, crossed, panicked, cstate>>
      BY <2>6 DEF RecvClosed, End
    <3>2. \A d \in Clients : Follows(d)' => Follows(d)  BY <2>m, <3>1
    <3> QED  BY <1>s, <2>l, <3>1, <3>2, StreamReads
  <2>7. CASE Tick(c)
    <3>1. /\ cpc[c] = "loop" /\ cpc' = [cpc EXCEPT ![c] = "read"]
          /\ UNCHANGED <<seqno, chan, aseq, targets, lagged, crossed, panicked>>
      BY <2>7 DEF Tick, Stay
    <3>2. CASE cstate[c] = "none" /\ live
      <4>1. Receive(c, After(entries, since[c]))  BY <2>7, <3>2 DEF Tick, SubscribeSince
      <4>2. \A d \in Clients \ {c} : cstate'[d] = cstate[d] /\ cpc'[d] = cpc[d]
        BY <2>7, <3>1, <3>2 DEF Tick, SubscribeSince, DoorsInv
      <4>3. \A d \in Clients \ {c} : Follows(d)' => Follows(d)  BY <4>2 DEF Follows
      <4> QED  BY <1>s, <1>c, <2>l, <3>1, <3>2, <4>1, <4>3, StreamReads
    <3>3. CASE ~(cstate[c] = "none" /\ live)
      <4>1. UNCHANGED <<got, since, cstate>>  BY <2>7, <3>3 DEF Tick
      <4>2. \A d \in Clients : Follows(d)' => Follows(d)  BY <2>m, <3>1, <4>1
      <4> QED  BY <1>q, <3>1, <4>1, <4>2
    <3> QED  BY <3>2, <3>3
  <2>8. CASE TickRead(c)
    <3>1. /\ Receive(c, After(db, since[c])) /\ cpc[c] = "read"
          /\ UNCHANGED <<seqno, chan, aseq, targets, lagged, crossed, panicked, cstate>>
          /\ cpc' = [cpc EXCEPT ![c] = "leaving"] \/ cpc' = [cpc EXCEPT ![c] = "loop"]
      BY <2>8 DEF TickRead, End, Stay
    <3>2. \A d \in Clients : Follows(d)' => Follows(d)  BY <2>m, <3>1
    <3> QED  BY <1>s, <2>l, <3>1, <3>2, StreamReads
  <2>9. CASE ReadFault(c) \/ Leave(c)
    <3>1. /\ cpc' = [cpc EXCEPT ![c] = "leaving"]
          /\ UNCHANGED <<seqno, got, since, chan, aseq, targets, cstate>>
      BY <2>9 DEF ReadFault, Leave, End
    <3>2. \A d \in Clients : Follows(d)' => Follows(d)  BY <2>m, <3>1
    <3> QED  BY <1>q, <3>1, <3>2
  <2>10. CASE Unsub(c)
    <3>1. /\ cpc' = [cpc EXCEPT ![c] = "gone"]
          /\ UNCHANGED <<seqno, got, since, chan, aseq, targets>>
          /\ cstate' = cstate \/ cstate' = [cstate EXCEPT ![c] = "closed"]
      BY <2>10 DEF Unsub, Stay
    <3>2. \A d \in Clients : Follows(d)' => Follows(d)  BY <3>1 DEF Follows, DoorsInv
    <3> QED  BY <1>q, <3>1, <3>2
  <2> QED  BY <2>1, <2>2, <2>3, <2>4, <2>5, <2>6, <2>7, <2>8, <2>9, <2>10 DEF StreamLogs
<1> QED  BY <1>1, <1>2, <1>3, <1>4, <1>5, <1>6, <1>7 DEF Next
(***************************************************************************)
(* The end of a stream                                                     *)
(***************************************************************************)
\* Once a client has been told that its channel is closed, nothing about its stream changes:
\* the logger numbers no more lines, and a push that is still to come panics.
LEMMA EndedStays ==
  ASSUME DoorsInv, PushInv, CursorInv, FinInv, NEW c \in Clients, Ended(c), [Next]_vars
  PROVE  /\ Ended(c)' /\ seqno' = seqno /\ since'[c] = since[c] /\ fin'[c] = fin[c]
         /\ \/ panicked' # {}
            \/ \A a \in Appenders : c \in targets[a] => c \in targets'[a]
<1> USE DEF logger, wires, row, run, append, flush, client, hist
<1>0. closed /\ cstate[c] = "closed" /\ cpc[c] \in {"leaving", "gone"} /\ subs = {}
  BY DEF Ended, DoorsInv
<1>q. ASSUME UNCHANGED <<closed, seqno, targets>>, cstate'[c] = cstate[c], cpc'[c] = cpc[c],
             since'[c] = since[c], fin'[c] = fin[c]
      PROVE  /\ Ended(c)' /\ seqno' = seqno /\ since'[c] = since[c] /\ fin'[c] = fin[c]
             /\ \A a \in Appenders : c \in targets[a] => c \in targets'[a]
  BY <1>0, <1>q DEF Ended
<1>1. CASE UNCHANGED vars  BY <1>1, <1>q DEF vars
<1>2. CASE Run
  <2>1. CASE RunLine  BY <1>0, <2>1 DEF RunLine, Take
  <2>2. CASE CloseMark  BY <1>0, <2>2 DEF CloseMark, Ended
  <2>3. CASE \E d \in Clients : CloseChannel(d)
    <3>1. PICK d \in Clients : CloseChannel(d)  BY <2>3
    <3>2. cstate'[c] = "closed"  BY <1>0, <3>1 DEF CloseChannel, DoorsInv
    <3> QED  BY <1>0, <1>q, <3>1, <3>2 DEF CloseChannel
  <2>4. CASE ~RunLine /\ ~CloseMark /\ ~\E d \in Clients : CloseChannel(d)
    BY <1>2, <2>4, <1>q DEF Run, SaveRunning, NewTaskLogger, ExecEnd, WriteStatus,
       CloseFlushed, Unregister
  <2> QED  BY <2>1, <2>2, <2>3, <2>4
<1>3. CASE CancelRow \/ LoopExit  BY <1>3, <1>q DEF CancelRow, LoopExit
<1>4. CASE \E a \in Exec : Line(a)  BY <1>0, <1>4 DEF Line, Take
<1>5. CASE \E a \in Appenders, d \in Clients : Push(a, d) \/ PushPanic(a, d)
  <2>1. PICK a \in Appenders, d \in Clients : Push(a, d) \/ PushPanic(a, d)  BY <1>5
  <2>2. CASE Push(a, d)
    <3>1. cstate[d] = "open" /\ targets' = [targets EXCEPT ![a] = @ \ {d}]  BY <2>2 DEF Push
    <3>2. d # c  BY <1>0, <3>1
    <3>3. \A b \in Appenders : c \in targets[b] => c \in targets'[b]
      BY <3>1, <3>2 DEF PushInv
    <3>4. UNCHANGED <<closed, seqno, cstate, cpc, since, fin>>  BY <2>2 DEF Push
    <3> QED  BY <1>0, <3>3, <3>4 DEF Ended
  <2>3. CASE PushPanic(a, d)
    <3>1. UNCHANGED <<closed, seqno, cstate, cpc, since, fin>> /\ a \in panicked'
      BY <2>3 DEF PushPanic
    <3> QED  BY <1>0, <3>1 DEF Ended
  <2> QED  BY <2>1, <2>2, <2>3
<1>6. CASE \E f \in Flushers : Flush(f) \/ FlushFault(f)
  BY <1>6, <1>q DEF Flush, FlushTake, FlushLock, FlushWrite, FlushFault
<1>7. CASE \E d \in Clients : \/ GetTaskLogs(d) \/ Open(d) \/ StreamLogs(d)
                              \/ ReadFault(d) \/ Leave(d)
  <2>1. PICK d \in Clients : \/ GetTaskLogs(d) \/ Open(d) \/ StreamLogs(d)
                             \/ ReadFault(d) \/ Leave(d)
    BY <1>7
  <2>e. UNCHANGED <<seqno, targets, closed>>
    BY <2>1 DEF GetTaskLogs, Open, StreamLogs, Subscribe, Recv, RecvClosed, Tick, TickRead, Unsub,
       ReadFault, Leave
  <2>2. CASE Unsub(d)
    <3>1. /\ cpc' = [cpc EXCEPT ![d] = "gone"] /\ UNCHANGED <<since, fin>>
          /\ cstate' = cstate \/ cstate' = [cstate EXCEPT ![d] = "closed"]
      BY <2>2 DEF Unsub, Stay
    <3>2. cpc'[c] \in {"leaving", "gone"} /\ cstate'[c] = "closed"  BY <1>0, <3>1 DEF DoorsInv
    <3> QED  BY <1>0, <2>e, <3>1, <3>2 DEF Ended
  <2>3. CASE ~Unsub(d)
    <3>1. d # c
      BY <1>0, <2>1, <2>3 DEF GetTaskLogs, Open, StreamLogs, Subscribe, Recv, RecvClosed, Tick,
         TickRead, ReadFault, Leave
    <3>2. cpc'[c] = cpc[c] /\ fin'[c] = fin[c]
      BY <2>1, <2>3, <3>1 DEF GetTaskLogs, Open, StreamLogs, Subscribe, Recv, RecvClosed, Tick,
         TickRead, ReadFault, Leave, End, Stay, DoorsInv, FinInv
    <3>3. since'[c] = since[c]
      BY <2>1, <2>3, <3>1 DEF GetTaskLogs, Open, StreamLogs, Subscribe, SubscribeSince, Recv,
         RecvClosed, Tick, TickRead, ReadFault, Leave, Receive, CursorInv
    <3>4. cstate'[c] = cstate[c]
      BY <1>0, <2>1, <2>3, <3>1 DEF GetTaskLogs, Open, StreamLogs, Subscribe, SubscribeSince, Recv,
         RecvClosed, Tick, TickRead, ReadFault, Leave
    <3> QED  BY <1>q, <2>e, <3>2, <3>3, <3>4
  <2> QED  BY <2>2, <2>3
<1> QED  BY <1>1, <1>2, <1>3, <1>4, <1>5, <1>6, <1>7 DEF Next

\* Only a receive from the closed channel ends a stream with it.
LEMMA ClosedBy ==
  ASSUME FinInv, [Next]_vars
  PROVE  /\ fin' \in [Clients -> {"no", "replay", "closed", "poll", "left"}]
         /\ \A c \in Clients : fin'[c] = "closed" => fin[c] = "closed" \/ RecvClosed(c)
<1> USE DEF logger, wires, row, run, append, flush, client, hist
<1>q. UNCHANGED fin =>
        /\ fin' \in [Clients -> {"no", "replay", "closed", "poll", "left"}]
        /\ \A c \in Clients : fin'[c] = "closed" => fin[c] = "closed" \/ RecvClosed(c)
  BY DEF FinInv
<1>1. CASE \E c \in Clients : \/ GetTaskLogs(c) \/ Open(c) \/ StreamLogs(c)
                              \/ ReadFault(c) \/ Leave(c)
  <2>1. PICK c \in Clients : \/ GetTaskLogs(c) \/ Open(c) \/ StreamLogs(c)
                             \/ ReadFault(c) \/ Leave(c)
    BY <1>1
  <2>2. \/ UNCHANGED fin
        \/ RecvClosed(c) /\ fin' = [fin EXCEPT ![c] = "closed"]
        \/ \E how \in {"replay", "poll", "left"} : fin' = [fin EXCEPT ![c] = how]
    <3>1. CASE Open(c)  BY <3>1 DEF Open, End, Stay
    <3>2. CASE RecvClosed(c)  BY <3>2 DEF RecvClosed, End
    <3>3. CASE TickRead(c)  BY <3>3 DEF TickRead, End, Stay
    <3>4. CASE ReadFault(c) \/ Leave(c)  BY <3>4 DEF ReadFault, Leave, End
    <3>5. CASE ~Open(c) /\ ~RecvClosed(c) /\ ~TickRead(c) /\ ~(ReadFault(c) \/ Leave(c))
      BY <2>1, <3>5 DEF GetTaskLogs, StreamLogs, Subscribe, Recv, Tick, Unsub, Stay
    <3> QED  BY <3>1, <3>2, <3>3, <3>4, <3>5
  <2>3. CASE RecvClosed(c) /\ fin' = [fin EXCEPT ![c] = "closed"]  BY <2>3 DEF FinInv
  <2>4. CASE \E how \in {"replay", "poll", "left"} : fin' = [fin EXCEPT ![c] = how]
    BY <2>4 DEF FinInv
  <2> QED  BY <1>q, <2>2, <2>3, <2>4
<1>2. CASE Run \/ CancelRow \/ LoopExit \/ UNCHANGED vars
  BY <1>2, <1>q DEF Run, SaveRunning, NewTaskLogger, RunLine, ExecEnd, WriteStatus, CloseMark,
     CloseFlushed, Unregister, CloseChannel, CancelRow, LoopExit, vars
<1>3. CASE \E a \in Exec : Line(a)  BY <1>3, <1>q DEF Line
<1>4. CASE \E a \in Appenders, c \in Clients : Push(a, c) \/ PushPanic(a, c)
  BY <1>4, <1>q DEF Push, PushPanic
<1>5. CASE \E f \in Flushers : Flush(f) \/ FlushFault(f)
  BY <1>5, <1>q DEF Flush, FlushTake, FlushLock, FlushWrite, FlushFault
<1> QED  BY <1>1, <1>2, <1>3, <1>4, <1>5 DEF Next

\* Every step keeps ended streams complete.
LEMMA StepKeepsEnds ==
  ASSUME LogsInv, DoorsInv, PushInv, CursorInv, StreamInv, FinInv, [Next]_vars
  PROVE  FinInv'
<1>1. fin' \in [Clients -> {"no", "replay", "closed", "poll", "left"}]  BY ClosedBy
<1>2. ASSUME NEW c \in Clients, fin'[c] = "closed"
      PROVE  /\ Ended(c)'
             /\ Undisturbed' /\ (\A a \in Appenders : c \notin targets'[a]) => since'[c] = seqno'
  <2>1. CASE fin[c] = "closed"
    <3>1. Ended(c) /\ (Undisturbed /\ (\A a \in Appenders : c \notin targets[a]) => since[c] = seqno)
      BY <2>1 DEF FinInv
    <3>2. /\ Ended(c)' /\ seqno' = seqno /\ since'[c] = since[c]
          /\ panicked' # {} \/ \A a \in Appenders : c \in targets[a] => c \in targets'[a]
      BY <3>1, EndedStays
    <3>3. Undisturbed' => Undisturbed /\ panicked' = {}  BY StepDisturbs DEF Undisturbed
    <3> QED  BY <3>1, <3>2, <3>3
  <2>2. CASE fin[c] # "closed"
    <3>1. RecvClosed(c)  BY <1>2, <2>2, ClosedBy
    <3>2. /\ cpc[c] = "loop" /\ chan[c] = <<>> /\ cstate[c] = "closed"
          /\ Receive(c, After(db, since[c])) /\ cpc' = [cpc EXCEPT ![c] = "leaving"]
          /\ UNCHANGED <<closed, cstate, seqno, targets, aseq, lagged, crossed, panicked>>
      BY <3>1 DEF RecvClosed, End, logger, wires, append, hist
    <3>3. closed  BY <3>2 DEF DoorsInv
    <3>4. Ended(c)'  BY <3>2, <3>3 DEF Ended, DoorsInv
    <3>5. ASSUME Undisturbed', \A a \in Appenders : c \notin targets'[a]
          PROVE  since'[c] = seqno
      <4>1. Undisturbed  BY <3>2, <3>5 DEF Undisturbed
      <4>2. Covered(c)  BY <3>2, <4>1 DEF StreamInv, Follows
      <4>3. seqno \in Nat /\ Fits(db, seqno)  BY DEF LogsInv
      <4>4. PICK n \in Nat : n = since[c] /\ n <= seqno  BY DEF CursorInv
      <4>5. n = seqno
        <5> SUFFICES ASSUME n < seqno  PROVE FALSE
          BY <4>3, <4>4
        <5>1. n + 1 \in since[c] + 1 .. seqno  BY <4>3, <4>4
        <5>2. Has(chan[c], n + 1)  BY <3>2, <3>5, <4>2, <5>1 DEF Covered
        <5> QED  BY <3>2, <5>2 DEF Has
      <4>6. PICK b : b = After(db, n)  OBVIOUS
      <4>7. Steady(b) /\ (b # <<>> => b[1] > n /\ b[Len(b)] <= seqno)
        BY <4>3, <4>4, <4>6, LogBatch
      <4>8. Receive(c, b)  BY <3>2, <4>4, <4>6
      <4>9. since'[c] >= since[c] /\ since'[c] <= seqno /\ since'[c] \in Nat
        BY <4>3, <4>4, <4>7, <4>8, ReceiveMoves
      <4> QED  BY <4>3, <4>4, <4>5, <4>9
    <3> QED  BY <3>2, <3>4, <3>5
  <2> QED  BY <2>1, <2>2
<1> QED  BY <1>1, <1>2 DEF FinInv

(***************************************************************************)
(* The theorems                                                            *)
(***************************************************************************)
LEMMA InitHolds == Init => IInv
<1> SUFFICES ASSUME Init  PROVE IInv
  OBVIOUS
<1>e. Fits(<<>>, 0)  BY BoundAssumption DEF Fits, Window
<1>1. LogsInv  BY <1>e DEF Init, LogsInv
<1>2. DoorsInv  BY DEF Init, DoorsInv, Appenders
<1>3. PushInv  BY DEF Init, PushInv
<1>4. Kept(<<>>, 0)  BY DEF Kept, Rising
<1>5. CursorInv  BY <1>4 DEF Init, CursorInv
<1>6. StreamInv
  <2>1. [i \in 1 .. 0 |-> i] = <<>>  OBVIOUS
  <2> QED  BY <2>1 DEF Init, StreamInv, Follows
<1>7. FinInv  BY DEF Init, FinInv
<1> QED  BY <1>1, <1>2, <1>3, <1>5, <1>6, <1>7 DEF IInv

\* The invariant of the log and of its streams (tasklog.go and StreamLogs of handler/task.go).
THEOREM LogInvariant == Spec => []IInv
<1>1. Init => IInv  BY InitHolds
<1>2. IInv /\ [Next]_vars => IInv'
  BY StepKeepsLogs, StepKeepsDoors, StepKeepsPushes, StepKeepsStreams, StepKeepsEnds DEF IInv
<1> QED  BY <1>1, <1>2, PTL DEF Spec

\* A client gets the lines in the order of their numbers and none twice, out of the memory, the
\* channel and the row together, and each of those is a window of consecutive lines out of which
\* only the oldest are ever missing (append, flush, SubscribeSince, StreamLogs).
THEOREM LogInOrder == Spec => []LinesInOrder
<1>1. IInv => LinesInOrder
  <2> SUFFICES ASSUME IInv  PROVE LinesInOrder
    OBVIOUS
  <2>1. WindowInv  BY DEF IInv, LogsInv, Fits, WindowInv
  <2>2. \A c \in Clients : got[c] \in Seq(Nat) /\ Rising(got[c])
    BY DEF IInv, CursorInv, Kept
  <2>3. InOrder
    <3> SUFFICES ASSUME NEW c \in Clients, NEW i \in DOMAIN got[c], NEW j \in DOMAIN got[c], i < j
                 PROVE  got[c][i] < got[c][j]
      BY DEF InOrder
    <3>1. got[c] \in Seq(Nat) /\ Rising(got[c])  BY <2>2
    <3>2. DOMAIN got[c] = 1 .. Len(got[c])  BY <3>1
    <3> QED  BY <3>1, <3>2 DEF Rising
  <2> QED  BY <2>1, <2>3 DEF LinesInOrder
<1> QED  BY <1>1, LogInvariant, PTL

\* A stream that ends with its channel has brought every line, unless one was trimmed, dropped,
\* overtaken or still to be pushed, and a channel is closed by one party only: Close or the
\* client that leaves (append, SubscribeSince, unsub and Close of tasklog.go).
THEOREM LogStreamsComplete == Spec => []StreamsComplete
<1>1. IInv => StreamsComplete
  <2> SUFFICES ASSUME IInv  PROVE StreamsComplete
    OBVIOUS
  <2>1. ClosedIsComplete
    <3> SUFFICES ASSUME NEW c \in Clients, fin[c] = "closed", Undisturbed,
                        \A a \in Appenders : c \notin targets[a]
                 PROVE  got[c] = [i \in 1 .. seqno |-> i]
      BY DEF ClosedIsComplete
    <3>1. since[c] = seqno  BY DEF IInv, FinInv
    <3>2. got[c] = [i \in 1 .. since[c] |-> i]  BY DEF IInv, StreamInv
    <3> QED  BY <3>1, <3>2
  <2>2. ChannelsClosedOnce
    <3>1. \A c \in closing \cup subs : cstate[c] = "open"  BY DEF IInv, DoorsInv
    <3>2. \A c \in Clients : cpc[c] = "gone" /\ rpc = "over" => cstate[c] # "open"
      BY DEF IInv, DoorsInv
    <3>3. \A c \in Clients : cpc[c] = "gone" => c \notin subs  BY DEF IInv, DoorsInv
    <3> QED  BY <3>1, <3>2, <3>3 DEF ChannelsClosedOnce
  <2> QED  BY <2>1, <2>2 DEF StreamsComplete
<1> QED  BY <1>1, LogInvariant, PTL
=============================================================================
