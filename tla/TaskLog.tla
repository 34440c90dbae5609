------------------------------ MODULE TaskLog ------------------------------
(***************************************************************************)
(* The structured log of one execution (service/tasks/tasklog.go) and the  *)
(* WebSockets that stream it (StreamLogs in handler/task.go).              *)
(*                                                                         *)
(* Lines are their sequence numbers.  The goroutines are the worker that   *)
(* runs the task ("run"), the executor's goroutines, the logger's          *)
(* flushLoop, and one handler per client.  A critical section of lg.mu, a  *)
(* channel operation and a database statement are one step each; append    *)
(* pushes to its subscribers after it has left the critical section.       *)
(***************************************************************************)
EXTENDS Naturals, Sequences, FiniteSets

CONSTANTS
  Exec,        \* goroutines of the executor that append lines
  Clients,     \* WebSockets
  Leavers,     \* bound: the clients that may disconnect
  MaxLines,    \* bound: lines of one goroutine of the executor
  MaxEntries,  \* taskLogMaxEntries
  SubBuffer,   \* taskLogSubBuffer
  Abandons,    \* bound: whether the executor may be abandoned by the timeout
  Cancels,     \* bound: whether the task may be cancelled
  MaxFaults,   \* bound: failed writes of the log
  None

Appenders == Exec \cup {"run"}
Flushers == {"loop", "close"}

ASSUME ExecAssumption  == "run" \notin Exec /\ Leavers \subseteq Clients
ASSUME BoundAssumption == /\ MaxEntries \in Nat \ {0} /\ SubBuffer \in Nat \ {0}
                          /\ MaxLines \in Nat /\ MaxFaults \in Nat 
                          /\ Abandons \in BOOLEAN /\ Cancels \in BOOLEAN
ASSUME NoneAssumption  == None \notin Flushers

VARIABLES
  entries, seqno, dirty, closed,  \* the logger: its lines, the last one's number, the flags
  subs,                           \* clients whose channel is in lg.subs
  chan, cstate,                   \* the clients' channels: lines, and none, open or closed
  live,                           \* whether the manager's registry holds the logger
  db, status,                     \* the row: log_entries and whether its status is final
  rpc, abandoned, closing,        \* where run is; executor left behind; channels Close closes
  lines, apc, aseq, targets,      \* appenders: lines begun, at work or not, line, channels left
  fpc, fdata, wmu,                \* flushes: where each is, what it writes, holder of writeMu
  cpc, got, since, snap,          \* clients: where each is, lines received, cursor, row read
  fin,                            \* history: how a client's stream ended
  panicked, faults,               \* history: appenders that sent on a closed channel, faults
  lagged, crossed                 \* history: frames dropped, frames sent after a newer one

logger == <<entries, seqno, dirty, closed, subs, live>>
wires  == <<chan, cstate>>
row    == <<db, status>>
run    == <<rpc, abandoned, closing>>
append == <<lines, apc, aseq, targets>>
flush  == <<fpc, fdata, wmu>>
client == <<cpc, got, since, snap, fin>>
hist   == <<panicked, faults, lagged, crossed>>
vars   == <<logger, wires, row, run, append, flush, client, hist>>

Init ==
  /\ entries = <<>> /\ seqno = 0 /\ dirty = FALSE /\ closed = FALSE /\ subs = {}
  /\ live = FALSE
  /\ chan = [c \in Clients |-> <<>>] /\ cstate = [c \in Clients |-> "none"]
  /\ db = <<>> /\ status = "pending"
  /\ rpc = "pending" /\ abandoned = FALSE /\ closing = {}
  /\ lines = [a \in Exec |-> 0] /\ apc = [a \in Appenders |-> "idle"]
  /\ aseq = [a \in Appenders |-> 0] /\ targets = [a \in Appenders |-> {}]
  /\ fpc = [f \in Flushers |-> IF f = "loop" THEN "off" ELSE "idle"]
  /\ fdata = [f \in Flushers |-> <<>>] /\ wmu = None
  /\ cpc = [c \in Clients |-> "new"] /\ got = [c \in Clients |-> <<>>]
  /\ snap = [c \in Clients |-> <<>>] /\ since = [c \in Clients |-> 0]
  /\ fin = [c \in Clients |-> "no"]
  /\ panicked = {} /\ faults = 0 /\ lagged = FALSE /\ crossed = FALSE

\* entriesSince: the lines after a cursor, which are the end of a log as its lines are in the
\* order of their numbers; the cursor after a batch of lines (lastSeq).
FirstAfter(log, n) ==
  CHOOSE k \in 1 .. Len(log) + 1 : \A i \in 1 .. Len(log) : log[i] > n <=> k <= i
After(log, n) == SubSeq(log, FirstAfter(log, n), Len(log))
CursorAfter(batch, n) == IF batch = <<>> THEN n ELSE batch[Len(batch)]

(***************************************************************************)
(* append                                                                  *)
(***************************************************************************)

\* The newest MaxEntries lines are kept.
Trim(log) == IF Len(log) > MaxEntries
             THEN SubSeq(log, Len(log) - MaxEntries + 1, Len(log)) ELSE log

\* The critical section: the next number, and the subscribers to push to.
Take(a) ==
  /\ apc[a] = "idle" /\ ~closed
  /\ seqno' = seqno + 1 /\ entries' = Trim(Append(entries, seqno + 1)) /\ dirty' = TRUE
  /\ apc' = [apc EXCEPT ![a] = IF subs = {} THEN "idle" ELSE "push"]
  /\ aseq' = [aseq EXCEPT ![a] = IF subs = {} THEN 0 ELSE seqno + 1]
  /\ targets' = [targets EXCEPT ![a] = subs]
  /\ UNCHANGED <<closed, subs, live>>

\* One send to one subscriber: dropped when its buffer is full, a panic when it is closed.
Push(a, c) ==
  /\ apc[a] = "push" /\ c \in targets[a] /\ cstate[c] = "open"
  /\ IF Len(chan[c]) < SubBuffer
     THEN chan' = [chan EXCEPT ![c] = Append(@, aseq[a])] /\ UNCHANGED lagged
     ELSE lagged' = TRUE /\ UNCHANGED chan
  /\ crossed' = (crossed \/ \E b \in Appenders : c \in targets[b] /\ aseq[b] < aseq[a])
  /\ LET last == targets[a] = {c} IN
       /\ targets' = [targets EXCEPT ![a] = @ \ {c}]
       /\ apc' = [apc EXCEPT ![a] = IF last THEN "idle" ELSE "push"]
       /\ aseq' = [aseq EXCEPT ![a] = IF last THEN 0 ELSE @]
  /\ UNCHANGED <<logger, cstate, row, run, lines, flush, client, panicked, faults>>

\* The panic ends the appender; run's own is followed by its deferred Close, then markFailed.
PushPanic(a, c) ==
  /\ apc[a] = "push" /\ c \in targets[a] /\ cstate[c] = "closed"
  /\ apc' = [apc EXCEPT ![a] = "dead"] /\ panicked' = panicked \cup {a}
  /\ aseq' = [aseq EXCEPT ![a] = 0] /\ targets' = [targets EXCEPT ![a] = {}]
  /\ rpc' = IF a = "run" THEN "close" ELSE rpc
  /\ UNCHANGED <<logger, wires, row, abandoned, closing, lines, flush, client, faults, lagged,
                 crossed>>

\* A line of the executor, which may have been left behind; after Close it is dropped.
Line(a) ==
  /\ (rpc = "exec" /\ apc["run"] = "idle") \/ abandoned
  /\ lines[a] < MaxLines
  /\ Take(a)
  /\ lines' = [lines EXCEPT ![a] = @ + 1]
  /\ UNCHANGED <<wires, row, run, flush, client, hist>>

(***************************************************************************)
(* run: the logger's life around an execution                              *)
(***************************************************************************)
SaveRunning ==
  /\ rpc = "pending" /\ rpc' = "create" /\ status' = "running"
  /\ UNCHANGED <<logger, wires, db, abandoned, closing, append, flush, client, hist>>

\* newTaskLogger: nothing to load, registered, flushLoop started.
NewTaskLogger ==
  /\ rpc = "create" /\ rpc' = "begin" /\ live' = TRUE
  /\ fpc' = [fpc EXCEPT !["loop"] = "idle"]
  /\ UNCHANGED <<entries, seqno, dirty, closed, subs, wires, row, abandoned, closing, append,
                 fdata, wmu, client, hist>>

\* The first and the last line are run's own.
RunLine ==
  /\ rpc \in {"begin", "end"} /\ Take("run")
  /\ rpc' = IF rpc = "begin" THEN "exec" ELSE "status"
  /\ UNCHANGED <<lines, wires, row, abandoned, closing, flush, client, hist>>

\* The executor returns when its goroutines have ended, or the timeout leaves it behind.
ExecEnd ==
  /\ rpc = "exec" /\ apc["run"] = "idle"
  /\ \/ (\A a \in Exec : apc[a] # "push") /\ UNCHANGED abandoned
     \/ Abandons /\ abandoned' = TRUE
  /\ rpc' = "end"
  /\ UNCHANGED <<logger, wires, row, closing, append, flush, client, hist>>

\* The terminal write; after a panic of run, markFailed comes when Close is over.
WriteStatus ==
  /\ rpc \in {"status", "late"} /\ apc["run"] # "push"
  /\ status' = "final" /\ rpc' = IF rpc = "status" THEN "close" ELSE "over"
  /\ UNCHANGED <<logger, wires, db, abandoned, closing, append, flush, client, hist>>

\* CancelTask makes the row final while the executor is at work.
CancelRow ==
  /\ Cancels /\ status = "running" /\ rpc = "exec" /\ status' = "final"
  /\ UNCHANGED <<logger, wires, db, run, append, flush, client, hist>>

\* Close: the critical section, one flush, the channels, the registry, in this order.
CloseMark ==
  /\ rpc = "close" /\ rpc' = "flush"
  /\ closed' = TRUE /\ closing' = subs /\ subs' = {}
  /\ UNCHANGED <<entries, seqno, dirty, live, wires, row, abandoned, append, flush, client,
                 hist>>

CloseFlushed ==
  /\ rpc = "flush" /\ fpc["close"] = "off" /\ rpc' = "chans"
  /\ UNCHANGED <<logger, wires, row, abandoned, closing, append, flush, client, hist>>

CloseChannel(c) ==
  /\ rpc = "chans" /\ c \in closing
  /\ cstate' = [cstate EXCEPT ![c] = "closed"] /\ closing' = closing \ {c}
  /\ UNCHANGED <<logger, chan, row, rpc, abandoned, append, flush, client, hist>>

Unregister ==
  /\ rpc = "chans" /\ closing = {} /\ live' = FALSE
  /\ rpc' = IF apc["run"] = "dead" THEN "late" ELSE "over"
  /\ UNCHANGED <<entries, seqno, dirty, closed, subs, wires, row, abandoned, closing, append,
                 flush, client, hist>>

Run == \/ SaveRunning \/ NewTaskLogger \/ RunLine \/ ExecEnd \/ WriteStatus
       \/ CloseMark \/ CloseFlushed \/ Unregister \/ \E c \in Clients : CloseChannel(c)

(***************************************************************************)
(* flush, called by flushLoop every two seconds and once by Close          *)
(***************************************************************************)
FlushTake(f) ==
  /\ fpc[f] = "idle" /\ (f = "close" => rpc = "flush")
  /\ IF dirty
     THEN /\ dirty' = FALSE
          /\ fdata' = [fdata EXCEPT ![f] = entries] /\ fpc' = [fpc EXCEPT ![f] = "wait"]
     ELSE f = "close" /\ fpc' = [fpc EXCEPT ![f] = "off"] /\ UNCHANGED <<dirty, fdata>>
  /\ UNCHANGED <<entries, seqno, closed, subs, live, wires, row, run, append, wmu, client,
                 hist>>

FlushLock(f) ==
  /\ fpc[f] = "wait" /\ wmu = None
  /\ wmu' = f /\ fpc' = [fpc EXCEPT ![f] = "write"]
  /\ UNCHANGED <<logger, wires, row, run, append, fdata, client, hist>>

FlushWrite(f) ==
  /\ fpc[f] = "write" /\ wmu' = None
  /\ db' = fdata[f] /\ fdata' = [fdata EXCEPT ![f] = <<>>]
  /\ fpc' = [fpc EXCEPT ![f] = IF f = "loop" THEN "idle" ELSE "off"]
  /\ UNCHANGED <<logger, wires, status, run, append, client, hist>>

\* All attempts of Persist fail: the lines are left for the next flush, if there is one.
FlushFault(f) ==
  /\ fpc[f] = "write" /\ faults < MaxFaults /\ faults' = faults + 1
  /\ wmu' = None /\ dirty' = TRUE /\ fdata' = [fdata EXCEPT ![f] = <<>>]
  /\ fpc' = [fpc EXCEPT ![f] = IF f = "loop" THEN "idle" ELSE "off"]
  /\ UNCHANGED <<entries, seqno, closed, subs, live, wires, row, run, append, client, panicked,
                 lagged, crossed>>

\* flushLoop sees the stop channel closed.
LoopExit ==
  /\ closed /\ fpc["loop"] = "idle" /\ fpc' = [fpc EXCEPT !["loop"] = "off"]
  /\ UNCHANGED <<logger, wires, row, run, append, fdata, wmu, client, hist>>

Flush(f) == FlushTake(f) \/ FlushLock(f) \/ FlushWrite(f)

(***************************************************************************)
(* A client: GetTaskLogs, then StreamLogs with the cursor it has           *)
(***************************************************************************)
Receive(c, batch) ==
  /\ got' = [got EXCEPT ![c] = @ \o batch]
  /\ since' = [since EXCEPT ![c] = CursorAfter(batch, since[c])]

End(c, how) == /\ cpc' = [cpc EXCEPT ![c] = "leaving"]
               /\ fin' = [fin EXCEPT ![c] = how]

Stay(c, p) == cpc' = [cpc EXCEPT ![c] = p] /\ UNCHANGED fin

GetTaskLogs(c) ==
  /\ cpc[c] = "new" /\ got[c] = <<>> /\ db # <<>>
  /\ Receive(c, db)
  /\ UNCHANGED <<logger, wires, row, run, append, flush, cpc, snap, fin, hist>>

\* The row is read first: a final one is replayed, and nothing is subscribed.
Open(c) ==
  /\ cpc[c] = "new"
  /\ IF status = "final"
     THEN Receive(c, After(db, since[c])) /\ End(c, "replay") /\ UNCHANGED snap
     ELSE /\ snap' = [snap EXCEPT ![c] = db] /\ Stay(c, "subscribe")
          /\ UNCHANGED <<got, since>>
  /\ UNCHANGED <<logger, wires, row, run, append, flush, hist>>

\* Mutant: the backlog is read from the row, and the subscription made apart from it.
SubscribeFromRow(c) ==
  /\ Receive(c, After(db, since[c]))
  /\ IF closed THEN UNCHANGED <<subs, cstate>>
     ELSE subs' = subs \cup {c} /\ cstate' = [cstate EXCEPT ![c] = "open"]

\* SubscribeSince: backlog and subscription in one critical section; no channel once closed.
SubscribeSince(c) ==
  /\ Receive(c, After(entries, since[c]))
  /\ IF closed THEN UNCHANGED <<subs, cstate>>
     ELSE subs' = subs \cup {c} /\ cstate' = [cstate EXCEPT ![c] = "open"]

\* Without a logger the lines of the row read before are sent.
Subscribe(c) ==
  /\ cpc[c] = "subscribe" /\ Stay(c, "loop")
  /\ IF live THEN SubscribeSince(c)
     ELSE Receive(c, After(snap[c], since[c])) /\ UNCHANGED <<subs, cstate>>
  /\ snap' = [snap EXCEPT ![c] = <<>>]
  /\ UNCHANGED <<entries, seqno, dirty, closed, live, chan, row, run, append, flush, hist>>

\* Mutant: lines that were in the backlog already are sent again.
RecvAll(c) ==
  /\ cpc[c] = "loop" /\ chan[c] # <<>>
  /\ chan' = [chan EXCEPT ![c] = Tail(@)]
  /\ Receive(c, <<Head(chan[c])>>)
  /\ UNCHANGED <<logger, cstate, row, run, append, flush, cpc, snap, fin, hist>>

Recv(c) ==
  /\ cpc[c] = "loop" /\ chan[c] # <<>>
  /\ chan' = [chan EXCEPT ![c] = Tail(@)]
  /\ Receive(c, After(<<Head(chan[c])>>, since[c]))
  /\ UNCHANGED <<logger, cstate, row, run, append, flush, cpc, snap, fin, hist>>

\* The channel is closed and empty: the row is read once more, done is sent.
RecvClosed(c) ==
  /\ cpc[c] = "loop" /\ chan[c] = <<>> /\ cstate[c] = "closed"
  /\ Receive(c, After(db, since[c])) /\ End(c, "closed")
  /\ UNCHANGED <<logger, wires, row, run, append, flush, snap, hist>>

\* A tick: subscribe if that has not been possible, then read the row.
Tick(c) ==
  /\ cpc[c] = "loop" /\ Stay(c, "read")
  /\ IF cstate[c] = "none" /\ live THEN SubscribeSince(c)
     ELSE UNCHANGED <<got, since, subs, cstate>>
  /\ UNCHANGED <<entries, seqno, dirty, closed, live, chan, row, run, append, flush, snap, hist>>

\* Mutant: a tick only looks for lines, not for the end of the task.
TickReadOn(c) ==
  /\ cpc[c] = "read" /\ Stay(c, "loop")
  /\ Receive(c, After(db, since[c]))
  /\ UNCHANGED <<logger, wires, row, run, append, flush, snap, hist>>

TickRead(c) ==
  /\ cpc[c] = "read"
  /\ Receive(c, After(db, since[c]))
  /\ IF status = "final" THEN End(c, "poll") ELSE Stay(c, "loop")
  /\ UNCHANGED <<logger, wires, row, run, append, flush, snap, hist>>

\* The row cannot be read: the stream ends without done.
ReadFault(c) ==
  /\ cpc[c] \in {"new", "read"} /\ faults < MaxFaults /\ faults' = faults + 1
  /\ End(c, "left")
  /\ UNCHANGED <<logger, wires, row, run, append, flush, got, since, snap, panicked, lagged,
                 crossed>>

\* clientGone: the browser is closed.
Leave(c) ==
  /\ cpc[c] = "loop" /\ c \in Leavers /\ End(c, "left")
  /\ UNCHANGED <<logger, wires, row, run, append, flush, got, since, snap, hist>>

\* The deferred unsub.
Unsub(c) ==
  /\ cpc[c] = "leaving" /\ Stay(c, "gone")
  /\ IF c \in subs
     THEN subs' = subs \ {c} /\ cstate' = [cstate EXCEPT ![c] = "closed"]
     ELSE UNCHANGED <<subs, cstate>>
  /\ UNCHANGED <<entries, seqno, dirty, closed, live, chan, row, run, append, flush, got, since,
                 snap, hist>>

StreamLogs(c) == \/ Subscribe(c) \/ Recv(c) \/ RecvClosed(c) \/ Tick(c) \/ TickRead(c)
                 \/ Unsub(c)

Next ==
  \/ Run \/ CancelRow \/ LoopExit
  \/ \E a \in Exec : Line(a)
  \/ \E a \in Appenders, c \in Clients : Push(a, c) \/ PushPanic(a, c)
  \/ \E f \in Flushers : Flush(f) \/ FlushFault(f)
  \/ \E c \in Clients : \/ GetTaskLogs(c) \/ Open(c) \/ StreamLogs(c)
                        \/ ReadFault(c) \/ Leave(c)

Spec == Init /\ [][Next]_vars

\* Every goroutine keeps running; an executor ends, or its timeout fires.
FairSpec ==
  /\ Spec /\ WF_vars(Run)
  /\ \A f \in Flushers : WF_vars(Flush(f))
  /\ \A a \in Appenders, c \in Clients : WF_vars(Push(a, c) \/ PushPanic(a, c))
  /\ \A c \in Clients : WF_vars(StreamLogs(c))

(***************************************************************************)
(* Properties                                                              *)
(***************************************************************************)
\* A window of consecutive lines that ends at n or before.
Window(log, n) == /\ Len(log) <= MaxEntries
                  /\ \A i \in 1 .. Len(log) : log[i] = log[Len(log)] - (Len(log) - i)
                  /\ log # <<>> => log[Len(log)] <= n

\* The memory, the row and what is being written are windows of consecutive lines, and the
\* memory's one ends with the newest: only the oldest lines are ever dropped.
WindowInv ==
  /\ Window(entries, seqno) /\ Window(db, seqno)
  /\ \A f \in Flushers : Window(fdata[f], seqno)
  /\ seqno > 0 => entries # <<>> /\ entries[Len(entries)] = seqno

\* A client receives lines in the order of their numbers and none twice, although it gets
\* them from the memory, the channel and the row.
InOrder == \A c \in Clients : \A i, j \in DOMAIN got[c] : i < j => got[c][i] < got[c][j]

\* A channel is closed once, by Close or by its subscriber, and never kept by one that left.
ChannelsClosedOnce ==
  /\ \A c \in closing \cup subs : cstate[c] = "open"
  /\ \A c \in Clients : cpc[c] = "gone" /\ rpc = "over" => cstate[c] # "open"
  /\ \A c \in Clients : cpc[c] = "gone" => c \notin subs

\* No line was trimmed, no frame was dropped or overtaken by a newer one (the cursor passes
\* such a frame, and no later read asks for it), and no push ended in a panic.
Undisturbed == seqno <= MaxEntries /\ ~lagged /\ ~crossed /\ panicked = {}

\* A stream that ended with its channel has every line, if it was undisturbed and no appender
\* is still about to push to it.
ClosedIsComplete ==
  \A c \in Clients :
    fin[c] = "closed" /\ Undisturbed /\ (\A a \in Appenders : c \notin targets[a]) =>
      got[c] = [i \in 1 .. seqno |-> i]

\* What a client gets is in order, out of windows that lose nothing but the oldest lines
\* (append, SubscribeSince, the stream's loop).
LinesInOrder == InOrder /\ WindowInv

\* A stream that ends with the task has brought every line, and its channel is closed once
\* (Close, SubscribeSince, unsub).
StreamsComplete == ClosedIsComplete /\ ChannelsClosedOnce

(***************************************************************************)
(* What comments of the code say of the log, and the code does not do.     *)
(***************************************************************************)
\* append is safe against the goroutines of clients: it never sends to a closed channel,
\* although it sends after it has left the lock under which channels are closed.
NoSendOnClosed == panicked = {}

(***************************************************************************)
(* Liveness                                                                *)
(***************************************************************************)
\* Every stream ends once the task does.
StreamsEnd == \A c \in Clients : cpc[c] # "new" ~> cpc[c] = "gone"

=============================================================================
