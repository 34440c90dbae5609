------------------------------ MODULE Sessions ------------------------------
(***************************************************************************)
(* The console sessions of virtkite: who is connected to which machine.    *)
(* A session is a row of console_sessions, written by the handler that     *)
(* serves the connection and closed by whoever notices first that it is    *)
(* over: the handler itself, the sweeper that runs every five minutes, an  *)
(* administrator, or the start of the next process.  What lets the         *)
(* administrator cut a connection is held in memory only: the registry's   *)
(* conns for the WebSocket bridges (SSH terminal, serial console, docker   *)
(* exec), liveSessions for the SSH jump server; byToken lets websockify's  *)
(* resolution of a VNC token refresh the session's last_seen.              *)
(*                                                                         *)
(* Time is two facts about a row: old[i], it was opened more than ten      *)
(* minutes ago, and stale[i], its last_seen is before the sweeper's        *)
(* cutoff.  The two grow true by Age and Expire; the sweeper uses them as  *)
(* they were when its round began, as the code does with `now' and         *)
(* `cutoff'.                                                               *)
(***************************************************************************)
EXTENDS Naturals, FiniteSets

CONSTANTS
  Ids,        \* console_sessions ids; the database does not use one twice
  Casts,      \* what a behaviour has: the kind of each session, and the bounds
              \* on failed database operations and restarts of the process
  None        \* no id

Kinds == {"ssh", "serial", "docker", "jump", "vnc", "unused"}
Bridged == {"ssh", "serial", "docker"}      \* the kinds held by the registry

ASSUME CastsAssumption ==
  /\ \A c \in Casts : c \in [kinds : [Ids -> Kinds], faults : Nat, restarts : Nat]
  /\ None \notin Ids

VARIABLES
  kind,       \* type of each session
  row,        \* status of each row: "none" before it is written
  ends,       \* how many times ended_at was written
  old, stale, \* started_at and last_seen against the sweeper's two limits
  pc,         \* where the handler of each session is
  user,       \* the client's side of the connection: "open" or "gone"
  guest,      \* the machine's side: "open", "hung" or "gone"
  conns,      \* Registry.conns
  live,       \* jumpd.liveSessions
  byToken,    \* Registry.byToken, a token named by its session
  tokens,     \* TokenStore.tokens: the tokens that resolve
  touch,      \* the session a TouchByToken has looked up
  sweep,      \* the sweeper: its step and what it read
  admin,      \* an administrator's DisconnectSession
  cut,        \* sessions whose disconnection was answered with success
  faults, restarts  \* how many more of them there may be

rows   == <<row, ends>>
clocks == <<old, stale>>
memory == <<conns, live, byToken, tokens>>
links  == <<user, guest>>
bounds == <<faults, restarts>>
actors == <<touch, sweep, admin, cut>>
vars   == <<kind, rows, clocks, pc, links, memory, actors, bounds>>

Active == {i \in Ids : row[i] = "active"}
Of(ks) == {i \in Ids : kind[i] \in ks}
Idle   == [step |-> "idle", old |-> {}, stale |-> {}, ids |-> {}, drop |-> {}]

TypeOK ==
  /\ kind \in [Ids -> Kinds]
  /\ row \in [Ids -> {"none", "active", "closed"}]
  /\ ends \in [Ids -> Nat]
  /\ old \in [Ids -> BOOLEAN] /\ stale \in [Ids -> BOOLEAN]
  /\ pc \in [Ids -> {"idle", "created", "dial", "token", "mapping",
                     "bridge", "served", "closing", "release", "done"}]
  /\ user \in [Ids -> {"open", "gone"}]
  /\ guest \in [Ids -> {"open", "hung", "gone"}]
  /\ conns \subseteq Of(Bridged) /\ live \subseteq Of({"jump"})
  /\ byToken \subseteq Of({"vnc"}) /\ tokens \subseteq Of({"vnc"})
  /\ touch \in Ids \union {None}
  /\ sweep \in [step : {"idle", "vnc", "jump", "live", "reconcile", "tokens",
                        "query"},
                old : SUBSET Ids, stale : SUBSET Ids,
                ids : SUBSET Ids, drop : SUBSET Ids]
  /\ admin \in [step : {"idle", "read", "mark"}, id : Ids \union {None}]
  /\ cut \subseteq Ids
  /\ faults \in Nat /\ restarts \in Nat

Init ==
  /\ \E c \in Casts : kind = c.kinds /\ faults = c.faults /\ restarts = c.restarts
  /\ row = [i \in Ids |-> "none"] /\ ends = [i \in Ids |-> 0]
  /\ old = [i \in Ids |-> FALSE] /\ stale = [i \in Ids |-> FALSE]
  /\ pc = [i \in Ids |-> "idle"]
  /\ user = [i \in Ids |-> "open"] /\ guest = [i \in Ids |-> "open"]
  /\ conns = {} /\ live = {} /\ byToken = {} /\ tokens = {}
  /\ touch = None /\ sweep = Idle /\ admin = [step |-> "idle", id |-> None]
  /\ cut = {}

-----------------------------------------------------------------------------
(* The database.  A write or a query may fail while faults allows it; a    *)
(* write through dbx has then failed three times.                          *)

Outcome(ok) == /\ ~ok => faults > 0
               /\ faults' = IF ok THEN faults ELSE faults - 1

Db(ok) == Outcome(ok) /\ UNCHANGED restarts

(* UPDATE ... SET status = 'closed', ended_at = now WHERE status = 'active' *)
(* restricted to the rows of S.                                            *)
EndRows(S) ==
  /\ row' = [i \in Ids |-> IF i \in S \intersect Active THEN "closed" ELSE row[i]]
  /\ ends' = [i \in Ids |-> IF i \in S \intersect Active THEN ends[i] + 1 ELSE ends[i]]

(* INSERT of session i, active, or the failure that leaves no row.         *)
Insert(i, ok) ==
  /\ row' = [row EXCEPT ![i] = IF ok THEN "active" ELSE "none"]
  /\ UNCHANGED ends

Goto(i, step) == pc' = [pc EXCEPT ![i] = step]

-----------------------------------------------------------------------------
(* WebSocket bridges: TerminalHandler.Connect, VMHandler.ConnectSerial and *)
(* ContainerTerminalHandler.Connect, once the far side is connected.       *)

(* Registry.Open writes the row; if that fails it returns nil and the      *)
(* bridge runs without a session.                                          *)
Open(i) ==
  /\ kind[i] \in Bridged /\ pc[i] = "idle"
  /\ \E ok \in BOOLEAN :
       /\ Db(ok) /\ Insert(i, ok)
       /\ Goto(i, IF ok THEN "created" ELSE "bridge")
  /\ UNCHANGED <<kind, clocks, links, memory, actors>>

(* Registry.Open, second half: the connection is held from here on.        *)
Register(i) ==
  /\ pc[i] = "created"
  /\ conns' = conns \union {i}
  /\ Goto(i, "bridge")
  /\ UNCHANGED <<kind, rows, clocks, links, live, byToken, tokens, actors, bounds>>

(* The serial console's watchdog and the docker terminal's output loop     *)
(* close the WebSocket when the far side ends.  The SSH terminal's output  *)
(* loops just return.                                                      *)
Watchdog(i) ==
  /\ kind[i] \in {"serial", "docker"} /\ pc[i] = "bridge"
  /\ guest[i] = "gone" /\ user[i] = "open"
  /\ user' = [user EXCEPT ![i] = "gone"]
  /\ UNCHANGED <<kind, rows, clocks, pc, guest, memory, actors, bounds>>

(* The loop that reads from the client ends: the connection is closed. That*)
(* the read of a connection that is gone returns is the network's part.    *)
(* With no row there is no deferred Close to run.                          *)
ReadLoopEnds(i) ==
  /\ kind[i] \in Bridged /\ pc[i] = "bridge" /\ user[i] = "gone"
  /\ guest' = [guest EXCEPT ![i] = "gone"]
  /\ Goto(i, IF row[i] = "none" THEN "done" ELSE "closing")
  /\ UNCHANGED <<kind, rows, clocks, user, memory, actors, bounds>>

(* A key pressed on an SSH terminal whose shell is gone: the write to      *)
(* stdin fails and the read loop ends.                                     *)
KeyIntoNothing(i) ==
  /\ kind[i] = "ssh" /\ pc[i] = "bridge" /\ user[i] = "open" /\ guest[i] = "gone"
  /\ user' = [user EXCEPT ![i] = "gone"]
  /\ Goto(i, IF row[i] = "none" THEN "done" ELSE "closing")
  /\ UNCHANGED <<kind, rows, clocks, guest, memory, actors, bounds>>

\* Mutant: returning when the write failed, before the memory is released
CloseRowReturns(i) ==
  /\ pc[i] = "closing"
  /\ \E ok \in BOOLEAN :
       Db(ok) /\ EndRows(IF ok THEN {i} ELSE {}) /\ Goto(i, IF ok THEN "release" ELSE "done")
  /\ UNCHANGED <<kind, clocks, links, memory, actors>>

(* Registry.Close and closeJumpSession: the row first, whether the write   *)
(* succeeds or not,                                                        *)
CloseRow(i) ==
  /\ pc[i] = "closing"
  /\ \E ok \in BOOLEAN : Db(ok) /\ EndRows(IF ok THEN {i} ELSE {})
  /\ Goto(i, "release")
  /\ UNCHANGED <<kind, clocks, links, memory, actors>>

(* then the memory: conns and byToken, or the jump server's hook.          *)
Release(i) ==
  /\ pc[i] = "release"
  /\ conns' = conns \ {i} /\ byToken' = byToken \ {i} /\ live' = live \ {i}
  /\ Goto(i, "done")
  /\ UNCHANGED <<kind, rows, clocks, links, tokens, actors, bounds>>

-----------------------------------------------------------------------------
(* The jump server: bridgeSession.                                         *)

(* openJumpSession, after the selection was validated again; a failure is  *)
(* logged and the session goes on with sid 0.                              *)
JumpOpen(i) ==
  /\ kind[i] = "jump" /\ pc[i] = "idle"
  /\ \E ok \in BOOLEAN : Db(ok) /\ Insert(i, ok)
  /\ Goto(i, "dial")
  /\ UNCHANGED <<kind, clocks, links, memory, actors>>

(* The dial, the session, the terminal and the shell: all of them succeed  *)
(* and registerLive records the hook (unless sid is 0), or one fails.      *)
JumpDial(i) ==
  /\ pc[i] = "dial"
  /\ \/ /\ guest[i] = "open"
        /\ live' = IF row[i] = "none" THEN live ELSE live \union {i}
        /\ Goto(i, "bridge")
     \/ /\ Goto(i, IF row[i] = "none" THEN "done" ELSE "closing")
        /\ UNCHANGED live
  /\ UNCHANGED <<kind, rows, clocks, links, conns, byToken, tokens, actors, bounds>>

(* waitDone or forwardDone: one of the two sides is gone.                  *)
JumpEnds(i) ==
  /\ kind[i] = "jump" /\ pc[i] = "bridge"
  /\ user[i] = "gone" \/ guest[i] = "gone"
  /\ guest' = [guest EXCEPT ![i] = "gone"]
  /\ Goto(i, IF row[i] = "none" THEN "done" ELSE "closing")
  /\ UNCHANGED <<kind, rows, clocks, user, memory, actors, bounds>>

(* The heartbeat probes the machine before it refreshes last_seen; a probe *)
(* that fails closes the client, which ends the bridge.  A machine that is *)
(* "hung" acknowledges nothing, and the kernel gives its connection up in  *)
(* the end: the probe itself has no timeout, so that a server which        *)
(* acknowledges and never answers holds it for good.  That one is left out.*)
ProbeFails(i) ==
  /\ kind[i] = "jump" /\ pc[i] = "bridge" /\ guest[i] = "hung"
  /\ guest' = [guest EXCEPT ![i] = "gone"]
  /\ UNCHANGED <<kind, rows, clocks, pc, user, memory, actors, bounds>>

-----------------------------------------------------------------------------
(* VNC: RequestToken and ResolveToken.  The VNC sessions are those of one  *)
(* machine, so that a new token replaces the one before it.                *)

VncToken(i) ==
  /\ kind[i] = "vnc" /\ pc[i] = "idle"
  /\ tokens' = {i}
  /\ Goto(i, "token")
  /\ UNCHANGED <<kind, rows, clocks, links, conns, live, byToken, actors, bounds>>

(* OpenVNC: the row,                                                       *)
VncRow(i) ==
  /\ pc[i] = "token"
  /\ \E ok \in BOOLEAN :
       Db(ok) /\ Insert(i, ok) /\ Goto(i, IF ok THEN "mapping" ELSE "served")
  /\ UNCHANGED <<kind, clocks, links, memory, actors>>

(* then the token's mapping.                                               *)
VncMap(i) ==
  /\ pc[i] = "mapping"
  /\ byToken' = byToken \union {i}
  /\ Goto(i, "served")
  /\ UNCHANGED <<kind, rows, clocks, links, conns, live, tokens, actors, bounds>>

TokenExpires(i) ==
  /\ i \in tokens
  /\ tokens' = tokens \ {i}
  /\ UNCHANGED <<kind, rows, clocks, pc, links, conns, live, byToken, actors, bounds>>

(* websockify resolves the token the client was given; TouchByToken looks  *)
(* the session up under the lock,                                          *)
Resolve(i) ==
  /\ pc[i] = "served" /\ i \in tokens \intersect byToken /\ touch = None
  /\ touch' = i
  /\ UNCHANGED <<kind, rows, clocks, pc, links, memory, sweep, admin, cut, bounds>>

(* and writes last_seen outside it, whatever the row's status is by then.  *)
Touch ==
  /\ touch # None
  /\ \E ok \in BOOLEAN :
       Db(ok) /\ stale' = [stale EXCEPT ![touch] = @ /\ ~ok]
  /\ touch' = None
  /\ UNCHANGED <<kind, rows, old, pc, links, memory, sweep, admin, cut>>

-----------------------------------------------------------------------------
(* Registry.sweepOnce.                                                     *)

SweepStart ==
  /\ sweep.step = "idle"
  /\ sweep' = [Idle EXCEPT !.step = "vnc", !.old = {i \in Ids : old[i]},
                           !.stale = {i \in Ids : stale[i]}]
  /\ UNCHANGED <<kind, rows, clocks, pc, links, memory, touch, admin, cut, bounds>>

(* VNC rows, then jump rows, that nothing has refreshed since the cutoff.  *)
SweepStale ==
  /\ sweep.step \in {"vnc", "jump"}
  /\ LET dead == {i \in sweep.stale \intersect Of({sweep.step}) : stale[i]}
     IN \E ok \in BOOLEAN : Db(ok) /\ EndRows(IF ok THEN dead ELSE {})
  /\ sweep' = IF sweep.step = "vnc" THEN [sweep EXCEPT !.step = "jump"]
                                    ELSE [sweep EXCEPT !.step = "live", !.stale = {}]
  /\ UNCHANGED <<kind, clocks, pc, links, memory, touch, admin, cut>>

(* The ids held in memory, under the lock.                                 *)
SweepLive ==
  /\ sweep.step = "live"
  /\ sweep' = [sweep EXCEPT !.step = "reconcile", !.ids = conns]
  /\ UNCHANGED <<kind, rows, clocks, pc, links, memory, touch, admin, cut, bounds>>

\* Mutant: without the condition on the ids held in memory
UnheldOld == (Ids \ Of({"vnc", "jump"})) \intersect sweep.old

(* Rows of the other kinds that are active, older than ten minutes, and    *)
(* not held.                                                               *)
Unheld == (Ids \ Of({"vnc", "jump"})) \intersect (sweep.old \ sweep.ids)

Reconcile ==
  /\ sweep.step = "reconcile"
  /\ \E ok \in BOOLEAN : Db(ok) /\ EndRows(IF ok THEN Unheld ELSE {})
  /\ sweep' = [Idle EXCEPT !.step = "tokens"]
  /\ UNCHANGED <<kind, clocks, pc, links, memory, touch, admin, cut>>

SweepTokens ==
  /\ sweep.step = "tokens"
  /\ sweep' = [sweep EXCEPT !.step = "query", !.ids = byToken]
  /\ UNCHANGED <<kind, rows, clocks, pc, links, memory, touch, admin, cut, bounds>>

(* The mappings of the snapshot are looked up one by one outside the lock; *)
(* one whose row is not active, or cannot be read, is to be dropped.       *)
QueryToken(i) ==
  /\ sweep.step = "query" /\ i \in sweep.ids
  /\ \E ok \in BOOLEAN :
       /\ Db(ok)
       /\ sweep' = [sweep EXCEPT !.ids = @ \ {i},
            !.drop = IF ok /\ row[i] = "active" THEN @ ELSE @ \union {i}]
  /\ UNCHANGED <<kind, rows, clocks, pc, links, memory, touch, admin, cut>>

SweepDelete ==
  /\ sweep.step = "query" /\ sweep.ids = {}
  /\ byToken' = byToken \ sweep.drop
  /\ sweep' = Idle
  /\ UNCHANGED <<kind, rows, clocks, pc, links, conns, live, tokens, touch, admin, cut, bounds>>

-----------------------------------------------------------------------------
(* SessionHandler.DisconnectSession.                                       *)

(* The row is read; a session that is over is refused.                     *)
AdminRead(i) ==
  /\ admin.step = "idle" /\ row[i] = "active"
  /\ admin' = [step |-> "read", id |-> i]
  /\ UNCHANGED <<kind, rows, clocks, pc, links, memory, touch, sweep, cut, bounds>>

AdminDone == admin' = [step |-> "idle", id |-> None]

\* Mutant: CloseWithReason sets its flag and leaves the socket open
AdminCloseFlag ==
  /\ admin.step = "read" /\ kind[admin.id] # "jump"
  /\ cut' = IF admin.id \in conns THEN cut \union {admin.id} ELSE cut
  /\ AdminDone
  /\ UNCHANGED <<kind, rows, clocks, pc, links, memory, touch, sweep, bounds>>

(* Registry.Disconnect: CloseWithReason on the connection held, or         *)
(* ErrNoLiveConn.                                                          *)
AdminClose ==
  /\ admin.step = "read" /\ kind[admin.id] # "jump"
  /\ \/ /\ admin.id \in conns
        /\ user' = [user EXCEPT ![admin.id] = "gone"]
        /\ cut' = cut \union {admin.id}
     \/ admin.id \notin conns /\ UNCHANGED <<user, cut>>
  /\ AdminDone
  /\ UNCHANGED <<kind, rows, clocks, pc, guest, memory, touch, sweep, bounds>>

(* jumpd.DisconnectSession takes the hook out and calls it: both sides     *)
(* close.  Without a hook the handler goes on to close the row.            *)
AdminKill ==
  /\ admin.step = "read" /\ kind[admin.id] = "jump"
  /\ \/ /\ admin.id \in live
        /\ live' = live \ {admin.id}
        /\ user' = [user EXCEPT ![admin.id] = "gone"]
        /\ guest' = [guest EXCEPT ![admin.id] = "gone"]
        /\ cut' = cut \union {admin.id}
        /\ AdminDone
     \/ /\ admin.id \notin live
        /\ admin' = [admin EXCEPT !.step = "mark"]
        /\ UNCHANGED <<live, links, cut>>
  /\ UNCHANGED <<kind, rows, clocks, pc, conns, byToken, tokens, touch, sweep, bounds>>

AdminMark ==
  /\ admin.step = "mark"
  /\ \E ok \in BOOLEAN : Db(ok) /\ EndRows(IF ok THEN {admin.id} ELSE {})
  /\ AdminDone
  /\ UNCHANGED <<kind, clocks, pc, links, memory, touch, sweep, cut>>

-----------------------------------------------------------------------------
(* Time, the two ends of a connection, and the process.                    *)

(* Ten minutes pass since a row was opened (it matters while it is active). *)
(* The window between the INSERT and the registration is far shorter.      *)
Age(i) ==
  /\ kind[i] \in Bridged /\ row[i] = "active" /\ ~old[i] /\ pc[i] # "created"
  /\ old' = [old EXCEPT ![i] = TRUE]
  /\ UNCHANGED <<kind, rows, stale, pc, links, memory, actors, bounds>>

Beating(i) == kind[i] = "jump" /\ pc[i] \in {"dial", "bridge"} /\ guest[i] = "open"

(* The last refresh of last_seen falls behind the cutoff.  A jump session  *)
(* whose bridge works has a heartbeat every minute, the cutoff is at least *)
(* five minutes, and a dial is shorter still.                              *)
Expire(i) ==
  /\ row[i] = "active" /\ ~stale[i] /\ ~Beating(i)
  /\ kind[i] \in {"jump", "vnc"} /\ pc[i] \notin {"token", "mapping"}
  /\ stale' = [stale EXCEPT ![i] = TRUE]
  /\ UNCHANGED <<kind, rows, old, pc, links, memory, actors, bounds>>

HangUp(i) ==
  /\ pc[i] \in {"created", "dial", "bridge"} /\ user[i] = "open"
  /\ user' = [user EXCEPT ![i] = "gone"]
  /\ UNCHANGED <<kind, rows, clocks, pc, guest, memory, actors, bounds>>

(* The shell exits, the machine stops, or (jump) it stops answering.       *)
GuestEnds(i) ==
  /\ pc[i] \in {"created", "dial", "bridge"} /\ guest[i] = "open"
  /\ \E g \in IF kind[i] = "jump" THEN {"hung", "gone"} ELSE {"gone"} :
       guest' = [guest EXCEPT ![i] = g]
  /\ UNCHANGED <<kind, rows, clocks, pc, user, memory, actors, bounds>>

(* The process ends and starts again.  sweepStaleRecords closes the rows   *)
(* of three kinds of sessions before the server listens.                   *)
Restart ==
  /\ restarts > 0 /\ restarts' = restarts - 1
  /\ \E ok \in BOOLEAN :
       Outcome(ok) /\ EndRows(IF ok THEN Of({"ssh", "serial", "jump"}) ELSE {})
  /\ pc' = [i \in Ids |-> IF pc[i] = "idle" THEN "idle" ELSE "done"]
  /\ user' = [i \in Ids |-> IF pc[i] = "idle" THEN user[i] ELSE "gone"]
  /\ guest' = [i \in Ids |-> IF pc[i] = "idle" THEN guest[i] ELSE "gone"]
  /\ conns' = {} /\ live' = {} /\ byToken' = {} /\ tokens' = {}
  /\ touch' = None /\ sweep' = Idle /\ AdminDone
  /\ UNCHANGED <<kind, clocks, cut>>

-----------------------------------------------------------------------------
Serve(i) ==
  \/ Open(i) \/ Register(i) \/ Watchdog(i) \/ ReadLoopEnds(i)
  \/ CloseRow(i) \/ Release(i)
  \/ JumpOpen(i) \/ JumpDial(i) \/ JumpEnds(i) \/ ProbeFails(i)
  \/ VncToken(i) \/ VncRow(i) \/ VncMap(i)

Sweep ==
  \/ SweepStart \/ SweepStale \/ SweepLive \/ Reconcile \/ SweepTokens
  \/ \E i \in Ids : QueryToken(i)
  \/ SweepDelete

Admin == (\E i \in Ids : AdminRead(i)) \/ AdminClose \/ AdminKill \/ AdminMark

Outside(i) == KeyIntoNothing(i) \/ HangUp(i) \/ GuestEnds(i) \/ Resolve(i)

Next ==
  \/ \E i \in Ids : \/ Serve(i) \/ Outside(i)
                    \/ Age(i) \/ Expire(i) \/ TokenExpires(i)
  \/ Touch \/ Sweep \/ Admin \/ Restart

(* Handlers and the sweeper are goroutines: they are not starved.  Time    *)
(* passes.  Nobody has to hang up, and no machine has to stop.             *)
Fairness ==
  /\ \A i \in Ids : /\ WF_vars(Serve(i)) /\ WF_vars(Age(i))
                    /\ WF_vars(Expire(i)) /\ WF_vars(TokenExpires(i))
  /\ WF_vars(Sweep) /\ WF_vars(Touch)

Spec == Init /\ [][Next]_vars /\ Fairness

-----------------------------------------------------------------------------
(* Safety.                                                                 *)

(* While a terminal's bridge runs with both sides connected, its row is    *)
(* active and its connection is held, so that the list shows it and an     *)
(* administrator can cut it: neither the sweeper's reconciliation, which   *)
(* reads the held ids before it updates the rows, nor the end of another   *)
(* session takes it away.                                                  *)
WsListed ==
  \A i \in Of(Bridged) :
    pc[i] = "bridge" /\ row[i] # "none" /\ user[i] = "open"
      => row[i] = "active" /\ i \in conns

(* ended_at is written once: of the handler, the sweeper, the              *)
(* administrator and the next process, only the first to close a session   *)
(* says when it ended.                                                     *)
EndedOnce == \A i \in Ids : ends[i] = IF row[i] = "closed" THEN 1 ELSE 0

(* A handler that is over holds nothing, also when its write failed.       *)
NothingHeld == \A i \in Ids : pc[i] = "done" => i \notin conns \union live \union byToken

-----------------------------------------------------------------------------
(* The strengthening with which the safety properties are inductive.       *)

(* Where a handler is tells its kind and what its row can be; a row that   *)
(* is ten minutes old belongs to a handler past Registry.Open.             *)
Placed ==
  \A i \in Ids :
    /\ pc[i] \in {"idle", "token"} => row[i] = "none"
    /\ pc[i] \in {"idle", "created"} => ~old[i]
    /\ pc[i] = "created" => kind[i] \in Bridged /\ row[i] = "active"
    /\ pc[i] = "dial" => kind[i] = "jump"
    /\ pc[i] \in {"token", "mapping", "served"} => kind[i] = "vnc"

(* What the memory holds has a row and a handler that will release it, and *)
(* every bridge with a row is held.                                        *)
Holding ==
  /\ \A i \in conns \union live :
       pc[i] \in {"bridge", "closing", "release"} /\ row[i] # "none"
  /\ \A i \in byToken : pc[i] = "served"
  /\ \A i \in Of(Bridged) :
       pc[i] = "bridge" /\ row[i] # "none" => row[i] = "active" /\ i \in conns

(* What the sweeper read stays good enough for the update that follows: a  *)
(* row that was old and not held has no bridge any more.                   *)
Rounds ==
  /\ \A i \in sweep.old : old[i]
  /\ sweep.step = "reconcile" =>
       \A i \in Of(Bridged) \intersect (sweep.old \ sweep.ids) :
         pc[i] = "bridge" => row[i] = "none"

(* An administrator's request is about a session, and only that of a jump  *)
(* session comes to close the row.                                         *)
Asked ==
  /\ admin.step # "idle" => admin.id \in Ids
  /\ admin.step = "mark" => kind[admin.id] = "jump"

(* The inductive invariant of the registry, the sweeper and the hooks.     *)
SessionInv == Placed /\ Holding /\ Rounds /\ Asked /\ EndedOnce

-----------------------------------------------------------------------------
(* Liveness, with finitely many database failures.                         *)

(* No row stays active for ever once nobody serves it: what the handler    *)
(* could not write, or a killed process left, the sweeper closes.          *)
RowSettles ==
  \A i \in Ids : (pc[i] \in {"done", "served"} /\ row[i] = "active") ~> (row[i] # "active")

(* The token of a closed VNC session leaves the registry.                  *)
TokensSettle == \A i \in Ids : (row[i] = "closed") ~> (i \notin byToken)

(* An administrator who was told that a session was cut has cut it: its    *)
(* handler ends.                                                           *)
CutEnds == \A i \in Ids : (i \in cut) ~> (pc[i] = "done" /\ row[i] # "active")

(* A bridge to a serial port, a container or a jump target does not        *)
(* outlive its far side.                                                   *)
EndsWithGuest ==
  \A i \in Ids : (kind[i] \in {"serial", "docker", "jump"} /\ guest[i] # "open")
                   ~> (pc[i] = "done")

(* Every session comes to an end in the rows, in the token store and at    *)
(* both ends of its bridge, whatever the sweeper and administrators do.    *)
SessionsSettle == RowSettles /\ TokensSettle /\ CutEnds /\ EndsWithGuest
=============================================================================
