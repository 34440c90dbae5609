--------------------------- MODULE SessionsProofs ---------------------------
(***************************************************************************)
(* Theorems about Sessions for every set of ids, every cast of sessions,   *)
(* and every number of failed database statements and restarts.            *)
(***************************************************************************)
EXTENDS Sessions, TLAPS

(***************************************************************************)
(* The database helpers                                                    *)
(***************************************************************************)
\* The condition "status = 'active'" of every closing UPDATE: it closes rows of S that
\* were active and leaves every other row, and every other ended_at, alone.
LEMMA EndRowsFacts ==
  ASSUME TypeOK, EndedOnce, NEW S, EndRows(S)
  PROVE  /\ row' \in [Ids -> {"none", "active", "closed"}]
         /\ ends' \in [Ids -> Nat]
         /\ \A i \in Ids : row'[i] = row[i]
                           \/ (i \in S /\ row[i] = "active" /\ row'[i] = "closed")
         /\ EndedOnce'
<1>1. row' \in [Ids -> {"none", "active", "closed"}] /\ ends' \in [Ids -> Nat]
  BY DEF TypeOK, EndRows
<1>2. \A i \in Ids : row'[i] = IF i \in S /\ row[i] = "active" THEN "closed" ELSE row[i]
  BY DEF TypeOK, EndRows, Active
<1>3. \A i \in Ids : ends'[i] = IF i \in S /\ row[i] = "active" THEN ends[i] + 1 ELSE ends[i]
  BY DEF TypeOK, EndRows, Active
<1>4. EndedOnce'
  BY <1>2, <1>3 DEF EndedOnce, TypeOK
<1> QED BY <1>1, <1>2, <1>4

\* An INSERT writes the row of session i, which had none (Open, OpenVNC, openJumpSession).
LEMMA InsertFacts ==
  ASSUME TypeOK, EndedOnce, NEW i \in Ids, NEW ok \in BOOLEAN, row[i] = "none", Insert(i, ok)
  PROVE  /\ row' \in [Ids -> {"none", "active", "closed"}]
         /\ ends' \in [Ids -> Nat]
         /\ \A j \in Ids : j # i => row'[j] = row[j]
         /\ row'[i] = IF ok THEN "active" ELSE "none"
         /\ EndedOnce'
<1>1. row' \in [Ids -> {"none", "active", "closed"}] /\ ends' \in [Ids -> Nat]
  BY DEF TypeOK, Insert
<1>2. /\ \A j \in Ids : j # i => row'[j] = row[j]
      /\ row'[i] = IF ok THEN "active" ELSE "none"
  BY DEF TypeOK, Insert
<1>3. EndedOnce'
  BY <1>2 DEF EndedOnce, TypeOK, Insert
<1> QED BY <1>1, <1>2, <1>3

\* A statement that fails uses up one of the failures left.
LEMMA OutcomeFacts ==
  ASSUME TypeOK, NEW ok \in BOOLEAN, Outcome(ok)
  PROVE  faults' \in Nat
BY DEF TypeOK, Outcome

(***************************************************************************)
(* Type correctness                                                        *)
(***************************************************************************)
\* The initial state has the types of TypeOK and satisfies the invariant.
LEMMA SessionInit == Init => TypeOK /\ SessionInv
<1> SUFFICES ASSUME Init PROVE TypeOK /\ SessionInv
  OBVIOUS
<1>1. TypeOK
  BY CastsAssumption DEF Init, TypeOK, Of, Idle
<1>2. SessionInv
  BY DEF Init, SessionInv, Placed, Holding, Rounds, Asked, EndedOnce, Of, Idle
<1> QED BY <1>1, <1>2

\* Every step keeps TypeOK.
LEMMA TypeStep ==
  ASSUME TypeOK, SessionInv, [Next]_vars
  PROVE  TypeOK'
<1> USE DEF TypeOK, rows, clocks, memory, links, bounds, actors, Of, Goto, Bridged
<1>1. ASSUME NEW i \in Ids, Open(i) PROVE TypeOK'
  BY <1>1, InsertFacts, OutcomeFacts DEF Open, SessionInv, Placed, Db
<1>2. ASSUME NEW i \in Ids, Register(i) PROVE TypeOK'
  BY <1>2 DEF Register, SessionInv, Placed
<1>3. ASSUME NEW i \in Ids, Watchdog(i) PROVE TypeOK'
  BY <1>3 DEF Watchdog
<1>4. ASSUME NEW i \in Ids, ReadLoopEnds(i) PROVE TypeOK'
  BY <1>4 DEF ReadLoopEnds
<1>5. ASSUME NEW i \in Ids, CloseRow(i) PROVE TypeOK'
  BY <1>5, EndRowsFacts, OutcomeFacts DEF CloseRow, SessionInv, Db
<1>6. ASSUME NEW i \in Ids, Release(i) PROVE TypeOK'
  BY <1>6 DEF Release
<1>7. ASSUME NEW i \in Ids, JumpOpen(i) PROVE TypeOK'
  BY <1>7, InsertFacts, OutcomeFacts DEF JumpOpen, SessionInv, Placed, Db
<1>8. ASSUME NEW i \in Ids, JumpDial(i) PROVE TypeOK'
  BY <1>8 DEF JumpDial, SessionInv, Placed
<1>9. ASSUME NEW i \in Ids, JumpEnds(i) PROVE TypeOK'
  BY <1>9 DEF JumpEnds
<1>10. ASSUME NEW i \in Ids, ProbeFails(i) PROVE TypeOK'
  BY <1>10 DEF ProbeFails
<1>11. ASSUME NEW i \in Ids, VncToken(i) PROVE TypeOK'
  BY <1>11 DEF VncToken
<1>12. ASSUME NEW i \in Ids, VncRow(i) PROVE TypeOK'
  BY <1>12, InsertFacts, OutcomeFacts DEF VncRow, SessionInv, Placed, Db
<1>13. ASSUME NEW i \in Ids, VncMap(i) PROVE TypeOK'
  BY <1>13 DEF VncMap, SessionInv, Placed
<1>14. ASSUME NEW i \in Ids, KeyIntoNothing(i) PROVE TypeOK'
  BY <1>14 DEF KeyIntoNothing
<1>15. ASSUME NEW i \in Ids, HangUp(i) PROVE TypeOK'
  BY <1>15 DEF HangUp
<1>16. ASSUME NEW i \in Ids, GuestEnds(i) PROVE TypeOK'
  BY <1>16 DEF GuestEnds
<1>17. ASSUME NEW i \in Ids, Resolve(i) PROVE TypeOK'
  BY <1>17 DEF Resolve
<1>18. ASSUME NEW i \in Ids, Age(i) PROVE TypeOK'
  BY <1>18 DEF Age
<1>19. ASSUME NEW i \in Ids, Expire(i) PROVE TypeOK'
  BY <1>19 DEF Expire
<1>20. ASSUME NEW i \in Ids, TokenExpires(i) PROVE TypeOK'
  BY <1>20 DEF TokenExpires
<1>21. ASSUME Touch PROVE TypeOK'
  BY <1>21, OutcomeFacts DEF Touch, Db
<1>22. ASSUME SweepStart PROVE TypeOK'
  BY <1>22 DEF SweepStart, Idle
<1>23. ASSUME SweepStale PROVE TypeOK'
  <2> DEFINE Dead == {i \in sweep.stale \intersect Of({sweep.step}) : stale[i]}
  <2>1. PICK ok \in BOOLEAN : Db(ok) /\ EndRows(IF ok THEN Dead ELSE {})
    BY <1>23 DEF SweepStale
  <2>2. /\ row' \in [Ids -> {"none", "active", "closed"}]
        /\ ends' \in [Ids -> Nat] /\ faults' \in Nat /\ restarts' \in Nat
    BY <2>1, EndRowsFacts, OutcomeFacts DEF SessionInv, Db
  <2>3. sweep' \in [step : {"idle", "vnc", "jump", "live", "reconcile", "tokens", "query"},
                    old : SUBSET Ids, stale : SUBSET Ids,
                    ids : SUBSET Ids, drop : SUBSET Ids]
    BY <1>23 DEF SweepStale
  <2> QED BY <1>23, <2>2, <2>3 DEF SweepStale
<1>24. ASSUME SweepLive PROVE TypeOK'
  BY <1>24 DEF SweepLive
<1>25. ASSUME Reconcile PROVE TypeOK'
  BY <1>25, EndRowsFacts, OutcomeFacts DEF Reconcile, SessionInv, Db, Idle
<1>26. ASSUME SweepTokens PROVE TypeOK'
  BY <1>26 DEF SweepTokens
<1>27. ASSUME NEW i \in Ids, QueryToken(i) PROVE TypeOK'
  <2>1. faults' \in Nat /\ restarts' \in Nat
    BY <1>27, OutcomeFacts DEF QueryToken, Db
  <2>2. PICK D \in SUBSET Ids : sweep' = [sweep EXCEPT !.ids = @ \ {i}, !.drop = D]
    <3>1. PICK ok \in BOOLEAN :
            sweep' = [sweep EXCEPT !.ids = @ \ {i},
              !.drop = IF ok /\ row[i] = "active" THEN @ ELSE @ \union {i}]
      BY <1>27 DEF QueryToken
    <3>2. sweep.drop \in SUBSET Ids /\ sweep.drop \union {i} \in SUBSET Ids
      OBVIOUS
    <3>3. CASE ok /\ row[i] = "active"
      BY <3>1, <3>2, <3>3
    <3>4. CASE ~(ok /\ row[i] = "active")
      BY <3>1, <3>2, <3>4
    <3> QED BY <3>3, <3>4
  <2>3. sweep' \in [step : {"idle", "vnc", "jump", "live", "reconcile", "tokens", "query"},
                    old : SUBSET Ids, stale : SUBSET Ids,
                    ids : SUBSET Ids, drop : SUBSET Ids]
    BY <2>2
  <2>4. UNCHANGED <<kind, rows, clocks, pc, links, memory, touch, admin, cut>>
    BY <1>27 DEF QueryToken
  <2> QED BY <2>1, <2>3, <2>4
<1>28. ASSUME SweepDelete PROVE TypeOK'
  BY <1>28 DEF SweepDelete, Idle
<1>29. ASSUME NEW i \in Ids, AdminRead(i) PROVE TypeOK'
  BY <1>29 DEF AdminRead
<1>30. ASSUME AdminClose PROVE TypeOK'
  BY <1>30 DEF AdminClose, AdminDone
<1>31. ASSUME AdminKill PROVE TypeOK'
  BY <1>31 DEF AdminKill, AdminDone
<1>32. ASSUME AdminMark PROVE TypeOK'
  BY <1>32, EndRowsFacts, OutcomeFacts DEF AdminMark, AdminDone, SessionInv, Db
<1>33. ASSUME Restart PROVE TypeOK'
  BY <1>33, EndRowsFacts, OutcomeFacts DEF Restart, AdminDone, Idle, SessionInv
<1>34. ASSUME UNCHANGED vars PROVE TypeOK'
  BY <1>34 DEF vars
<1> QED
  BY <1>1, <1>2, <1>3, <1>4, <1>5, <1>6, <1>7, <1>8, <1>9, <1>10, <1>11, <1>12, <1>13,
     <1>14, <1>15, <1>16, <1>17, <1>18, <1>19, <1>20, <1>21, <1>22, <1>23, <1>24, <1>25,
     <1>26, <1>27, <1>28, <1>29, <1>30, <1>31, <1>32, <1>33, <1>34
     DEF Next, Serve, Outside, Sweep, Admin

(***************************************************************************)
(* The inductive invariant                                                 *)
(***************************************************************************)
\* Every step keeps SessionInv.
LEMMA SessionStep ==
  ASSUME TypeOK, SessionInv, [Next]_vars
  PROVE  SessionInv'
<1> USE DEF TypeOK, SessionInv, rows, clocks, memory, links, bounds, actors, Of, Goto,
        Bridged
<1>1. ASSUME NEW i \in Ids, Open(i) PROVE SessionInv'
  BY <1>1, InsertFacts DEF Placed, Holding, Rounds, Asked, EndedOnce, Open
<1>2. ASSUME NEW i \in Ids, Register(i) PROVE SessionInv'
  BY <1>2 DEF Placed, Holding, Rounds, Asked, EndedOnce, Register
<1>3. ASSUME NEW i \in Ids, Watchdog(i) PROVE SessionInv'
  BY <1>3 DEF Placed, Holding, Rounds, Asked, EndedOnce, Watchdog
<1>4. ASSUME NEW i \in Ids, ReadLoopEnds(i) PROVE SessionInv'
  BY <1>4 DEF Placed, Holding, Rounds, Asked, EndedOnce, ReadLoopEnds
<1>5. ASSUME NEW i \in Ids, CloseRow(i) PROVE SessionInv'
  BY <1>5, EndRowsFacts DEF Placed, Holding, Rounds, Asked, EndedOnce, CloseRow
<1>6. ASSUME NEW i \in Ids, Release(i) PROVE SessionInv'
  BY <1>6 DEF Placed, Holding, Rounds, Asked, EndedOnce, Release
<1>7. ASSUME NEW i \in Ids, JumpOpen(i) PROVE SessionInv'
  BY <1>7, InsertFacts DEF Placed, Holding, Rounds, Asked, EndedOnce, JumpOpen
<1>8. ASSUME NEW i \in Ids, JumpDial(i) PROVE SessionInv'
  BY <1>8 DEF Placed, Holding, Rounds, Asked, EndedOnce, JumpDial
<1>9. ASSUME NEW i \in Ids, JumpEnds(i) PROVE SessionInv'
  BY <1>9 DEF Placed, Holding, Rounds, Asked, EndedOnce, JumpEnds
<1>10. ASSUME NEW i \in Ids, ProbeFails(i) PROVE SessionInv'
  BY <1>10 DEF Placed, Holding, Rounds, Asked, EndedOnce, ProbeFails
<1>11. ASSUME NEW i \in Ids, VncToken(i) PROVE SessionInv'
  BY <1>11 DEF Placed, Holding, Rounds, Asked, EndedOnce, VncToken
<1>12. ASSUME NEW i \in Ids, VncRow(i) PROVE SessionInv'
  BY <1>12, InsertFacts DEF Placed, Holding, Rounds, Asked, EndedOnce, VncRow
<1>13. ASSUME NEW i \in Ids, VncMap(i) PROVE SessionInv'
  BY <1>13 DEF Placed, Holding, Rounds, Asked, EndedOnce, VncMap
<1>14. ASSUME NEW i \in Ids, KeyIntoNothing(i) PROVE SessionInv'
  BY <1>14 DEF Placed, Holding, Rounds, Asked, EndedOnce, KeyIntoNothing
<1>15. ASSUME NEW i \in Ids, HangUp(i) PROVE SessionInv'
  BY <1>15 DEF Placed, Holding, Rounds, Asked, EndedOnce, HangUp
<1>16. ASSUME NEW i \in Ids, GuestEnds(i) PROVE SessionInv'
  BY <1>16 DEF Placed, Holding, Rounds, Asked, EndedOnce, GuestEnds
<1>17. ASSUME NEW i \in Ids, Resolve(i) PROVE SessionInv'
  BY <1>17 DEF Placed, Holding, Rounds, Asked, EndedOnce, Resolve
<1>18. ASSUME NEW i \in Ids, Age(i) PROVE SessionInv'
  BY <1>18 DEF Placed, Holding, Rounds, Asked, EndedOnce, Age
<1>19. ASSUME NEW i \in Ids, Expire(i) PROVE SessionInv'
  BY <1>19 DEF Placed, Holding, Rounds, Asked, EndedOnce, Expire
<1>20. ASSUME NEW i \in Ids, TokenExpires(i) PROVE SessionInv'
  BY <1>20 DEF Placed, Holding, Rounds, Asked, EndedOnce, TokenExpires
<1>21. ASSUME Touch PROVE SessionInv'
  BY <1>21 DEF Placed, Holding, Rounds, Asked, EndedOnce, Touch
<1>22. ASSUME SweepStart PROVE SessionInv'
  BY <1>22 DEF Placed, Holding, Rounds, Asked, EndedOnce, SweepStart, Idle
<1>23. ASSUME SweepStale PROVE SessionInv'
  BY <1>23, EndRowsFacts DEF Placed, Holding, Rounds, Asked, EndedOnce, SweepStale, Idle
<1>24. ASSUME SweepLive PROVE SessionInv'
  BY <1>24 DEF Placed, Holding, Rounds, Asked, EndedOnce, SweepLive, Idle
<1>25. ASSUME Reconcile PROVE SessionInv'
  <2>1. PICK ok \in BOOLEAN : EndRows(IF ok THEN Unheld ELSE {})
    BY <1>25 DEF Reconcile, Db
  <2>2. /\ \A i \in Ids : row'[i] = row[i]
                          \/ (i \in Unheld /\ row[i] = "active" /\ row'[i] = "closed")
        /\ EndedOnce'
    BY <2>1, EndRowsFacts
  <2>3. /\ sweep' = [Idle EXCEPT !.step = "tokens"]
        /\ UNCHANGED <<kind, clocks, pc, links, memory, touch, admin, cut>>
        /\ sweep.step = "reconcile"
    BY <1>25 DEF Reconcile
  <2>4. \A i \in Unheld : /\ kind[i] \in Bridged \union {"unused"}
                          /\ old[i]
                          /\ (kind[i] \in Bridged /\ pc[i] = "bridge" => row[i] = "none")
    BY <2>3 DEF Unheld, Rounds, Kinds
  <2>5. Placed'
    BY <2>2, <2>3, <2>4 DEF Placed
  <2>6. Holding'
    BY <2>2, <2>3, <2>4 DEF Holding
  <2>7. Rounds' /\ Asked'
    BY <2>3 DEF Rounds, Asked, Idle
  <2> QED BY <2>2, <2>5, <2>6, <2>7
<1>26. ASSUME SweepTokens PROVE SessionInv'
  BY <1>26 DEF Placed, Holding, Rounds, Asked, EndedOnce, SweepTokens, Idle
<1>27. ASSUME NEW i \in Ids, QueryToken(i) PROVE SessionInv'
  BY <1>27 DEF Placed, Holding, Rounds, Asked, EndedOnce, QueryToken
<1>28. ASSUME SweepDelete PROVE SessionInv'
  BY <1>28 DEF Placed, Holding, Rounds, Asked, EndedOnce, SweepDelete, Idle
<1>29. ASSUME NEW i \in Ids, AdminRead(i) PROVE SessionInv'
  BY <1>29 DEF Placed, Holding, Rounds, Asked, EndedOnce, AdminRead, AdminDone
<1>30. ASSUME AdminClose PROVE SessionInv'
  BY <1>30 DEF Placed, Holding, Rounds, Asked, EndedOnce, AdminClose, AdminDone
<1>31. ASSUME AdminKill PROVE SessionInv'
  BY <1>31 DEF Placed, Holding, Rounds, Asked, EndedOnce, AdminKill, AdminDone
<1>32. ASSUME AdminMark PROVE SessionInv'
  BY <1>32, EndRowsFacts DEF Placed, Holding, Rounds, Asked, EndedOnce, AdminMark, AdminDone
<1>33. ASSUME Restart PROVE SessionInv'
  BY <1>33, EndRowsFacts
     DEF Placed, Holding, Rounds, Asked, EndedOnce, Restart, Idle, AdminDone
<1>34. ASSUME UNCHANGED vars PROVE SessionInv'
  BY <1>34 DEF vars, Placed, Holding, Rounds, Asked, EndedOnce
<1> QED
  BY <1>1, <1>2, <1>3, <1>4, <1>5, <1>6, <1>7, <1>8, <1>9, <1>10, <1>11, <1>12, <1>13,
     <1>14, <1>15, <1>16, <1>17, <1>18, <1>19, <1>20, <1>21, <1>22, <1>23, <1>24,
     <1>25, <1>26, <1>27, <1>28, <1>29, <1>30, <1>31, <1>32, <1>33, <1>34
     DEF Next, Serve, Outside, Sweep, Admin

(***************************************************************************)
(* The theorems                                                            *)
(***************************************************************************)
\* The invariant of the registry, the sweeper and the administrator holds in every
\* reachable state, whatever the number of sessions, failures and restarts.
THEOREM SessionsInvariant == Spec => [](TypeOK /\ SessionInv)
<1>1. Init => TypeOK /\ SessionInv
  BY SessionInit
<1>2. TypeOK /\ SessionInv /\ [Next]_vars => (TypeOK /\ SessionInv)'
  BY TypeStep, SessionStep
<1> QED BY <1>1, <1>2, PTL DEF Spec

\* Every variable keeps its type; in particular each map of the memory holds sessions of
\* its own kinds only.
THEOREM SessionsTypes == Spec => []TypeOK
BY SessionsInvariant, PTL

\* A terminal whose two sides are connected is listed as active and can be cut, although
\* the sweeper compares rows with a list of held ids that it copied before (sweepOnce).
THEOREM TerminalsListed == Spec => []WsListed
<1>1. TypeOK /\ SessionInv => WsListed
  BY DEF SessionInv, Holding, WsListed
<1> QED BY <1>1, SessionsInvariant, PTL

\* ended_at of a row is written once, by whichever of the handler, the sweeper, the
\* administrator and the next process closes it first.
THEOREM EndsAreWrittenOnce == Spec => []EndedOnce
<1>1. TypeOK /\ SessionInv => EndedOnce
  BY DEF SessionInv
<1> QED BY <1>1, SessionsInvariant, PTL

\* A handler that is over holds no connection, no hook and no token's mapping, also when
\* the write that closes its row failed (Close releases the memory all the same).
THEOREM FinishedHoldNothing == Spec => []NothingHeld
<1>1. TypeOK /\ SessionInv => NothingHeld
  BY DEF SessionInv, Holding, NothingHeld
<1> QED BY <1>1, SessionsInvariant, PTL
=============================================================================
