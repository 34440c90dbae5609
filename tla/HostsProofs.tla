---------------------------- MODULE HostsProofs -----------------------------
(***************************************************************************)
(* Theorems about the two parts of Hosts, for any values of their constants: *)
(* the disks, downloads and mounts of Machines, and the tickets, grants and *)
(* bridges of Jump.  The two share no variable.                            *)
(***************************************************************************)
EXTENDS Machines, Jump, TLAPS

(***************************************************************************)
(* Machines.  What a request about a volume has looked at (VolInv, WatchInv), *)
(* which of the files a download or a mount may touch (FilesInv), and what the *)
(* registry of mounts may know less than the kernel (FuseInv).             *)
(***************************************************************************)

(***************************************************************************)
(* What the handlers hold.                                                 *)
(***************************************************************************)
(* A handler and its request have their fields, whatever they hold.        *)
IsDeed(q) == q = [op |-> q.op, v |-> q.v, t |-> q.t, x |-> q.x, wipe |-> q.wipe, rw |-> q.rw]
CheckNames == {"images", "backing", "mounts"}
IsHand(s) ==
  /\ s = [at |-> s.at, q |-> s.q, x |-> s.x, checks |-> s.checks, used |-> s.used, blind |-> s.blind]
  /\ IsDeed(s.q)
  /\ s.checks \in Seq(CheckNames)

(* Where a handler is tells what it serves.                                *)
Erasing == {"detach", "volume", "image"}
Looking == {"look", "drop", "unlink"}
HandFits(s) ==
  /\ s.at \in {"guard", "lock"} => s.q.op \in Locking /\ s.checks = Checks(s.q.op)
  /\ s.at \in Erasing => s.q.op = s.at /\ s.checks = Checks(s.at)
  /\ s.at \in Looking => s.q.op \in Erasing
  /\ s.at \in {"volume", "image"} \union Looking => s.x # NoVol
  /\ s.at \in {"drop", "unlink"} => ~s.used
  /\ s.at = "drop" => s.q.op = "image"

HandInv ==
  /\ hand = [h \in Handlers |-> hand[h]]
  /\ \A h \in Handlers : IsHand(hand[h]) /\ HandFits(hand[h])
  /\ deeds \subseteq Deeds
  /\ \A q \in deeds : q.op \in {"volume", "image", "download"} => q.x \in Vols

LEMMA DeedShape == IsDeed(Deed) /\ \A q \in Deeds : IsDeed(q)
<1>1. IsDeed(Deed) BY DEF IsDeed, Deed
<1>2. ASSUME NEW q \in Deeds PROVE IsDeed(q)
  <2>1. q \in [op : Handled \union {"download", "signal", "kill"}, v : Vms \union {""}, t : Targets,
                x : Vols \union {NoVol}, wipe : BOOLEAN, rw : BOOLEAN]
    BY DEF Deeds
  <2>2. QED BY <2>1 DEF IsDeed
<1>3. QED BY <1>1, <1>2

LEMMA AsksInOrder ==
  /\ Checks("detach") = <<"images", "backing", "mounts">>
  /\ Checks("volume") = <<"backing", "mounts", "images">>
  /\ Checks("image") = <<"mounts", "backing">>
  /\ \A op : Checks(op) \in Seq(CheckNames)
<1>a. <<"images", "backing", "mounts">> \in Seq(CheckNames) BY DEF CheckNames
<1>b. <<"backing", "mounts", "images">> \in Seq(CheckNames) BY DEF CheckNames
<1>c. <<"mounts", "backing">> \in Seq(CheckNames) BY DEF CheckNames
<1>d. <<>> \in Seq(CheckNames) BY DEF CheckNames
<1>2. ASSUME NEW op PROVE Checks(op) \in {<<"images", "backing", "mounts">>, <<"backing", "mounts", "images">>,
                                          <<"mounts", "backing">>, <<>>}
  BY DEF Checks
<1>3. QED BY <1>a, <1>b, <1>c, <1>d, <1>2 DEF Checks

LEMMA RestShape == IsHand(AtRest) /\ HandFits(AtRest) /\ AtRest.at = "free"
BY DeedShape DEF IsHand, AtRest, HandFits, Erasing, Looking

(* A step of handler h, which is then at p; where it came from.            *)
HandTurn(h) ==
  /\ hand' = [k \in Handlers |-> hand'[k]]
  /\ \A k \in Handlers \ {h} : hand'[k] = hand[k]
  /\ IsHand(hand'[h]) /\ HandFits(hand'[h])

LEMMA HandMoves ==
  ASSUME HandInv, NEW h \in Handlers, NEW s, hand' = [hand EXCEPT ![h] = s], IsHand(s), HandFits(s)
  PROVE  HandTurn(h) /\ hand'[h] = s
BY DEF HandInv, HandTurn

LEMMA Rests ==
  ASSUME HandInv, NEW h \in Handlers, hand' = [hand EXCEPT ![h] = AtRest]
  PROVE  HandTurn(h) /\ hand'[h] = AtRest
BY HandMoves, RestShape

(* On to a place where nothing is expected of it but what it brings.       *)
LEMMA Steps ==
  ASSUME HandInv, NEW h \in Handlers, NEW p, Step(h, p),
         p \in {"guard", "lock"} => hand[h].at \in {"guard", "lock"},
         p \in Erasing => hand[h].q.op = p /\ hand[h].checks = Checks(p),
         p \in {"volume", "image"} \union Looking => hand[h].x # NoVol,
         p \in Looking => hand[h].q.op \in Erasing,
         p \in {"drop", "unlink"} => ~hand[h].used,
         p = "drop" => hand[h].q.op = "image"
  PROVE  /\ HandTurn(h) /\ hand'[h].at = p /\ hand'[h].q = hand[h].q /\ hand'[h].x = hand[h].x
         /\ hand'[h].checks = hand[h].checks /\ hand'[h].used = hand[h].used /\ hand'[h].blind = hand[h].blind
<1>1. PICK s : s = [hand[h] EXCEPT !.at = p] OBVIOUS
<1>2. IsHand(hand[h]) /\ HandFits(hand[h]) BY DEF HandInv
<1>3. /\ IsHand(s) /\ s.at = p /\ s.q = hand[h].q /\ s.x = hand[h].x
      /\ s.checks = hand[h].checks /\ s.used = hand[h].used /\ s.blind = hand[h].blind
  BY <1>1, <1>2 DEF IsHand
<1>4. HandFits(s) BY <1>2, <1>3 DEF HandFits
<1>5. hand' = [hand EXCEPT ![h] = s] BY <1>1 DEF Step
<1>6. QED BY <1>3, <1>4, <1>5, HandMoves

(***************************************************************************)
(* Deleting a volume.                                                      *)
(***************************************************************************)
(* A volume that is not there is nobody's child.                           *)
VolInv ==
  /\ vol = [x \in Vols |-> vol[x]]
  /\ \A x \in Vols : ~vol[x].there => vol[x].base = NoVol

(* The kinds of use a handler has not asked about yet.                     *)
CheckOf == [disk |-> "mounts", row |-> "images", child |-> "backing"]
Unasked(s) ==
  {k \in {"disk", "row", "child"} :
     \/ s.at = "look" /\ \E i \in DOMAIN s.checks : s.checks[i] = CheckOf[k]
     \/ s.at \in {"look", "drop"} /\ s.q.op = "image" /\ k = "row"}

(* What a handler that could ask everything knows of a use that has lasted *)
(* since it came.                                                          *)
Accounted(s, u) ==
  u[3] = s.x =>
    s.used \/ u[1] \in Unasked(s) \/ (s.q.op = "detach" /\ u[2] = s.q.v)
Watched(h) ==
  hand[h].at \in Looking /\ ~hand[h].blind => \A u \in Uses \ fresh[h] : Accounted(hand[h], u)
WatchInv == \A h \in Handlers : Watched(h)

(* A use that has lasted did so before the step as well.                   *)
LEMMA Lasting ==
  ASSUME Watch, NEW h \in Handlers, hand'[h].at # "free", NEW u \in Uses' \ fresh'[h]
  PROVE  u \in Uses \ fresh[h]
BY DEF Watch

LEMMA OthersWatched ==
  ASSUME WatchInv, Watch, NEW h \in Handlers, hand'[h] = hand[h] PROVE Watched(h)'
<1> SUFFICES ASSUME hand'[h].at \in Looking, ~hand'[h].blind, NEW u \in Uses' \ fresh'[h]
             PROVE  Accounted(hand'[h], u)
  BY DEF Watched
<1>1. u \in Uses \ fresh[h] BY Lasting DEF Looking
<1>2. QED BY <1>1 DEF WatchInv, Watched

(* The uses that are there, by kind, and what the queries say of them.     *)
LEMMA UseKinds ==
  ASSUME NEW u \in Uses, NEW x, x # NoVol, u[3] = x, VolInv
  PROVE  \/ u[1] = "disk" /\ u[2] \in Vms /\ \A but : u[2] # but => Mounted(x, but)
         \/ u[1] = "row" /\ u[2] = x /\ x \in image
         \/ u[1] = "child" /\ Backs(x)
<1>1. CASE \E v \in Vms, t \in {"vda", "vdb"} : u = <<"disk", v, Held(v)[t]>>
  BY <1>1 DEF Mounted
<1>2. CASE \E y \in image : u = <<"row", y, y>> BY <1>2
<1>3. CASE \E c \in Vols : u = <<"child", c, vol[c].base>>
  <2>1. PICK c \in Vols : u = <<"child", c, vol[c].base>> BY <1>3
  <2>2. x = vol[c].base /\ x # NoVol BY <2>1
  <2>3. vol[c].there BY <2>2 DEF VolInv
  <2>4. QED BY <2>1, <2>2, <2>3 DEF Backs
<1>4. QED BY <1>1, <1>2, <1>3 DEF Uses

(* The answer to one check covers the uses of its kind.                    *)
LEMMA LookSees ==
  ASSUME VolInv, NEW u \in Uses, NEW x, x # NoVol, u[3] = x, NEW but, NEW check,
         check = CheckOf[u[1]], u[2] # but
  PROVE  Reported(check, x, but)
<1>1. CASE u[1] = "disk" /\ Mounted(x, but)
  <2>1. check = "mounts" BY <1>1 DEF CheckOf
  <2>2. QED BY <1>1, <2>1 DEF Reported
<1>2. CASE u[1] = "row" /\ x \in image
  <2>1. check = "images" BY <1>2 DEF CheckOf
  <2>2. QED BY <1>2, <2>1 DEF Reported
<1>3. CASE u[1] = "child" /\ Backs(x)
  <2>1. check = "backing" BY <1>3 DEF CheckOf
  <2>2. QED BY <1>3, <2>1 DEF Reported
<1>4. QED BY <1>1, <1>2, <1>3, UseKinds

(***************************************************************************)
(* What each handler's step does to its slot.                              *)
(***************************************************************************)
(* Places between which the registry of mounts and the kernel disagree.    *)
Moving == {"enter", "fusermount"}
Apart(h) == hand[h].at \notin Moving /\ hand'[h].at \notin Moving
Quiet(h) == HandTurn(h) /\ Apart(h) /\ hand'[h].at \notin Looking

LEMMA Replies ==
  ASSUME HandInv, NEW h \in Handlers, hand[h].at \notin Moving,
         hand' = [hand EXCEPT ![h] = AtRest]
  PROVE  Quiet(h)
BY Rests, RestShape DEF Quiet, Apart, Moving, Looking

LEMMA StepsOn ==
  ASSUME HandInv, NEW h \in Handlers, hand[h].at \notin Moving, NEW p, Step(h, p),
         p \notin {"guard", "lock"} \union Erasing \union Looking \union Moving
  PROVE  Quiet(h)
<1>1. HandTurn(h) /\ hand'[h].at = p BY Steps DEF Looking, Erasing
<1>2. QED BY <1>1 DEF Quiet, Apart

LEMMA BeginHands == ASSUME HandInv, NEW h \in Handlers, Begin(h) PROVE Quiet(h)
<1>1. PICK q \in deeds :
        /\ hand[h].at = "free" /\ q.op \in Handled
        /\ hand' = [hand EXCEPT ![h] = [AtRest EXCEPT !.q = q, !.x = q.x, !.checks = Checks(q.op),
                                                !.at = IF q.op \in Locking THEN "guard" ELSE q.op]]
  BY DEF Begin
<1>2. PICK p : p = IF q.op \in Locking THEN "guard" ELSE q.op OBVIOUS
<1>3. PICK c : c = Checks(q.op) OBVIOUS
<1>4. PICK s : s = [AtRest EXCEPT !.q = q, !.x = q.x, !.checks = c, !.at = p] OBVIOUS
<1>5. hand' = [hand EXCEPT ![h] = s] BY <1>1, <1>2, <1>3, <1>4
<1>6. IsDeed(q) /\ c \in Seq(CheckNames) BY <1>3, DeedShape, AsksInOrder DEF HandInv
<1>7. IsHand(s) /\ s.at = p /\ s.q = q /\ s.checks = c BY <1>4, <1>6 DEF IsHand, AtRest
<1>8. /\ p \in {"guard"} \union Erasing \union {"create", "register", "upload", "clone", "mount", "unmount"}
      /\ p = "guard" => q.op \in Locking
      /\ p # "guard" => p = q.op
  BY <1>1, <1>2 DEF Handled, Erasing
<1>x. p \in {"volume", "image"} => q.x # NoVol BY <1>1, <1>8, DisksAssumption DEF HandInv, NoVol
<1>y. s.x = q.x BY <1>4 DEF AtRest
<1>9. HandFits(s) BY <1>3, <1>7, <1>8, <1>x, <1>y DEF HandFits, Erasing, Looking
<1>10. HandTurn(h) /\ hand'[h] = s BY <1>5, <1>7, <1>9, HandMoves
<1>11. QED BY <1>1, <1>7, <1>8, <1>10 DEF Quiet, Apart, Moving, Looking, Erasing

LEMMA EnterHands == ASSUME HandInv, NEW h \in Handlers, Enter(h) PROVE Quiet(h)
<1>1. CASE Begin(h) BY <1>1, BeginHands
<1>2. CASE Guard(h)
  <2>1. hand[h].at = "guard" /\ (Step(h, "lock") \/ hand' = [hand EXCEPT ![h] = AtRest]) BY <1>2 DEF Guard
  <2>2. CASE Step(h, "lock")
    <3>1. HandTurn(h) /\ hand'[h].at = "lock" BY <2>1, <2>2, Steps DEF Erasing, Looking
    <3>2. QED BY <2>1, <3>1 DEF Quiet, Apart, Moving, Looking
  <2>3. QED BY <2>1, <2>2, Replies DEF Moving
<1>3. CASE Lock(h)
  <2>1. hand[h].at = "lock" /\ (Step(h, hand[h].q.op) \/ hand' = [hand EXCEPT ![h] = AtRest]) BY <1>3 DEF Lock
  <2>2. CASE Step(h, hand[h].q.op)
    <3>0. PICK op : op = hand[h].q.op OBVIOUS
    <3>1. op \in Locking /\ hand[h].checks = Checks(op) BY <2>1, <3>0 DEF HandInv, HandFits
    <3>2. op \notin {"guard", "lock", "volume", "image"} \union Looking \union Moving BY <3>1 DEF Locking, Looking, Moving
    <3>3. HandTurn(h) /\ hand'[h].at = op
      BY <2>2, <3>0, <3>1, <3>2, Steps DEF Erasing, Looking
    <3>4. QED BY <2>1, <3>2, <3>3 DEF Quiet, Apart, Moving
  <2>3. QED BY <2>1, <2>2, Replies DEF Moving
<1>4. CASE Refused(h)
  <2>1. hand[h].at \in CallPlaces /\ (Step(h, "rollback") \/ hand' = [hand EXCEPT ![h] = AtRest])
    BY <1>4 DEF Refused, Reply
  <2>2. hand[h].at \notin Moving BY <2>1 DEF CallPlaces, Locking, Moving
  <2>3. QED BY <2>1, <2>2, Replies, StepsOn DEF Erasing, Looking, Moving
<1>5. QED BY <1>1, <1>2, <1>3, <1>4 DEF Enter

(* A place alone is noted, with a volume.                                  *)
LEMMA StepsWith ==
  ASSUME HandInv, NEW h \in Handlers, hand[h].at \notin Moving, NEW p, NEW x,
         hand' = [hand EXCEPT ![h] = [@ EXCEPT !.at = p, !.x = x]],
         p \notin {"guard", "lock"} \union Erasing \union {"drop", "unlink"} \union Moving,
         p = "look" => hand[h].q.op \in Erasing /\ x # NoVol
  PROVE  HandTurn(h) /\ Apart(h) /\ hand'[h].at = p /\ hand'[h].q = hand[h].q
         /\ hand'[h].x = x /\ hand'[h].checks = hand[h].checks /\ hand'[h].blind = hand[h].blind
<1>1. PICK s : s = [hand[h] EXCEPT !.at = p, !.x = x] OBVIOUS
<1>2. IsHand(hand[h]) BY DEF HandInv
<1>3. IsHand(s) /\ s.at = p /\ s.q = hand[h].q /\ s.x = x /\ s.checks = hand[h].checks /\ s.blind = hand[h].blind
  BY <1>1, <1>2 DEF IsHand
<1>4. HandFits(s) BY <1>3 DEF HandFits, Looking, Erasing
<1>5. HandTurn(h) /\ hand'[h] = s BY <1>1, <1>3, <1>4, HandMoves
<1>6. QED BY <1>3, <1>5 DEF Apart

LEMMA WorkHands == ASSUME HandInv, NEW h \in Handlers, Work(h), ~Detach(h) PROVE Quiet(h)
<1>1. CASE Power(h) \/ Stop(h) \/ Attach(h) \/ Plug(h) \/ Create(h) \/ Rollback(h) \/ Redefine(h) \/ Eject(h) \/ Snapshot(h)
  <2>1. hand[h].at \in {"pause", "resume", "start", "restart", "stop", "attach", "plug", "create", "rollback",
                        "spec", "xml", "eject", "snapshot", "forget", "revert"}
    BY <1>1 DEF Power, Stop, Attach, Plug, Create, Rollback, Redefine, Eject, Snapshot
  <2>2. hand[h].at \notin Moving BY <2>1 DEF Moving
  <2>3. Step(h, "plug") \/ Step(h, "rollback") \/ hand' = [hand EXCEPT ![h] = AtRest]
    BY <1>1 DEF Power, Stop, Attach, Plug, Create, Rollback, Redefine, Eject, Snapshot, Reply
  <2>4. QED BY <2>2, <2>3, Replies, StepsOn DEF Erasing, Looking, Moving
<1>2. CASE Quick(h)
  <2>1. hand[h].at = "quick" /\ \E x : hand' = [hand EXCEPT ![h] = [@ EXCEPT !.at = "create", !.x = x]]
    BY <1>2 DEF Quick
  <2>2. PICK x : hand' = [hand EXCEPT ![h] = [@ EXCEPT !.at = "create", !.x = x]] BY <2>1
  <2>3. HandTurn(h) /\ Apart(h) /\ hand'[h].at = "create" BY <2>1, <2>2, StepsWith DEF Erasing, Moving
  <2>4. QED BY <2>3 DEF Quiet, Looking
<1>3. QED BY <1>1, <1>2 DEF Work

LEMMA FoundHands == ASSUME HandInv, NEW h \in Handlers, Found(h) PROVE Quiet(h)
<1>1. hand[h].at \in {"register", "upload", "row", "clone"} /\ (Step(h, "row") \/ hand' = [hand EXCEPT ![h] = AtRest])
  BY DEF Found, Register, Upload, Row, Clone, Reply
<1>2. hand[h].at \notin Moving BY <1>1 DEF Moving
<1>3. QED BY <1>1, <1>2, Replies, StepsOn DEF Erasing, Looking, Moving

(***************************************************************************)
(* The steps of a deletion.                                                *)
(***************************************************************************)
(* Every use is of a kind some check asks about.                           *)
LEMMA UseKind == ASSUME NEW u \in Uses PROVE u[1] \in {"disk", "row", "child"}
BY DEF Uses

LEMMA DetachWatched ==
  ASSUME HandInv, NEW h \in Handlers, Detach(h) PROVE HandTurn(h) /\ Apart(h) /\ Watched(h)'
<1>1. hand[h].at = "detach" /\ hand[h].q.op = "detach" /\ hand[h].checks = Checks("detach")
  BY DEF Detach, HandInv, HandFits, Erasing
<1>2. CASE hand' = [hand EXCEPT ![h] = AtRest]
  BY <1>1, <1>2, Replies DEF Quiet, Watched, Moving
<1>3. CASE hand' # [hand EXCEPT ![h] = AtRest]
  <2>1. PICK x : hand' = [hand EXCEPT ![h] = [@ EXCEPT !.at = "look", !.x = x]] /\ x # NoVol BY <1>3 DEF Detach, Reply
  <2>2. /\ HandTurn(h) /\ Apart(h) /\ hand'[h].at = "look" /\ hand'[h].q = hand[h].q
        /\ hand'[h].checks = hand[h].checks
    BY <1>1, <2>1, StepsWith DEF Erasing, Moving
  <2>3. hand'[h].checks = <<"images", "backing", "mounts">> BY <1>1, <2>2, AsksInOrder
  <2>4. {"disk", "row", "child"} \subseteq Unasked(hand'[h]) BY <2>2, <2>3 DEF Unasked, CheckOf
  <2>5. \A u \in Uses' : u[1] \in {"disk", "row", "child"} BY DEF Uses
  <2>6. QED BY <2>2, <2>4, <2>5 DEF Watched, Accounted
<1>4. QED BY <1>2, <1>3

LEMMA VolumeWatched ==
  ASSUME HandInv, NEW h \in Handlers, Volume(h) \/ Image(h) PROVE HandTurn(h) /\ Apart(h) /\ Watched(h)'
<1>1. /\ hand[h].at \in {"volume", "image"} /\ hand[h].q.op = hand[h].at
      /\ hand[h].checks = Checks(hand[h].at) /\ hand[h].x # NoVol
  BY DEF Volume, Image, HandInv, HandFits, Erasing
<1>2. CASE hand' = [hand EXCEPT ![h] = AtRest]
  BY <1>1, <1>2, Replies DEF Quiet, Watched, Moving
<1>3. CASE Step(h, "look")
  <2>1. /\ HandTurn(h) /\ hand'[h].at = "look" /\ hand'[h].q = hand[h].q
        /\ hand'[h].checks = hand[h].checks
    BY <1>1, <1>3, Steps DEF Erasing
  <2>2. {"disk", "row", "child"} \subseteq Unasked(hand'[h])
    <3>1. CASE hand[h].at = "volume"
      <4>1. hand'[h].checks = <<"backing", "mounts", "images">> BY <1>1, <2>1, <3>1, AsksInOrder
      <4>2. QED BY <2>1, <4>1 DEF Unasked, CheckOf
    <3>2. CASE hand[h].at = "image"
      <4>1. hand'[h].checks = <<"mounts", "backing">> /\ hand'[h].q.op = "image"
        BY <1>1, <2>1, <3>2, AsksInOrder
      <4>2. QED BY <2>1, <4>1 DEF Unasked, CheckOf
    <3>3. QED BY <1>1, <3>1, <3>2
  <2>3. \A u \in Uses' : u[1] \in {"disk", "row", "child"} BY DEF Uses
  <2>4. QED BY <1>1, <2>1, <2>2, <2>3 DEF Watched, Accounted, Apart, Moving
<1>4. CASE hand' = [hand EXCEPT ![h] = [@ EXCEPT !.at = "look", !.checks = <<>>, !.blind = TRUE]]
  <2>1. PICK c : c = <<>> OBVIOUS
  <2>a. PICK r : r = hand[h] OBVIOUS
  <2>b. IsHand(r) BY <2>a DEF HandInv
  <2>2. PICK s : s = [r EXCEPT !.at = "look", !.checks = c, !.blind = TRUE] OBVIOUS
  <2>3. c \in Seq(CheckNames) BY <2>1
  <2>4. IsHand(s) /\ s.at = "look" /\ s.q = r.q /\ s.x = r.x /\ s.blind BY <2>2, <2>3, <2>b DEF IsHand
  <2>5. HandFits(s) BY <1>1, <2>a, <2>4 DEF HandFits, Looking, Erasing
  <2>6. HandTurn(h) /\ hand'[h] = s BY <1>4, <2>a, <2>1, <2>2, <2>4, <2>5, HandMoves
  <2>7. QED BY <1>1, <2>4, <2>6 DEF Watched, Apart, Moving
<1>5. QED BY <1>2, <1>3, <1>4 DEF Volume, Image, Reply

(* One check is asked, its answer remembered.                              *)
LEMMA LookWatched ==
  ASSUME HandInv, VolInv, WatchInv, Watch, NEW h \in Handlers, Look(h)
  PROVE  HandTurn(h) /\ Apart(h) /\ Watched(h)'
<1>1. PICK s : s = hand[h] OBVIOUS
<1>2. PICK but : but = IF s.q.op = "detach" THEN s.q.v ELSE "" OBVIOUS
<1>3. PICK check : check = Head(s.checks) OBVIOUS
<1>4. PICK seen : seen = (s.used \/ Reported(check, s.x, but)) OBVIOUS
<1>5. PICK rest : rest = Tail(s.checks) OBVIOUS
<1>6. PICK t : t = [s EXCEPT !.checks = rest, !.used = seen] OBVIOUS
<1>7. s.at = "look" /\ s.checks # <<>> /\ hand' = [hand EXCEPT ![h] = t]
  BY <1>1, <1>2, <1>3, <1>4, <1>5, <1>6 DEF Look
<1>8. IsHand(s) /\ HandFits(s) BY <1>1 DEF HandInv
<1>9. /\ rest \in Seq(CheckNames)
      /\ \A i \in DOMAIN s.checks : s.checks[i] = check \/ \E j \in DOMAIN rest : rest[j] = s.checks[i]
  <2>1. s.checks \in Seq(CheckNames) /\ s.checks # <<>> BY <1>7, <1>8 DEF IsHand
  <2>2. rest \in Seq(CheckNames) /\ Len(rest) = Len(s.checks) - 1
        /\ \A j \in 1..Len(rest) : rest[j] = s.checks[j + 1]
    BY <1>5, <2>1
  <2>3. ASSUME NEW i \in DOMAIN s.checks PROVE s.checks[i] = check \/ \E j \in DOMAIN rest : rest[j] = s.checks[i]
    <3>1. i \in 1..Len(s.checks) BY <2>1
    <3>2. CASE i = 1 BY <1>3, <2>1, <3>2
    <3>3. CASE i # 1
      <4>1. i - 1 \in 1..Len(rest) /\ rest[i - 1] = s.checks[i] BY <2>1, <2>2, <3>1, <3>3
      <4>2. QED BY <2>2, <4>1
    <3>4. QED BY <3>2, <3>3
  <2>4. QED BY <2>2, <2>3
<1>10. IsHand(t) /\ t.at = "look" /\ t.q = s.q /\ t.x = s.x /\ t.checks = rest /\ t.used = seen /\ t.blind = s.blind
  BY <1>6, <1>7, <1>8, <1>9 DEF IsHand
<1>a. t.used <=> s.used \/ Reported(check, s.x, but) BY <1>4, <1>10
<1>11. HandFits(t) BY <1>8, <1>10, <1>7 DEF HandFits, Looking, Erasing
<1>12. HandTurn(h) /\ hand'[h] = t BY <1>7, <1>10, <1>11, HandMoves
<1>13. ASSUME ~t.blind, NEW u \in Uses' \ fresh'[h] PROVE Accounted(t, u)
  <2>1. u \in Uses \ fresh[h] BY <1>10, <1>12, Lasting
  <2>2. Accounted(s, u) BY <1>1, <1>7, <1>10, <1>13, <2>1 DEF WatchInv, Watched, Looking
  <2>r. ~t.used => ~Reported(check, s.x, but) BY <1>a
  <2>n. s.x # NoVol BY <1>7, <1>8 DEF HandFits, Looking
  <2>a. u[3] = s.x /\ ~t.used => u[1] \in Unasked(s) \/ (s.q.op = "detach" /\ u[2] = s.q.v)
    BY <1>a, <2>2 DEF Accounted
  <2>b. SUFFICES (u[3] = s.x /\ ~t.used /\ u[1] \notin Unasked(t)) => (s.q.op = "detach" /\ u[2] = s.q.v)
    BY <1>10 DEF Accounted
  <2>3. SUFFICES ASSUME u[3] = s.x, u[1] \in Unasked(s), u[1] \notin Unasked(t), ~Reported(check, s.x, but)
                 PROVE  s.q.op = "detach" /\ u[2] = s.q.v
    BY <2>r, <2>a
  <2>4. u[1] \in {"disk", "row", "child"} BY <2>1, UseKind
  <2>5. check = CheckOf[u[1]]
    <3>1. \E i \in DOMAIN s.checks : s.checks[i] = CheckOf[u[1]] BY <1>10, <2>3, <2>4, <1>7 DEF Unasked
    <3>2. ~\E j \in DOMAIN rest : rest[j] = CheckOf[u[1]] BY <1>10, <2>3, <2>4 DEF Unasked
    <3>3. QED BY <1>9, <3>1, <3>2
  <2>6. u[2] = but BY <2>n, <2>1, <2>3, <2>5, LookSees
  <2>7. s.q.op = "detach"
    <3>1. SUFFICES ASSUME s.q.op # "detach" PROVE FALSE OBVIOUS
    <3>2. but = "" BY <1>2, <3>1
    <3>3. CASE u[1] = "disk"
      BY <2>n, <2>1, <2>3, <2>6, <3>2, <3>3, UseKinds, DisksAssumption
    <3>4. CASE u[1] = "row"
      <4>1. s.x \in image BY <2>n, <2>1, <2>3, <3>4, UseKinds
      <4>2. QED BY <2>3, <2>5, <3>4, <4>1 DEF Reported, CheckOf
    <3>5. CASE u[1] = "child"
      <4>1. Backs(s.x) BY <2>n, <2>1, <2>3, <3>5, UseKinds
      <4>2. QED BY <2>3, <2>5, <3>5, <4>1 DEF Reported, CheckOf
    <3>6. QED BY <2>4, <3>3, <3>4, <3>5
  <2>8. QED BY <1>2, <1>10, <2>6, <2>7
<1>14. QED BY <1>1, <1>7, <1>10, <1>12, <1>13 DEF Watched, Apart, Moving

LEMMA LookFailsWatched ==
  ASSUME HandInv, NEW h \in Handlers, LookFails(h) PROVE HandTurn(h) /\ Apart(h) /\ Watched(h)'
<1>1. PICK s : s = hand[h] OBVIOUS
<1>2. IsHand(s) /\ HandFits(s) /\ s.at = "look" /\ s.checks # <<>> BY <1>1 DEF HandInv, LookFails
<1>3. CASE hand' = [hand EXCEPT ![h] = AtRest]
  BY <1>1, <1>2, <1>3, Replies DEF Quiet, Watched, Moving
<1>4. CASE hand' # [hand EXCEPT ![h] = AtRest]
  <2>1. PICK c : c = IF s.q.op = "image" /\ Head(s.checks) = "mounts" THEN <<>> ELSE Tail(s.checks) OBVIOUS
  <2>2. hand' = [hand EXCEPT ![h] = [s EXCEPT !.checks = c, !.blind = TRUE]]
    BY <1>1, <1>4, <2>1 DEF LookFails, Reply
  <2>3. PICK t : t = [s EXCEPT !.checks = c, !.blind = TRUE] OBVIOUS
  <2>4. c \in Seq(CheckNames) BY <1>2, <2>1 DEF IsHand
  <2>5. IsHand(t) /\ t.at = "look" /\ t.q = s.q /\ t.x = s.x /\ t.blind BY <1>2, <2>3, <2>4 DEF IsHand
  <2>6. HandFits(t) BY <1>2, <2>5 DEF HandFits, Looking, Erasing
  <2>7. HandTurn(h) /\ hand'[h] = t BY <2>2, <2>3, <2>5, <2>6, HandMoves
  <2>8. QED BY <1>1, <1>2, <2>5, <2>7 DEF Watched, Apart, Moving
<1>5. QED BY <1>3, <1>4

(* The judgement, and the row of an image going before its file.           *)
LEMMA JudgeWatched ==
  ASSUME HandInv, WatchInv, Watch, NEW h \in Handlers, Judge(h) PROVE HandTurn(h) /\ Apart(h) /\ Watched(h)'
<1>1. PICK s : s = hand[h] OBVIOUS
<1>2. HandFits(s) /\ s.at = "look" /\ s.checks = <<>> BY <1>1 DEF HandInv, Judge
<1>3. CASE hand' = [hand EXCEPT ![h] = AtRest]
  BY <1>1, <1>2, <1>3, Replies DEF Quiet, Watched, Moving
<1>4. CASE hand' # [hand EXCEPT ![h] = AtRest]
  <2>1. PICK p : p = IF s.q.op = "image" THEN "drop" ELSE "unlink" OBVIOUS
  <2>2. ~s.used /\ Step(h, p) BY <1>1, <1>4, <2>1 DEF Judge, Reply
  <2>3. s.q.op \in Erasing /\ s.x # NoVol BY <1>2 DEF HandFits, Looking
  <2>4. PICK t : t = hand'[h] OBVIOUS
  <2>5. HandTurn(h) /\ t.at = p /\ t.q = s.q /\ t.x = s.x /\ (t.used <=> s.used) /\ (t.blind <=> s.blind)
    BY <1>1, <2>1, <2>2, <2>3, <2>4, Steps DEF Erasing
  <2>6. Unasked(s) \subseteq Unasked(t)
    BY <1>2, <2>1, <2>5 DEF Unasked
  <2>7. ASSUME ~t.blind, NEW u \in Uses' \ fresh'[h] PROVE Accounted(t, u)
    <3>1. u \in Uses \ fresh[h] BY <2>1, <2>4, <2>5, Lasting
    <3>2. Accounted(s, u) BY <1>1, <1>2, <2>5, <2>7, <3>1 DEF WatchInv, Watched, Looking
    <3>3. QED BY <2>5, <2>6, <3>2 DEF Accounted
  <2>8. QED BY <1>1, <1>2, <2>1, <2>4, <2>5, <2>7 DEF Watched, Apart, Moving
<1>5. QED BY <1>3, <1>4

LEMMA DropWatched ==
  ASSUME HandInv, VolInv, WatchInv, Watch, NEW h \in Handlers, Drop(h) PROVE HandTurn(h) /\ Apart(h) /\ Watched(h)'
<1>1. PICK s : s = hand[h] OBVIOUS
<1>2. HandFits(s) /\ s.at = "drop" /\ Step(h, "unlink") /\ image' = image \ {s.x}
  BY <1>1 DEF HandInv, Drop
<1>3. s.q.op = "image" /\ ~s.used /\ s.x # NoVol BY <1>2 DEF HandFits, Looking
<1>4. PICK t : t = hand'[h] OBVIOUS
<1>5. HandTurn(h) /\ t.at = "unlink" /\ t.q = s.q /\ t.x = s.x /\ (t.used <=> s.used) /\ (t.blind <=> s.blind)
  BY <1>1, <1>2, <1>3, <1>4, Steps DEF Erasing
<1>6. ASSUME ~t.blind, NEW u \in Uses' \ fresh'[h] PROVE Accounted(t, u)
  <2>1. u \in Uses \ fresh[h] BY <1>4, <1>5, Lasting
  <2>2. Accounted(s, u) BY <1>1, <1>2, <1>5, <1>6, <2>1 DEF WatchInv, Watched, Looking
  <2>3. SUFFICES ASSUME u[3] = s.x, u[1] \in Unasked(s) PROVE FALSE
    BY <1>5, <2>2 DEF Accounted
  <2>4. u[1] = "row" BY <1>2, <2>3 DEF Unasked
  <2>5. u[3] \in image' BY <2>4 DEF Uses
  <2>6. QED BY <1>2, <2>3, <2>5
<1>7. QED BY <1>1, <1>2, <1>4, <1>5, <1>6 DEF Watched, Apart, Moving

LEMMA EraseHands ==
  ASSUME HandInv, VolInv, WatchInv, Watch, NEW h \in Handlers, Erase(h)
  PROVE  HandTurn(h) /\ Apart(h) /\ Watched(h)'
<1>1. CASE Unlink(h)
  BY <1>1, Replies DEF Unlink, Reply, Quiet, Watched, Moving
<1>2. QED
  BY <1>1, VolumeWatched, LookWatched, LookFailsWatched, JudgeWatched, DropWatched DEF Erase

(* Handlers on the offline channel.                                        *)
LEMMA MountHands ==
  ASSUME HandInv, NEW h \in Handlers, MountAsk(h) \/ Entered(h) \/ GuestmountFails(h)
  PROVE  Quiet(h)
<1>1. hand[h].at \in {"mount", "entered", "guestmount"}
      /\ (Step(h, "entered") \/ Step(h, "guestmount") \/ hand' = [hand EXCEPT ![h] = AtRest])
  BY DEF MountAsk, Entered, GuestmountFails, Reply
<1>2. hand[h].at \notin Moving BY <1>1 DEF Moving
<1>3. QED BY <1>1, <1>2, Replies, StepsOn DEF Erasing, Looking, Moving

LEMMA UnmountHands ==
  ASSUME HandInv, NEW h \in Handlers, Unmount(h), hand' # [hand EXCEPT ![h] = AtRest]
  PROVE  HandTurn(h) /\ hand'[h].at = "fusermount" /\ hand'[h].q.v = hand[h].q.v
<1>1. PICK s : s = hand[h] OBVIOUS
<1>2. PICK rw : rw = mount[s.q.v].rw OBVIOUS
<1>3. PICK q : q = [s.q EXCEPT !.rw = rw] OBVIOUS
<1>4. PICK t : t = [s EXCEPT !.at = "fusermount", !.q = q] OBVIOUS
<1>5. hand' = [hand EXCEPT ![h] = t]
  <2>1. hand' = [hand EXCEPT ![h] = [hand[h] EXCEPT !.at = "fusermount", !.q = [hand[h].q EXCEPT !.rw = mount[hand[h].q.v].rw]]]
    BY DEF Unmount, Reply
  <2>2. PICK p : p = [hand[h].q EXCEPT !.rw = mount[hand[h].q.v].rw] OBVIOUS
  <2>3. PICK r : r = [hand[h] EXCEPT !.at = "fusermount", !.q = p] OBVIOUS
  <2>4. hand' = [hand EXCEPT ![h] = r] BY <2>1, <2>2, <2>3
  <2>5. p = q BY <1>1, <1>2, <1>3, <2>2
  <2>6. r = t BY <1>1, <1>4, <2>3, <2>5
  <2>7. QED BY <2>4, <2>6
<1>6. IsHand(s) BY <1>1 DEF HandInv
<1>7. PICK d : d = s.q OBVIOUS
<1>8. IsDeed(q) /\ q.v = d.v
  <2>1. IsDeed(d) BY <1>6, <1>7 DEF IsHand
  <2>2. q = [d EXCEPT !.rw = rw] BY <1>3, <1>7
  <2>3. QED BY <2>1, <2>2 DEF IsDeed
<1>9. IsHand(t) /\ t.at = "fusermount" /\ t.q = q BY <1>4, <1>6, <1>8 DEF IsHand
<1>10. HandFits(t) BY <1>9 DEF HandFits, Erasing, Looking
<1>11. HandTurn(h) /\ hand'[h] = t BY <1>5, <1>9, <1>10, HandMoves
<1>12. QED BY <1>1, <1>7, <1>8, <1>9, <1>11

LEMMA ChannelHands ==
  ASSUME HandInv, NEW h \in Handlers, OfflineHandler(h) PROVE HandTurn(h) /\ hand'[h].at \notin Looking
<1>1. CASE MountAsk(h) \/ Entered(h) \/ GuestmountFails(h) BY <1>1, MountHands DEF Quiet
<1>2. CASE hand' = [hand EXCEPT ![h] = AtRest]
  BY <1>2, Rests, RestShape DEF Looking
<1>3. CASE Step(h, "enter")
  BY <1>3, Steps DEF Erasing, Looking
<1>4. CASE Unmount(h) BY <1>2, <1>4, UnmountHands DEF Looking
<1>5. QED
  BY <1>1, <1>2, <1>3, <1>4 DEF OfflineHandler, Guestmount, Enters, Fusermount, FusermountFails, Reply

(***************************************************************************)
(* The volumes and the requests to come.                                   *)
(***************************************************************************)
(* Handlers leave a file alone or leave one no download knows in its place.*)
VolStep ==
  /\ vol' = [x \in Vols |-> vol'[x]]
  /\ \A x \in Vols : vol'[x].file \in {vol[x].file, NoVol}
  /\ \A x \in Vols : ~vol'[x].there => vol'[x].base = NoVol
LEMMA VolSame == ASSUME VolInv, vol' = vol PROVE VolStep
BY DEF VolInv, VolStep

LEMMA VolWritten ==
  ASSUME VolInv, NEW y, NEW f, vol' = [vol EXCEPT ![y] = f], f.file = NoVol, ~f.there => f.base = NoVol
  PROVE  VolStep
<1>1. ASSUME NEW x \in Vols PROVE vol'[x] = IF x = y THEN f ELSE vol[x] BY DEF VolInv
<1>2. vol' = [x \in Vols |-> vol'[x]] BY DEF VolInv
<1>3. QED BY <1>1, <1>2 DEF VolInv, VolStep

LEMMA VolNew == ASSUME VolInv, NEW y, NEW base, New(y, base) PROVE VolStep
<1>1. PICK f : f = [there |-> TRUE, base |-> base, file |-> NoVol] OBVIOUS
<1>2. f.file = NoVol /\ f.there BY <1>1
<1>3. vol' = [vol EXCEPT ![y] = f] BY <1>1 DEF New
<1>4. QED BY <1>2, <1>3, VolWritten

LEMMA VolGone == ASSUME VolInv, NEW y, Gone(y) PROVE VolStep
<1>1. PICK f : f = NoFile OBVIOUS
<1>2. f.file = NoVol /\ f.base = NoVol BY <1>1 DEF NoFile
<1>3. vol' = [vol EXCEPT ![y] = f] BY <1>1 DEF Gone
<1>4. QED BY <1>2, <1>3, VolWritten

LEMMA DisksVol == ASSUME VolInv, DisksNext PROVE VolStep
<1>1. CASE TaskStops BY <1>1, VolSame DEF TaskStops, storage
<1>2. ASSUME NEW h \in Handlers, Enter(h) PROVE VolStep
  BY <1>2, VolSame DEF Enter, Begin, Guard, Lock, Refused, storage
<1>3. ASSUME NEW h \in Handlers, Work(h) PROVE VolStep
  <2>1. CASE Create(h)
    <3>1. vol' = vol \/ New(hand[h].x, NoVol) BY <2>1 DEF Create
    <3>2. QED BY <3>1, VolSame, VolNew
  <2>2. CASE Rollback(h)
    <3>1. vol' = vol \/ Gone(hand[h].x) BY <2>2 DEF Rollback
    <3>2. QED BY <3>1, VolSame, VolGone
  <2>3. QED
    BY <1>3, <2>1, <2>2, VolSame
       DEF Work, Power, Stop, Attach, Plug, Quick, Detach, Redefine, Eject, Snapshot, storage
<1>4. ASSUME NEW h \in Handlers, Erase(h) PROVE VolStep
  <2>1. CASE Unlink(h) BY <2>1, VolGone DEF Unlink
  <2>2. QED BY <1>4, <2>1, VolSame DEF Erase, Volume, Image, Look, LookFails, Judge, Drop, storage
<1>5. ASSUME NEW h \in Handlers, Found(h) PROVE VolStep
  <2>1. vol' = vol \/ (\E x : Gone(x)) \/ (\E x, base : New(x, base))
    BY <1>5 DEF Found, Register, Upload, Row, Clone, storage
  <2>2. QED BY <2>1, VolSame, VolGone, VolNew
<1>6. QED BY <1>1, <1>2, <1>3, <1>4, <1>5 DEF DisksNext

LEMMA DeedsShrink == ASSUME MachinesNext \/ UNCHANGED machinesVars PROVE deeds' \subseteq deeds
<1>1. ASSUME NEW h \in Handlers, Enter(h) PROVE deeds' \subseteq deeds
  BY <1>1 DEF Enter, Begin, Guard, Lock, Refused
<1>2. ASSUME NEW h \in Handlers, Work(h) PROVE deeds' \subseteq deeds
  BY <1>2 DEF Work, Power, Stop, Attach, Plug, Quick, Create, Rollback, Detach, Redefine, Eject, Snapshot
<1>3. ASSUME NEW h \in Handlers, Erase(h) PROVE deeds' \subseteq deeds
  BY <1>3 DEF Erase, Volume, Image, Look, LookFails, Judge, Drop, Unlink
<1>4. ASSUME NEW h \in Handlers, Found(h) PROVE deeds' \subseteq deeds
  BY <1>4 DEF Found, Register, Upload, Row, Clone
<1>5. CASE TaskStops BY <1>5 DEF TaskStops
<1>6. CASE DownloadsNext
  BY <1>6 DEF DownloadsNext, Fetch, Stat, OpenPart, WritePiece, Breaks, Rename, RegisterRow
<1>7. ASSUME NEW h \in Handlers, OfflineHandler(h) PROVE deeds' \subseteq deeds
  BY <1>7 DEF OfflineHandler, MountAsk, Entered, Guestmount, GuestmountFails, Enters, Unmount, Fusermount, FusermountFails
<1>8. CASE OfflineProcess
  BY <1>8 DEF OfflineProcess, LateMount, Signal, Closes, Exit, Boot
<1>9. CASE UNCHANGED machinesVars BY <1>9 DEF machinesVars, disksVars
<1>10. QED BY <1>1, <1>2, <1>3, <1>4, <1>5, <1>6, <1>7, <1>8, <1>9 DEF MachinesNext, DisksNext

(* Who takes a step: a handler, or nobody whose slot shows it, or the      *)
(* process itself, which takes every handler with it.                      *)
LEMMA HandCases ==
  ASSUME HandInv, VolInv, WatchInv, MachinesNext
  PROVE  \/ \E h \in Handlers : HandTurn(h) /\ Watched(h)'
         \/ hand' = hand
         \/ hand' = [h \in Handlers |-> AtRest]
<1>1. Watch BY DEF MachinesNext
<1>2. ASSUME NEW h \in Handlers, Enter(h) \/ Work(h) \/ Erase(h) \/ Found(h) \/ OfflineHandler(h)
      PROVE  HandTurn(h) /\ Watched(h)'
  <2>1. CASE Enter(h) \/ (Work(h) /\ ~Detach(h)) \/ Found(h) \/ OfflineHandler(h)
    BY <2>1, EnterHands, WorkHands, FoundHands, ChannelHands DEF Quiet, Watched
  <2>2. CASE Detach(h) \/ Erase(h) BY <1>1, <2>2, DetachWatched, EraseHands
  <2>3. QED BY <1>2, <2>1, <2>2
<1>3. CASE TaskStops BY <1>3 DEF TaskStops
<1>4. CASE DownloadsNext
  BY <1>4 DEF DownloadsNext, Fetch, Stat, OpenPart, WritePiece, Breaks, Rename, RegisterRow, disksAll
<1>5. CASE OfflineProcess
  BY <1>5 DEF OfflineProcess, LateMount, Signal, Closes, Exit, Dies, Boot
<1>6. QED BY <1>2, <1>3, <1>4, <1>5 DEF MachinesNext, DisksNext

LEMMA VolSteps ==
  ASSUME HandInv, VolInv, MachinesNext \/ UNCHANGED machinesVars PROVE VolInv'
<1>1. CASE DisksNext BY <1>1, DisksVol DEF VolStep, VolInv
<1>2. ASSUME vol' = vol PROVE VolInv' BY <1>2 DEF VolInv
<1>3. CASE UNCHANGED machinesVars BY <1>2, <1>3 DEF machinesVars, disksVars
<1>4. CASE \E h \in Handlers : OfflineHandler(h)
  BY <1>2, <1>4 DEF OfflineHandler, MountAsk, Entered, Guestmount, GuestmountFails, Enters, Unmount, Fusermount,
     FusermountFails, storage
<1>5. CASE OfflineProcess
  BY <1>2, <1>5 DEF OfflineProcess, LateMount, Signal, Closes, Exit, Dies, Boot, storage
<1>6. CASE \E l \in Loaders : Rename(l)
  <2>1. PICK l \in Loaders : Rename(l) BY <1>6
  <2>2. CASE vol' = vol BY <1>2, <2>2
  <2>3. CASE vol' # vol
    <3>1. PICK x, f : f = [NoFile EXCEPT !.there = TRUE, !.file = part[x]] /\ vol' = [vol EXCEPT ![x] = f]
      BY <2>1, <2>3 DEF Rename
    <3>2. f.base = NoVol BY <3>1 DEF NoFile
    <3>3. QED BY <3>1, <3>2 DEF VolInv
  <2>4. QED BY <2>2, <2>3
<1>7. CASE DownloadsNext
  BY <1>2, <1>6, <1>7 DEF DownloadsNext, Fetch, Stat, OpenPart, WritePiece, Breaks, RegisterRow, storage
<1>8. QED BY <1>1, <1>3, <1>4, <1>5, <1>7 DEF MachinesNext

LEMMA HandStep ==
  ASSUME HandInv, VolInv, WatchInv, [MachinesNext]_machinesVars PROVE (HandInv /\ VolInv /\ WatchInv)'
<1>1. VolInv' BY VolSteps
<1>2. deeds' \subseteq Deeds /\ \A q \in deeds' : q.op \in {"volume", "image", "download"} => q.x \in Vols
  BY DeedsShrink DEF HandInv
<1>3. CASE UNCHANGED machinesVars
  <2>1. HandInv' BY <1>2, <1>3 DEF HandInv, machinesVars, disksVars
  <2>2. Uses' = Uses BY <1>3 DEF Uses, Held, Serving, machinesVars, disksVars
  <2>3. WatchInv' BY <1>3, <2>2 DEF WatchInv, Watched, machinesVars, disksVars
  <2>4. QED BY <1>1, <2>1, <2>3
<1>4. CASE MachinesNext
  <2>0. Watch BY <1>4 DEF MachinesNext
  <2>1. ASSUME NEW h \in Handlers, HandTurn(h), Watched(h)' PROVE HandInv' /\ WatchInv'
    <3>1. HandInv' BY <1>2, <2>1 DEF HandTurn, HandInv
    <3>2. ASSUME NEW k \in Handlers PROVE Watched(k)'
      BY <2>0, <2>1, OthersWatched DEF HandTurn
    <3>3. QED BY <1>1, <3>1, <3>2 DEF WatchInv
  <2>2. CASE hand' = hand
    <3>1. HandInv' BY <1>2, <2>2 DEF HandInv
    <3>2. ASSUME NEW k \in Handlers PROVE Watched(k)'
      <4>1. hand'[k] = hand[k] BY <2>2
      <4>2. QED BY <2>0, <4>1, OthersWatched
    <3>3. QED BY <1>1, <3>1, <3>2 DEF WatchInv
  <2>3. CASE hand' = [h \in Handlers |-> AtRest]
    <3>1. HandInv' BY <1>2, <2>3, RestShape DEF HandInv
    <3>2. ASSUME NEW k \in Handlers PROVE Watched(k)'
      <4>1. hand'[k].at = "free" BY <2>3, RestShape
      <4>2. QED BY <4>1 DEF Watched, Looking
    <3>3. QED BY <1>1, <3>1, <3>2 DEF WatchInv
  <2>4. QED BY <1>1, <1>4, <2>1, <2>2, <2>3, HandCases
<1>5. QED BY <1>3, <1>4

LEMMA HandStart == MachinesInit => HandInv /\ VolInv /\ WatchInv
<1> SUFFICES ASSUME MachinesInit PROVE HandInv /\ VolInv /\ WatchInv OBVIOUS
<1>1. PICK scene \in DiskMixes : DisksInit(scene) BY DEF MachinesInit
<1>2. hand = [h \in Handlers |-> AtRest] /\ deeds = scene.deeds /\ vol = scene.vol BY <1>1 DEF DisksInit
<1>3. HandInv BY <1>2, RestShape, MixesAssumption DEF HandInv
<1>4. vol \in [Vols -> [there : BOOLEAN, base : Vols \union {NoVol}, file : {NoVol}]] BY <1>2, MixesAssumption
<1>5. VolInv BY <1>2, <1>4, MixesAssumption DEF VolInv
<1>6. WatchInv BY <1>2, RestShape DEF WatchInv, Watched, Looking
<1>7. QED BY <1>3, <1>5, <1>6


LEMMA HandInvHolds == MachinesSpec => [](HandInv /\ VolInv /\ WatchInv)
<1>1. HandInv /\ VolInv /\ WatchInv /\ [MachinesNext]_machinesVars => (HandInv /\ VolInv /\ WatchInv)'
  BY HandStep
<1>2. QED BY HandStart, <1>1, PTL DEF MachinesSpec

(* A request that could ask everything it had to deletes no volume whose   *)
(* use by another machine, by a row of images or by a child has lasted     *)
(* since before it came: storage_refs.go, vm_devices.go, image_manage.go,  *)
(* against whatever the other handlers, the downloads, the offline channel *)
(* and an end of the process do between two of its queries.                *)
THEOREM VolumesInUseStay == MachinesSpec => KeptWhileUsed
<1> DEFINE Kept == \A h \in Handlers : Erases(h) /\ ~hand[h].blind =>
      \A u \in Uses \ fresh[h] : u[3] = hand[h].x => hand[h].q.op = "detach" /\ u[2] = hand[h].q.v
<1>1. HandInv /\ WatchInv => Kept
  <2> SUFFICES ASSUME HandInv, WatchInv, NEW h \in Handlers, Erases(h), ~hand[h].blind,
                      NEW u \in Uses \ fresh[h], u[3] = hand[h].x
               PROVE  hand[h].q.op = "detach" /\ u[2] = hand[h].q.v
    OBVIOUS
  <2>1. hand[h].at = "unlink" BY DEF Erases
  <2>2. Accounted(hand[h], u) BY <2>1 DEF WatchInv, Watched, Looking
  <2>3. ~hand[h].used BY <2>1 DEF HandInv, HandFits
  <2>4. Unasked(hand[h]) = {} BY <2>1 DEF Unasked
  <2>5. QED BY <2>2, <2>3, <2>4 DEF Accounted
<1>2. HandInv /\ WatchInv => [Kept]_disksVars BY <1>1
<1>3. QED BY HandInvHolds, <1>2, PTL DEF KeptWhileUsed

(***************************************************************************)
(* Downloads: whose file is whose.                                         *)
(***************************************************************************)
IsJob(j) == j = [at |-> j.at, x |-> j.x, file |-> j.file, n |-> j.n]
JobFits(j) ==
  /\ IsJob(j) /\ j.n \in Nat
  /\ j.at # "idle" => j.x \in Vols
  /\ j.at \in {"stat", "open"} => j.n = 0

JobInv ==
  /\ job = [l \in Loaders |-> job[l]]
  /\ \A l \in Loaders : JobFits(job[l])
  /\ part = [x \in Vols |-> part[x]]
  /\ body = [f \in 1..MaxFiles |-> body[f]]
  /\ files \in Nat /\ files <= MaxFiles

(* The files a target's name, its .part and its writers lead to; no file   *)
(* belongs to two targets, and the next one created to none.               *)
Holds(x) == ({part[x], vol[x].file} \union {job[l].file : l \in Writers(x)}) \ {NoVol}
OwnInv ==
  /\ \A x \in Vols : Holds(x) \subseteq 1..files
  /\ \A x, y \in Vols : x # y => Holds(x) \intersect Holds(y) = {}

(* A target no two tasks wrote at once: one writer, to the file its .part  *)
(* leads to, and what stands at the target is another file, and whole.     *)
Alone(x) ==
  /\ \A l, k \in Writers(x) : l = k
  /\ \A l \in Writers(x) : part[x] = job[l].file /\ part[x] # NoVol /\ body[part[x]] = 1..job[l].n
  /\ vol[x].file # NoVol => body[vol[x].file] = 1..Pieces /\ vol[x].file # part[x]
FilesInv == JobInv /\ OwnInv /\ \A x \in Vols \ shared : Alone(x)

(* A task's step, its slot then holding j.                                 *)
LEMMA JobMoves ==
  ASSUME JobInv, NEW l \in Loaders, NEW j, job' = [job EXCEPT ![l] = j], JobFits(j)
  PROVE  /\ job' = [k \in Loaders |-> job'[k]] /\ job'[l] = j
         /\ \A k \in Loaders \ {l} : job'[k] = job[k]
         /\ \A k \in Loaders : JobFits(job'[k])
BY DEF JobInv

(* A target whose writers go on or away, whose own files are left alone.   *)
LEMMA AloneStill ==
  ASSUME NEW x \in Vols, Alone(x),
         \A l \in Writers(x)' : l \in Writers(x) /\ job'[l] = job[l],
         part'[x] = part[x] \/ (part'[x] = NoVol /\ Writers(x)' = {}),
         vol'[x].file \in {vol[x].file, NoVol},
         \A f \in Holds(x) : body'[f] = body[f]
  PROVE  Alone(x)'
<1>1. \A l, k \in Writers(x)' : l = k BY DEF Alone
<1>2. ASSUME NEW l \in Writers(x)' PROVE part'[x] = job'[l].file /\ part'[x] # NoVol /\ body'[part'[x]] = 1..job'[l].n
  <2>1. l \in Writers(x) /\ job'[l] = job[l] /\ part'[x] = part[x] BY <1>2
  <2>2. part[x] = job[l].file /\ part[x] # NoVol /\ body[part[x]] = 1..job[l].n BY <2>1 DEF Alone
  <2>3. part[x] \in Holds(x) BY <2>2 DEF Holds
  <2>4. QED BY <2>1, <2>2, <2>3
<1>3. ASSUME vol'[x].file # NoVol PROVE body'[vol'[x].file] = 1..Pieces /\ vol'[x].file # part'[x]
  <2>1. vol'[x].file = vol[x].file BY <1>3
  <2>2. vol[x].file \in Holds(x) BY <1>3, <2>1 DEF Holds
  <2>3. QED BY <1>3, <2>1, <2>2 DEF Alone
<1>4. QED BY <1>1, <1>2, <1>3 DEF Alone

(* Every target keeps its files but one, which may get the next new one.   *)
LEMMA OwnStill ==
  ASSUME OwnInv, files \in Nat, NEW x \in Vols, NEW g, g \in Holds(x) \/ g = files + 1 \/ g = NoVol,
         files' \in Nat, files' >= files, g = files + 1 => files' = files + 1,
         \A y \in Vols \ {x} : Holds(y)' \subseteq Holds(y),
         Holds(x)' \subseteq Holds(x) \union {g}
  PROVE  OwnInv'
<1>1. \A y \in Vols : Holds(y) \subseteq 1..files BY DEF OwnInv
<1>n. NoVol \notin Holds(x)' BY DEF Holds
<1>2. ASSUME NEW y \in Vols PROVE Holds(y)' \subseteq 1..files'
  <2>1. CASE y # x BY <1>1, <2>1
  <2>2. CASE y = x
    <3>1. g = files + 1 => g \in 1..files' OBVIOUS
    <3>2. QED BY <1>1, <1>n, <2>2, <3>1
  <2>3. QED BY <2>1, <2>2
<1>3. ASSUME NEW y \in Vols, NEW z \in Vols, y # z PROVE Holds(y)' \intersect Holds(z)' = {}
  <2>1. Holds(y) \intersect Holds(z) = {} BY <1>3 DEF OwnInv
  <2>2. files + 1 \notin Holds(y) /\ files + 1 \notin Holds(z) BY <1>1
  <2>3. CASE y # x /\ z # x BY <2>1, <2>3
  <2>4. CASE y = x
    <3>1. g \notin Holds(z) BY <1>3, <2>1, <2>2, <2>4 DEF Holds
    <3>2. QED BY <1>3, <2>1, <2>4, <3>1
  <2>5. CASE z = x
    <3>1. g \notin Holds(y) BY <1>3, <2>1, <2>2, <2>5 DEF Holds
    <3>2. QED BY <1>3, <2>1, <2>5, <3>1
  <2>6. QED BY <2>3, <2>4, <2>5
<1>4. QED BY <1>2, <1>3 DEF OwnInv

(* Nothing new is opened and no writer changes: handlers, the process,     *)
(* tasks that look or end.                                                 *)
LEMMA FilesStill ==
  ASSUME FilesInv, JobInv', UNCHANGED <<body, files, shared>>,
         \A x \in Vols : vol'[x].file \in {vol[x].file, NoVol},
         \A x \in Vols : \A l \in Writers(x)' : l \in Writers(x) /\ job'[l] = job[l],
         \A x \in Vols : part'[x] = part[x] \/ (part'[x] = NoVol /\ (x \in shared \/ Writers(x)' = {}))
  PROVE  FilesInv'
<1>1. \A x \in Vols : Holds(x)' \subseteq Holds(x) BY DEF Holds
<1>2. \A x \in Vols : Holds(x)' \subseteq 1..files'
  BY <1>1 DEF FilesInv, OwnInv
<1>3. \A x, y \in Vols : x # y => Holds(x)' \intersect Holds(y)' = {}
  BY <1>1 DEF FilesInv, OwnInv
<1>4. ASSUME NEW x \in Vols \ shared' PROVE Alone(x)'
  <2>1. Alone(x) /\ (part'[x] = part[x] \/ (part'[x] = NoVol /\ Writers(x)' = {})) BY DEF FilesInv
  <2>2. QED BY <2>1, AloneStill
<1>5. QED BY <1>2, <1>3, <1>4 DEF FilesInv, OwnInv

(* A task that is not writing after its step.                              *)
LEMMA JobAway ==
  ASSUME JobInv, NEW l \in Loaders, NEW j, job' = [job EXCEPT ![l] = j], JobFits(j), j.at # "write",
         UNCHANGED <<body, files>>, part' = [x \in Vols |-> part'[x]]
  PROVE  /\ JobInv' /\ job'[l] = j
         /\ \A x \in Vols : \A k \in Writers(x)' : k \in Writers(x) /\ k # l /\ job'[k] = job[k]
<1>1. /\ job' = [k \in Loaders |-> job'[k]] /\ job'[l] = j
      /\ \A k \in Loaders \ {l} : job'[k] = job[k]
      /\ \A k \in Loaders : JobFits(job'[k])
  BY JobMoves
<1>2. JobInv' BY <1>1 DEF JobInv
<1>3. ASSUME NEW x \in Vols, NEW k \in Writers(x)' PROVE k \in Writers(x) /\ k # l /\ job'[k] = job[k]
  BY <1>1, <1>3 DEF Writers
<1>4. QED BY <1>1, <1>2, <1>3

LEMMA JobPlaced ==
  ASSUME JobInv, NEW l \in Loaders, NEW p, JobTo(l, p), job[l].at # "idle", p # "idle",
         p \in {"stat", "open"} => job[l].n = 0
  PROVE  \E j : job' = [job EXCEPT ![l] = j] /\ JobFits(j) /\ j.at = p
<1>1. PICK s : s = job[l] OBVIOUS
<1>2. JobFits(s) BY <1>1 DEF JobInv
<1>3. PICK j : j = [s EXCEPT !.at = p] OBVIOUS
<1>4. JobFits(j) /\ j.at = p BY <1>1, <1>2, <1>3 DEF JobFits, IsJob
<1>5. job' = [job EXCEPT ![l] = j] BY <1>1, <1>3 DEF JobTo
<1>6. QED BY <1>4, <1>5

LEMMA IdleFits == JobFits(Idle) /\ Idle.at = "idle"
BY DEF JobFits, IsJob, Idle

LEMMA FetchFiles == ASSUME HandInv, FilesInv, NEW l \in Loaders, Fetch(l) PROVE FilesInv'
<1>1. PICK q \in deeds : q.op = "download" /\ job' = [job EXCEPT ![l] = [Idle EXCEPT !.at = "stat", !.x = q.x]]
  BY DEF Fetch
<1>2. PICK j : j = [Idle EXCEPT !.at = "stat", !.x = q.x] OBVIOUS
<1>3. q.x \in Vols BY <1>1 DEF HandInv
<1>4. JobFits(j) /\ j.at = "stat" BY <1>2, <1>3 DEF JobFits, IsJob, Idle
<1>5. UNCHANGED <<part, body, files, shared, vol>> BY DEF Fetch, storage
<1>6. JobInv' /\ \A x \in Vols : \A k \in Writers(x)' : k \in Writers(x) /\ k # l /\ job'[k] = job[k]
  BY <1>1, <1>2, <1>4, <1>5, JobAway DEF FilesInv, JobInv
<1>7. QED BY <1>5, <1>6, FilesStill

LEMMA StatFiles == ASSUME FilesInv, NEW l \in Loaders, Stat(l) PROVE FilesInv'
<1>1. UNCHANGED <<part, body, files, shared, vol>> /\ job[l].at = "stat" BY DEF Stat, storage
<1>2. job[l].n = 0 BY <1>1 DEF FilesInv, JobInv, JobFits
<1>3. PICK p \in {"register", "open"} : JobTo(l, p) BY DEF Stat
<1>4. PICK j : job' = [job EXCEPT ![l] = j] /\ JobFits(j) /\ j.at = p
  BY <1>1, <1>2, <1>3, JobPlaced DEF FilesInv
<1>5. JobInv' /\ \A x \in Vols : \A k \in Writers(x)' : k \in Writers(x) /\ k # l /\ job'[k] = job[k]
  BY <1>1, <1>3, <1>4, JobAway DEF FilesInv, JobInv
<1>6. QED BY <1>1, <1>5, FilesStill

LEMMA RegisterFiles == ASSUME FilesInv, NEW l \in Loaders, RegisterRow(l) PROVE FilesInv'
<1>1. UNCHANGED <<part, body, files, shared, vol>> BY DEF RegisterRow
<1>2. job' = [job EXCEPT ![l] = Idle] BY DEF RegisterRow, Ends
<1>3. JobInv' /\ \A x \in Vols : \A k \in Writers(x)' : k \in Writers(x) /\ k # l /\ job'[k] = job[k]
  BY <1>1, <1>2, IdleFits, JobAway DEF FilesInv, JobInv
<1>4. QED BY <1>1, <1>3, FilesStill

(* The path is removed; unless two wrote, nobody else had it open.         *)
LEMMA BreaksFiles == ASSUME FilesInv, NEW l \in Loaders, Breaks(l) PROVE FilesInv'
<1>1. UNCHANGED <<body, files, shared, vol>> /\ job' = [job EXCEPT ![l] = Idle]
  BY DEF Breaks, storage, Ends
<1>2. part' = IF job[l].at = "write" THEN [part EXCEPT ![job[l].x] = NoVol] ELSE part BY DEF Breaks
<1>3. part' = [x \in Vols |-> part'[x]] /\ part = [x \in Vols |-> part[x]] BY <1>2 DEF FilesInv, JobInv
<1>4. JobInv' /\ \A x \in Vols : \A k \in Writers(x)' : k \in Writers(x) /\ k # l /\ job'[k] = job[k]
  BY <1>1, <1>3, IdleFits, JobAway DEF FilesInv
<1>5. ASSUME NEW x \in Vols PROVE part'[x] = part[x] \/ (part'[x] = NoVol /\ (x \in shared \/ Writers(x)' = {}))
  <2>1. CASE part'[x] = part[x] BY <2>1
  <2>2. CASE part'[x] # part[x]
    <3>1. job[l].at = "write" /\ job[l].x = x /\ part'[x] = NoVol BY <1>2, <1>3, <2>2
    <3>2. l \in Writers(x) BY <3>1 DEF Writers
    <3>3. x \notin shared => Writers(x)' = {} BY <1>4, <3>2 DEF FilesInv, Alone
    <3>4. QED BY <3>1, <3>3
  <2>3. QED BY <2>1, <2>2
<1>6. QED BY <1>1, <1>4, <1>5, FilesStill

(* A piece is written to the file that was opened.                         *)
LEMMA PieceFiles == ASSUME FilesInv, NEW l \in Loaders, WritePiece(l) PROVE FilesInv'
<1>1. PICK s : s = job[l] OBVIOUS
<1>2. PICK j : j = [s EXCEPT !.n = @ + 1] OBVIOUS
<1>3. /\ s.at = "write" /\ job' = [job EXCEPT ![l] = j] /\ UNCHANGED <<vol, part, files, shared>>
      /\ body' = [body EXCEPT ![s.file] = @ \union {s.n + 1}]
  BY <1>1, <1>2 DEF WritePiece, storage
<1>4. JobFits(s) /\ s.x \in Vols BY <1>1, <1>3 DEF FilesInv, JobInv, JobFits
<1>5. JobFits(j) /\ j.at = "write" /\ j.x = s.x /\ j.file = s.file /\ j.n = s.n + 1
  BY <1>2, <1>3, <1>4 DEF JobFits, IsJob
<1>6. /\ job' = [k \in Loaders |-> job'[k]] /\ job'[l] = j
      /\ \A k \in Loaders \ {l} : job'[k] = job[k]
  BY <1>3, <1>5, JobMoves DEF FilesInv
<1>7. \A m \in Loaders : JobFits(job'[m])
  BY <1>3, <1>5, JobMoves DEF FilesInv
<1>8. JobInv' BY <1>3, <1>6, <1>7 DEF FilesInv, JobInv
<1>9. \A x \in Vols : Writers(x)' = Writers(x) BY <1>1, <1>3, <1>5, <1>6 DEF Writers
<1>10. \A k \in Loaders : job'[k].file = job[k].file BY <1>1, <1>5, <1>6
<1>11. \A x \in Vols : Holds(x)' = Holds(x) BY <1>3, <1>9, <1>10 DEF Holds
<1>12. OwnInv' BY <1>3, <1>11 DEF FilesInv, OwnInv
<1>13. s.file # NoVol => s.file \in Holds(s.x) BY <1>1, <1>3 DEF Holds, Writers
<1>14. ASSUME NEW x \in Vols \ shared' PROVE Alone(x)'
  <2>1. Alone(x) /\ x \notin shared BY <1>3 DEF FilesInv
  <2>2. CASE x # s.x
    <3>1. \A f \in Holds(x) : f # s.file BY <1>4, <1>13, <2>2 DEF FilesInv, OwnInv, Holds
    <3>2. \A f \in Holds(x) : body'[f] = body[f] BY <1>3, <3>1 DEF FilesInv, JobInv
    <3>3. \A k \in Writers(x)' : k \in Writers(x) /\ job'[k] = job[k] BY <1>1, <1>6, <1>9, <2>2 DEF Writers
    <3>4. QED BY <1>3, <2>1, <3>2, <3>3, AloneStill
  <2>3. CASE x = s.x
    <3>1. l \in Writers(x) BY <1>1, <1>3, <2>3 DEF Writers
    <3>2. part[x] = s.file /\ part[x] # NoVol /\ body[s.file] = 1..s.n BY <1>1, <2>1, <3>1 DEF Alone
    <3>3. s.file \in 1..MaxFiles
      <4>1. s.file \in 1..files BY <1>4, <1>13, <3>2 DEF FilesInv, OwnInv
      <4>2. QED BY <4>1, DownloadsAssumption DEF FilesInv, JobInv
    <3>4. body'[s.file] = 1..(s.n + 1)
      <4>1. body'[s.file] = body[s.file] \union {s.n + 1} BY <1>3, <3>3 DEF FilesInv, JobInv
      <4>2. s.n \in Nat BY <1>4 DEF JobFits
      <4>3. QED BY <3>2, <4>1, <4>2
    <3>5. \A k \in Writers(x)' : k = l BY <1>9, <2>1, <3>1 DEF Alone
    <3>6. vol[x].file # NoVol => body'[vol[x].file] = 1..Pieces /\ vol[x].file # part[x]
      BY <1>3, <2>1, <3>2 DEF Alone, FilesInv, JobInv
    <3>7. QED BY <1>3, <1>5, <1>6, <3>2, <3>4, <3>5, <3>6 DEF Alone
  <2>4. QED BY <2>2, <2>3
<1>15. QED BY <1>8, <1>12, <1>14 DEF FilesInv

(* A file is opened: the one the .part leads to, or a new one.             *)
LEMMA OpenFiles == ASSUME FilesInv, NEW l \in Loaders, OpenPart(l) PROVE FilesInv'
<1>1. PICK s : s = job[l] OBVIOUS
<1>2. PICK x : x = s.x OBVIOUS
<1>3. PICK f : f = IF part[x] # NoVol THEN part[x] ELSE files + 1 OBVIOUS
<1>4. PICK j : j = [s EXCEPT !.at = "write", !.file = f] OBVIOUS
<1>5. JobFits(s) /\ s.at = "open" /\ x \in Vols /\ s.n = 0
  BY <1>1, <1>2 DEF OpenPart, FilesInv, JobInv, JobFits
<1>6. JobFits(j) /\ j.at = "write" /\ j.x = x /\ j.file = f /\ j.n = 0
  BY <1>2, <1>4, <1>5 DEF JobFits, IsJob
<1>7. /\ body' = [body EXCEPT ![f] = {}] /\ job' = [job EXCEPT ![l] = j] /\ vol' = vol
      /\ shared' = IF Writers(x) # {} THEN shared \union {x} ELSE shared
      /\ \/ part[x] # NoVol /\ part' = part /\ files' = files
         \/ part[x] = NoVol /\ files < MaxFiles /\ part' = [part EXCEPT ![x] = f] /\ files' = files + 1
  BY <1>1, <1>2, <1>3, <1>4 DEF OpenPart, Opened, storage
<1>8. files \in Nat /\ MaxFiles \in Nat BY DownloadsAssumption DEF FilesInv, JobInv
<1>9. part' = [y \in Vols |-> part'[y]] /\ part'[x] = f /\ \A y \in Vols \ {x} : part'[y] = part[y]
  BY <1>3, <1>5, <1>7 DEF FilesInv, JobInv
<1>10. f # NoVol /\ f \in 1..MaxFiles /\ (f \in Holds(x) \/ (f = files + 1 /\ files' = files + 1))
  <2>1. CASE part[x] # NoVol
    <3>1. f \in Holds(x) BY <1>3, <2>1 DEF Holds
    <3>2. f \in 1..files BY <1>5, <3>1 DEF FilesInv, OwnInv
    <3>3. QED BY <1>8, <3>1, <3>2 DEF NoVol, FilesInv, JobInv
  <2>2. CASE part[x] = NoVol BY <1>3, <1>7, <1>8, <2>2 DEF NoVol
  <2>3. QED BY <2>1, <2>2
<1>11. /\ job' = [k \in Loaders |-> job'[k]] /\ job'[l] = j
       /\ \A k \in Loaders \ {l} : job'[k] = job[k]
  BY <1>6, <1>7, JobMoves DEF FilesInv
<1>12. \A m \in Loaders : JobFits(job'[m]) BY <1>6, <1>7, JobMoves DEF FilesInv
<1>13. files' \in Nat /\ files' >= files /\ files' <= MaxFiles BY <1>7, <1>8 DEF FilesInv, JobInv
<1>14. body' = [g \in 1..MaxFiles |-> body'[g]] /\ body'[f] = {} /\ \A g \in 1..MaxFiles : g # f => body'[g] = body[g]
  BY <1>7, <1>10 DEF FilesInv, JobInv
<1>15. JobInv' BY <1>9, <1>11, <1>12, <1>13, <1>14 DEF JobInv
<1>16. l \in Writers(x)' BY <1>6, <1>11 DEF Writers
<1>17. ASSUME NEW y \in Vols, NEW k \in Writers(y)', k # l \/ y # x PROVE k \in Writers(y) /\ job'[k] = job[k]
  BY <1>6, <1>11, <1>17 DEF Writers
<1>18. \A y \in Vols \ {x} : Holds(y)' \subseteq Holds(y) BY <1>7, <1>9, <1>17 DEF Holds
<1>19. Holds(x)' \subseteq Holds(x) \union {f}
  BY <1>5, <1>6, <1>7, <1>9, <1>11, <1>17 DEF Holds
<1>20. OwnInv' BY <1>5, <1>8, <1>10, <1>13, <1>18, <1>19, OwnStill, <1>7 DEF FilesInv
<1>21. ASSUME NEW y \in Vols \ shared' PROVE Alone(y)'
  <2>1. Alone(y) /\ y \notin shared BY <1>7 DEF FilesInv
  <2>2. CASE y # x
    <3>1. f \notin Holds(y)
      <4>1. Holds(y) \subseteq 1..files /\ Holds(y) \intersect Holds(x) = {} BY <1>5, <2>2 DEF FilesInv, OwnInv
      <4>2. QED BY <1>8, <1>10, <4>1
    <3>2. \A g \in Holds(y) : body'[g] = body[g]
      <4>1. Holds(y) \subseteq 1..MaxFiles BY <1>8 DEF FilesInv, OwnInv, JobInv
      <4>2. QED BY <1>14, <3>1, <4>1
    <3>3. part'[y] = part[y] /\ vol' = vol BY <1>7, <1>9, <2>2
    <3>4. \A k \in Writers(y)' : k \in Writers(y) /\ job'[k] = job[k] BY <1>17, <2>2
    <3>5. QED BY <2>1, <3>2, <3>3, <3>4, AloneStill
  <2>3. CASE y = x
    <3>1. Writers(x) = {} BY <1>7, <2>3
    <3>2. \A k \in Writers(x)' : k = l BY <1>5, <1>17, <3>1
    <3>3. vol[x].file # NoVol => vol[x].file # f /\ vol[x].file \in 1..MaxFiles
      <4> HAVE vol[x].file # NoVol
      <4>1. vol[x].file \in Holds(x) BY DEF Holds
      <4>2. vol[x].file \in 1..files /\ files <= MaxFiles BY <1>5, <4>1 DEF FilesInv, OwnInv, JobInv
      <4>3. vol[x].file # part[x] BY <2>1, <2>3 DEF Alone
      <4>4. QED BY <1>3, <1>8, <4>2, <4>3
    <3>4. vol[x].file # NoVol => body'[vol[x].file] = 1..Pieces BY <1>14, <2>1, <2>3, <3>3 DEF Alone
    <3>5. body'[f] = 1..0 BY <1>14
    <3>6. QED BY <1>6, <1>7, <1>9, <1>10, <1>11, <2>3, <3>2, <3>3, <3>4, <3>5 DEF Alone
  <2>4. QED BY <2>2, <2>3
<1>22. QED BY <1>15, <1>20, <1>21 DEF FilesInv

(* The file takes its place.                                               *)
LEMMA RenameFiles == ASSUME VolInv, FilesInv, NEW l \in Loaders, Rename(l) PROVE FilesInv'
<1>1. PICK s : s = job[l] OBVIOUS
<1>2. PICK x : x = s.x OBVIOUS
<1>3. JobFits(s) /\ s.at = "write" /\ s.n = Pieces /\ x \in Vols /\ UNCHANGED <<body, files, shared>>
  BY <1>1, <1>2 DEF Rename, FilesInv, JobInv, JobFits
<1>4. l \in Writers(x) BY <1>1, <1>2, <1>3 DEF Writers
<1>5. PICK j : job' = [job EXCEPT ![l] = j] /\ JobFits(j) /\ j.at # "write"
  <2>1. CASE Ends(l) BY <2>1, IdleFits DEF Ends
  <2>2. CASE JobTo(l, "register")
    <3>1. job[l].at # "idle" BY <1>1, <1>3
    <3>2. QED BY <2>2, <3>1, JobPlaced DEF FilesInv
  <2>3. QED BY <2>1, <2>2 DEF Rename
<1>6. \/ part[x] = NoVol /\ vol' = vol /\ part' = part
      \/ /\ part[x] # NoVol /\ part' = [part EXCEPT ![x] = NoVol]
         /\ vol' = [vol EXCEPT ![x] = [NoFile EXCEPT !.there = TRUE, !.file = part[x]]]
  BY <1>1, <1>2 DEF Rename
<1>7. part' = [y \in Vols |-> part'[y]] /\ \A y \in Vols \ {x} : part'[y] = part[y] /\ vol'[y] = vol[y]
  BY <1>6 DEF FilesInv, JobInv, VolInv
<1>8. JobInv' /\ \A y \in Vols : \A k \in Writers(y)' : k \in Writers(y) /\ k # l /\ job'[k] = job[k]
  BY <1>3, <1>5, <1>7, JobAway DEF FilesInv
<1>9. CASE part[x] = NoVol
  <2>1. vol' = vol /\ part' = part BY <1>6, <1>9
  <2>2. QED BY <1>3, <1>8, <2>1, FilesStill
<1>10. CASE part[x] # NoVol
  <2>1. part'[x] = NoVol /\ vol'[x].file = part[x]
    <3>1. PICK f : f = [NoFile EXCEPT !.there = TRUE, !.file = part[x]] OBVIOUS
    <3>2. f.file = part[x] BY <3>1 DEF NoFile
    <3>3. vol' = [vol EXCEPT ![x] = f] /\ part' = [part EXCEPT ![x] = NoVol] BY <1>6, <1>10, <3>1
    <3>4. QED BY <1>3, <3>2, <3>3 DEF VolInv, FilesInv, JobInv
  <2>2. ASSUME NEW y \in Vols PROVE Holds(y)' \subseteq Holds(y)
    <3>1. \A k \in Writers(y)' : k \in Writers(y) /\ job'[k].file = job[k].file BY <1>8
    <3>2. CASE y # x BY <1>7, <3>1, <3>2 DEF Holds
    <3>3. CASE y = x BY <2>1, <3>1, <3>3 DEF Holds
    <3>4. QED BY <3>2, <3>3
  <2>3. \A y \in Vols : Holds(y)' \subseteq 1..files' BY <1>3, <2>2 DEF FilesInv, OwnInv
  <2>4. \A y, z \in Vols : y # z => Holds(y)' \intersect Holds(z)' = {} BY <2>2 DEF FilesInv, OwnInv
  <2>5. ASSUME NEW y \in Vols \ shared' PROVE Alone(y)'
    <3>1. Alone(y) BY <1>3 DEF FilesInv
    <3>2. CASE y # x
      <4>1. part'[y] = part[y] /\ vol'[y] = vol[y] BY <1>7, <3>2
      <4>2. QED BY <1>3, <1>8, <3>1, <4>1, AloneStill
    <3>3. CASE y = x
      <4>1. Writers(x)' = {} BY <1>4, <1>8, <3>1, <3>3 DEF Alone
      <4>2. body[part[x]] = 1..Pieces BY <1>1, <1>3, <1>4, <3>1, <3>3 DEF Alone
      <4>3. QED BY <1>3, <1>10, <2>1, <3>3, <4>1, <4>2 DEF Alone
    <3>4. QED BY <3>2, <3>3
  <2>6. QED BY <1>8, <2>3, <2>4, <2>5 DEF FilesInv, OwnInv
<1>11. QED BY <1>9, <1>10

LEMMA FilesStep ==
  ASSUME HandInv, VolInv, FilesInv, [MachinesNext]_machinesVars PROVE FilesInv'
<1>1. ASSUME UNCHANGED <<part, body, files, shared>>, job' = job \/ job' = [l \in Loaders |-> Idle],
             \A x \in Vols : vol'[x].file \in {vol[x].file, NoVol}
      PROVE  FilesInv'
  <2>1. JobInv' BY <1>1, IdleFits DEF FilesInv, JobInv
  <2>2. ASSUME NEW x \in Vols, NEW l \in Writers(x)' PROVE l \in Writers(x) /\ job'[l] = job[l]
    BY <1>1, <2>2, IdleFits DEF Writers
  <2>3. QED BY <1>1, <2>1, <2>2, FilesStill
<1>2. CASE UNCHANGED machinesVars BY <1>1, <1>2 DEF machinesVars, downloads, disksVars
<1>3. CASE DisksNext /\ UNCHANGED downloads
  BY <1>1, <1>3, DisksVol DEF VolStep, downloads
<1>4. CASE DownloadsNext
  BY <1>4, FetchFiles, StatFiles, OpenFiles, PieceFiles, BreaksFiles, RenameFiles, RegisterFiles DEF DownloadsNext
<1>5. CASE (\E h \in Handlers : OfflineHandler(h)) /\ UNCHANGED downloads
  <2>1. vol' = vol
    BY <1>5 DEF OfflineHandler, MountAsk, Entered, Guestmount, GuestmountFails, Enters, Unmount, Fusermount,
       FusermountFails, storage
  <2>2. QED BY <1>1, <1>5, <2>1 DEF downloads
<1>6. CASE OfflineProcess /\ (UNCHANGED downloads \/ JobsEnd)
  <2>1. vol' = vol BY <1>6 DEF OfflineProcess, LateMount, Signal, Closes, Exit, Dies, Boot, storage
  <2>2. QED BY <1>1, <1>6, <2>1 DEF downloads, JobsEnd
<1>7. QED BY <1>2, <1>3, <1>4, <1>5, <1>6 DEF MachinesNext

LEMMA FilesStart == MachinesInit => FilesInv
<1> SUFFICES ASSUME MachinesInit PROVE FilesInv OBVIOUS
<1>1. PICK scene \in DiskMixes : DisksInit(scene) BY DEF MachinesInit
<1>2. vol \in [Vols -> [there : BOOLEAN, base : Vols \union {NoVol}, file : {NoVol}]]
  BY <1>1, MixesAssumption DEF DisksInit
<1>3. /\ part = [x \in Vols |-> NoVol] /\ body = [f \in 1..MaxFiles |-> {}]
      /\ job = [l \in Loaders |-> Idle] /\ files = 0
  BY DEF MachinesInit, DownloadsInit
<1>4. JobInv BY <1>3, IdleFits, DownloadsAssumption DEF JobInv
<1>5. ASSUME NEW x \in Vols PROVE Writers(x) = {} /\ vol[x].file = NoVol /\ part[x] = NoVol
  BY <1>2, <1>3, IdleFits DEF Writers
<1>6. \A x \in Vols : Holds(x) = {} BY <1>5 DEF Holds
<1>7. \A x \in Vols : Alone(x) BY <1>5 DEF Alone
<1>8. QED BY <1>4, <1>6, <1>7 DEF FilesInv, OwnInv

(* A file stands unfinished at its target only when two tasks downloaded   *)
(* it at once (image_download.go downloadToFile): transfers that break,    *)
(* kills and tasks that run again leave none, for any number of tasks,     *)
(* targets and pieces.                                                     *)
THEOREM DownloadsLeaveWholeFiles == MachinesSpec => []DownloadWhole
<1>1. FilesInv => DownloadWhole
  <2> SUFFICES ASSUME FilesInv, NEW x \in Vols, ~Whole(vol[x].file), x \notin shared PROVE FALSE
    BY DEF DownloadWhole
  <2>1. vol[x].file # NoVol /\ body[vol[x].file] # 1..Pieces BY DEF Whole
  <2>2. QED BY <2>1 DEF FilesInv, Alone
<1>2. FilesInv /\ HandInv /\ VolInv /\ [MachinesNext]_machinesVars => FilesInv' BY FilesStep
<1>3. QED BY FilesStart, HandInvHolds, <1>1, <1>2, PTL DEF MachinesSpec

(***************************************************************************)
(* The offline channel: the registry and the kernel.                       *)
(***************************************************************************)
(* Handlers between the registry and the kernel, on a machine.             *)
Movers(v) == {h \in Handlers : hand[h].at \in Moving /\ hand[h].q.v = v}
Short(s) == s = <<>> \/ \E b : s = <<b>>

(* One such handler at most; while it is there the mount stands and the    *)
(* registry does not know of it; without it the two agree.                 *)
Agree(v) ==
  /\ \A h, k \in Movers(v) : h = k
  /\ (\E h : h \in Movers(v)) => ~mount[v].on /\ fuse[v] # <<>>
  /\ Movers(v) = {} => (mount[v].on <=> fuse[v] # <<>>)

Down == closing = NotClosing /\ \A h \in Handlers : hand[h].at = "free"

FuseInv ==
  /\ fuse = [v \in Vms |-> fuse[v]] /\ mount = [v \in Vms |-> mount[v]]
  /\ \A v \in Vms \ odd : Short(fuse[v])
  /\ ~up => Down /\ \A v \in Vms : ~mount[v].on
  /\ up /\ ~ClosingNow => \A v \in Vms \ odd : Agree(v)

LEMMA Layers ==
  /\ \A b : Append(<<>>, b) = <<b>> /\ Front(<<b>>) = <<>> /\ <<b>> # <<>>
<1>1. ASSUME NEW b PROVE Append(<<>>, b) = <<b>> OBVIOUS
<1>2. ASSUME NEW b PROVE Front(<<b>>) = <<>>
  <2>1. Len(<<b>>) = 1 /\ <<b>> \in Seq({b}) OBVIOUS
  <2>2. QED BY <2>1 DEF Front
<1>3. ASSUME NEW b PROVE <<b>> # <<>> OBVIOUS
<1>4. QED BY <1>1, <1>2, <1>3

LEMMA AgreeStill ==
  ASSUME NEW v \in Vms, Agree(v), mount'[v] = mount[v], fuse'[v] = fuse[v], Movers(v)' = Movers(v)
  PROVE  Agree(v)'
BY DEF Agree

LEMMA ApartMovers ==
  ASSUME NEW h \in Handlers, HandTurn(h), Apart(h) PROVE \A v : Movers(v)' = Movers(v)
BY DEF HandTurn, Apart, Movers

(* A step that neither registers nor mounts anything.                      *)
LEMMA FuseStill ==
  ASSUME FuseInv, up, UNCHANGED <<mount, fuse, up, closing, odd>>, \A v : Movers(v)' = Movers(v)
  PROVE  FuseInv'
<1>1. ASSUME ~ClosingNow, NEW v \in Vms \ odd' PROVE Agree(v)'
  BY <1>1, AgreeStill DEF FuseInv
<1>2. QED BY <1>1 DEF FuseInv, ClosingNow

(* A handler's step on one machine.                                        *)
LEMMA OneMachine ==
  ASSUME FuseInv, up, UNCHANGED <<up, closing>>, NEW h \in Handlers, HandTurn(h), NEW w,
         hand[h].q.v = w, hand'[h].at \in Moving => hand'[h].q.v = w,
         odd' = odd \/ odd' = odd \union {w},
         fuse' = [v \in Vms |-> fuse'[v]], mount' = [v \in Vms |-> mount'[v]],
         \A v \in Vms \ {w} : fuse'[v] = fuse[v] /\ mount'[v] = mount[v],
         w \in Vms \ odd' => Short(fuse'[w]),
         w \in Vms \ odd' /\ Agree(w) => Agree(w)'
  PROVE  FuseInv'
<1>1. ASSUME NEW v \in Vms \ odd' PROVE Short(fuse'[v]) BY DEF FuseInv
<1>2. ASSUME ~ClosingNow, NEW v \in Vms \ odd' PROVE Agree(v)'
  <2>1. Agree(v) BY <1>2 DEF FuseInv
  <2>2. CASE v = w BY <2>1, <2>2
  <2>3. CASE v # w
    <3>1. Movers(v)' = Movers(v) BY <2>3 DEF Movers, HandTurn
    <3>2. QED BY <2>1, <2>3, <3>1, AgreeStill
  <2>4. QED BY <2>2, <2>3
<1>3. QED BY <1>1, <1>2 DEF FuseInv, ClosingNow

LEMMA GuestmountFuse ==
  ASSUME HandInv, FuseInv, up, NEW h \in Handlers, Guestmount(h) PROVE FuseInv'
<1>1. PICK w, rw : w = hand[h].q.v /\ rw = hand[h].q.rw OBVIOUS
<1>2. hand[h].at = "guestmount" /\ UNCHANGED <<mount, up, closing>> BY DEF Guestmount, machine, host
<1>3. CASE UNCHANGED <<fuse, odd>> /\ hand' = [hand EXCEPT ![h] = AtRest]
  BY <1>2, <1>3, Replies, ApartMovers, FuseStill DEF Moving, Quiet
<1>4. CASE Mounts(w, rw) /\ Step(h, "enter")
  <2>1. HandTurn(h) /\ hand'[h].at = "enter" /\ hand'[h].q = hand[h].q
    BY <1>4, Steps DEF Erasing, Looking
  <2>2. fuse' = [fuse EXCEPT ![w] = Append(@, rw)] /\ odd' = IF fuse[w] # <<>> THEN odd \union {w} ELSE odd
    BY <1>4 DEF Mounts
  <2>3. fuse' = [v \in Vms |-> fuse'[v]] /\ \A v \in Vms \ {w} : fuse'[v] = fuse[v] BY <2>2 DEF FuseInv
  <2>4. ASSUME w \in Vms \ odd' PROVE fuse[w] = <<>> /\ fuse'[w] = <<rw>>
    <3>1. fuse[w] = <<>> BY <2>2, <2>4
    <3>2. fuse'[w] = Append(fuse[w], rw) BY <2>2, <2>4 DEF FuseInv
    <3>3. QED BY <3>1, <3>2, Layers
  <2>5. ASSUME w \in Vms \ odd', Agree(w) PROVE Agree(w)'
    <3>1. Movers(w) = {} BY <2>4, <2>5 DEF Agree
    <3>2. Movers(w)' = {h} BY <1>1, <2>1, <3>1 DEF Movers, HandTurn, Moving
    <3>3. ~mount[w].on BY <2>4, <2>5, <3>1 DEF Agree
    <3>4. QED BY <1>2, <2>4, <2>5, <3>2, <3>3, Layers DEF Agree
  <2>6. mount' = [v \in Vms |-> mount'[v]] BY <1>2 DEF FuseInv
  <2>7. odd' = odd \/ odd' = odd \union {w} BY <2>2
  <2>8. w \in Vms \ odd' => Short(fuse'[w]) BY <2>4 DEF Short
  <2>9. QED BY <1>1, <1>2, <2>1, <2>3, <2>5, <2>6, <2>7, <2>8, OneMachine
<1>5. QED BY <1>1, <1>3, <1>4 DEF Guestmount, Reply

(* The registry learns of the mount, for the first time or again.          *)
LEMMA EntersFuse ==
  ASSUME HandInv, FuseInv, up, NEW h \in Handlers, Enters(h) \/ FusermountFails(h) PROVE FuseInv'
<1>1. PICK w, rw : w = hand[h].q.v /\ rw = hand[h].q.rw OBVIOUS
<1>2. /\ hand[h].at \in Moving /\ UNCHANGED <<fuse, up, closing, odd>>
      /\ mount' = [mount EXCEPT ![w] = [on |-> TRUE, rw |-> rw]] /\ hand' = [hand EXCEPT ![h] = AtRest]
  BY <1>1 DEF Enters, FusermountFails, offline, Reply, Moving
<1>3. HandTurn(h) /\ hand'[h].at = "free" BY <1>2, Rests, RestShape
<1>4. mount' = [v \in Vms |-> mount'[v]] /\ \A v \in Vms \ {w} : mount'[v] = mount[v] BY <1>2 DEF FuseInv
<1>5. fuse' = [v \in Vms |-> fuse'[v]] BY <1>2 DEF FuseInv
<1>6. ASSUME w \in Vms \ odd', Agree(w) PROVE Agree(w)'
  <2>1. h \in Movers(w) BY <1>1, <1>2 DEF Movers
  <2>2. fuse[w] # <<>> /\ \A k \in Movers(w) : k = h BY <1>6, <2>1 DEF Agree
  <2>3. Movers(w)' = {} BY <1>3, <2>2 DEF Movers, HandTurn, Moving
  <2>4. mount'[w].on BY <1>2, <1>6 DEF FuseInv
  <2>5. QED BY <1>2, <2>2, <2>3, <2>4 DEF Agree
<1>7. w \in Vms \ odd' => Short(fuse'[w]) BY <1>2 DEF FuseInv
<1>8. hand'[h].at \notin Moving BY <1>3 DEF Moving
<1>9. QED BY <1>1, <1>2, <1>3, <1>4, <1>5, <1>6, <1>7, <1>8, OneMachine

LEMMA UnmountFuse == ASSUME HandInv, FuseInv, up, NEW h \in Handlers, Unmount(h) PROVE FuseInv'
<1>1. PICK w : w = hand[h].q.v OBVIOUS
<1>2. hand[h].at = "unmount" /\ UNCHANGED <<fuse, up, closing, odd>> BY DEF Unmount, offline
<1>3. CASE hand' = [hand EXCEPT ![h] = AtRest] /\ mount' = mount
  BY <1>2, <1>3, Replies, ApartMovers, FuseStill DEF Moving, Quiet
<1>4. CASE ~(hand' = [hand EXCEPT ![h] = AtRest] /\ mount' = mount)
  <2>1. mount[w].on /\ mount' = [mount EXCEPT ![w] = Unmounted] BY <1>1, <1>4 DEF Unmount, Reply
  <2>2. hand' # [hand EXCEPT ![h] = AtRest]
    <3>1. SUFFICES ASSUME hand' = [hand EXCEPT ![h] = AtRest] PROVE FALSE OBVIOUS
    <3>2. PICK p : hand' = [hand EXCEPT ![h] = [@ EXCEPT !.at = "fusermount", !.q = p]] BY <1>1, <2>1 DEF Unmount
    <3>3. IsHand(hand[h]) BY DEF HandInv
    <3>4. hand'[h].at = "fusermount" BY <3>2, <3>3 DEF HandInv, IsHand
    <3>5. hand'[h].at = "free" BY <3>1, RestShape DEF HandInv
    <3>6. QED BY <3>4, <3>5
  <2>3. HandTurn(h) /\ hand'[h].at = "fusermount" /\ hand'[h].q.v = w BY <1>1, <2>2, UnmountHands
  <2>4. mount' = [v \in Vms |-> mount'[v]] /\ \A v \in Vms \ {w} : mount'[v] = mount[v] BY <2>1 DEF FuseInv
  <2>5. fuse' = [v \in Vms |-> fuse'[v]] BY <1>2 DEF FuseInv
  <2>6. ASSUME w \in Vms \ odd', Agree(w) PROVE Agree(w)'
    <3>1. Movers(w) = {} BY <2>1, <2>6 DEF Agree
    <3>2. fuse[w] # <<>> BY <2>1, <2>6, <3>1 DEF Agree
    <3>3. Movers(w)' = {h} BY <2>3, <3>1 DEF Movers, HandTurn, Moving
    <3>4. ~mount'[w].on BY <2>1, <2>6 DEF FuseInv, Unmounted
    <3>5. QED BY <1>2, <3>2, <3>3, <3>4 DEF Agree
  <2>7. w \in Vms \ odd' => Short(fuse'[w]) BY <1>2 DEF FuseInv
  <2>8. QED BY <1>1, <1>2, <2>3, <2>4, <2>5, <2>6, <2>7, OneMachine
<1>5. QED BY <1>3, <1>4

LEMMA FusermountFuse == ASSUME HandInv, FuseInv, up, NEW h \in Handlers, Fusermount(h) PROVE FuseInv'
<1>1. PICK w : w = hand[h].q.v OBVIOUS
<1>2. /\ hand[h].at = "fusermount" /\ UNCHANGED <<mount, up, closing, odd>> /\ fuse[w] # <<>>
      /\ fuse' = [fuse EXCEPT ![w] = Front(@)] /\ hand' = [hand EXCEPT ![h] = AtRest]
  BY <1>1 DEF Fusermount, machine, host, Reply
<1>3. HandTurn(h) /\ hand'[h].at = "free" BY <1>2, Rests, RestShape
<1>4. fuse' = [v \in Vms |-> fuse'[v]] /\ \A v \in Vms \ {w} : fuse'[v] = fuse[v] BY <1>2 DEF FuseInv
<1>5. mount' = [v \in Vms |-> mount'[v]] BY <1>2 DEF FuseInv
<1>6. ASSUME w \in Vms \ odd' PROVE fuse'[w] = <<>>
  <2>1. PICK b : fuse[w] = <<b>> BY <1>2, <1>6 DEF FuseInv, Short
  <2>2. fuse'[w] = Front(fuse[w]) BY <1>2, <1>6 DEF FuseInv
  <2>3. QED BY <2>1, <2>2, Layers
<1>7. ASSUME w \in Vms \ odd', Agree(w) PROVE Agree(w)'
  <2>1. h \in Movers(w) BY <1>1, <1>2 DEF Movers, Moving
  <2>2. ~mount[w].on /\ \A k \in Movers(w) : k = h BY <1>7, <2>1 DEF Agree
  <2>3. Movers(w)' = {} BY <1>3, <2>2 DEF Movers, HandTurn, Moving
  <2>4. QED BY <1>2, <1>6, <1>7, <2>2, <2>3 DEF Agree
<1>8. w \in Vms \ odd' => Short(fuse'[w]) BY <1>6 DEF Short
<1>9. hand'[h].at \notin Moving BY <1>3 DEF Moving
<1>10. QED BY <1>1, <1>2, <1>3, <1>4, <1>5, <1>7, <1>8, <1>9, OneMachine

(* The process: what it leaves mounted, and what the sweep finds.          *)
LEMMA LateFuse == ASSUME FuseInv, LateMount PROVE FuseInv'
<1>1. PICK m \in late :
        \/ UNCHANGED <<fuse, odd>>
        \/ fuse' = [fuse EXCEPT ![m[1]] = Append(@, m[2])] /\ odd' = odd \union {m[1]}
  BY DEF LateMount
<1>2. PICK w, rw : w = m[1] /\ rw = m[2] OBVIOUS
<1>3. UNCHANGED <<mount, hand, up, closing>> BY DEF LateMount, machine
<1>4. odd \subseteq odd' /\ fuse' = [v \in Vms |-> fuse'[v]] /\ \A v \in Vms \ odd' : fuse'[v] = fuse[v]
  BY <1>1, <1>2 DEF FuseInv
<1>5. \A v : Movers(v)' = Movers(v) BY <1>3 DEF Movers
<1>6. ASSUME up, ~ClosingNow, NEW v \in Vms \ odd' PROVE Agree(v)'
  BY <1>3, <1>4, <1>5, <1>6, AgreeStill DEF FuseInv
<1>7. mount' = [v \in Vms |-> mount'[v]] /\ \A v \in Vms \ odd' : Short(fuse'[v]) BY <1>3, <1>4 DEF FuseInv
<1>8. ~up' => Down' /\ \A v \in Vms : ~mount'[v].on BY <1>3 DEF FuseInv, Down
<1>9. QED BY <1>3, <1>4, <1>6, <1>7, <1>8 DEF FuseInv, ClosingNow

LEMMA SignalFuse == ASSUME FuseInv, Signal PROVE FuseInv'
<1>1. /\ up /\ UNCHANGED <<fuse, odd, up>> /\ mount' = [v \in Vms |-> Unmounted]
      /\ closing' = [v \in Vms |-> mount[v].on]
  BY DEF Signal
<1>2. ASSUME NEW v \in Vms PROVE closing' # NotClosing
  <2>1. DOMAIN closing' = Vms /\ DOMAIN NotClosing = {} BY <1>1 DEF NotClosing
  <2>2. QED BY <2>1
<1>3. QED BY <1>1, <1>2 DEF FuseInv, ClosingNow

LEMMA ClosesFuse == ASSUME FuseInv, Closes PROVE FuseInv'
<1>1. PICK w \in DOMAIN closing :
        /\ closing' = [closing EXCEPT ![w] = FALSE]
        /\ fuse' = fuse \/ (fuse[w] # <<>> /\ fuse' = [fuse EXCEPT ![w] = Front(@)])
  BY DEF Closes
<1>2. UNCHANGED <<mount, hand, up, odd>> BY DEF Closes, machine
<1>3. closing # NotClosing /\ closing' # NotClosing
  <2>1. DOMAIN closing' = DOMAIN closing /\ DOMAIN closing # {} BY <1>1
  <2>2. DOMAIN NotClosing = {} BY DEF NotClosing
  <2>3. QED BY <2>1, <2>2
<1>4. up BY <1>3 DEF FuseInv, Down
<1>5. fuse' = [v \in Vms |-> fuse'[v]] BY <1>1 DEF FuseInv
<1>6. ASSUME NEW v \in Vms \ odd' PROVE Short(fuse'[v])
  <2>1. Short(fuse[v]) BY <1>2 DEF FuseInv
  <2>2. CASE fuse'[v] = fuse[v] BY <2>1, <2>2
  <2>3. CASE fuse'[v] # fuse[v]
    <3>1. v = w /\ fuse[v] # <<>> /\ fuse'[v] = Front(fuse[v]) BY <1>1, <2>3 DEF FuseInv
    <3>2. PICK b : fuse[v] = <<b>> BY <2>1, <3>1 DEF Short
    <3>3. QED BY <3>1, <3>2, Layers DEF Short
  <2>4. QED BY <2>2, <2>3
<1>7. QED BY <1>2, <1>3, <1>4, <1>5, <1>6 DEF FuseInv, ClosingNow

LEMMA ExitFuse == ASSUME FuseInv, Exit PROVE FuseInv'
<1>1. /\ up' = FALSE /\ closing' = NotClosing /\ hand' = [h \in Handlers |-> AtRest]
      /\ mount' = [v \in Vms |-> Unmounted] /\ UNCHANGED <<fuse, odd>>
  BY DEF Exit, Dies
<1>2. Down' BY <1>1, RestShape DEF Down
<1>3. QED BY <1>1, <1>2 DEF FuseInv, Unmounted

LEMMA BootFuse == ASSUME FuseInv, Boot PROVE FuseInv'
<1>1. /\ ~up /\ up' = TRUE /\ UNCHANGED <<mount, hand, closing>>
      /\ \/ fuse' = [v \in Vms |-> IF fuse[v] = <<>> THEN <<>> ELSE Front(fuse[v])] /\ odd' = odd
         \/ fuse' = fuse /\ odd' = odd \union {v \in Vms : fuse[v] # <<>>}
  BY DEF Boot, machine
<1>2. Down /\ \A v \in Vms : ~mount[v].on BY <1>1 DEF FuseInv
<1>3. ASSUME NEW v \in Vms \ odd' PROVE fuse'[v] = <<>>
  <2>1. v \notin odd /\ Short(fuse[v]) BY <1>1 DEF FuseInv
  <2>2. QED BY <1>1, <2>1, Layers DEF Short
<1>4. \A v : Movers(v)' = {} BY <1>1, <1>2 DEF Movers, Down, Moving
<1>5. \A v \in Vms \ odd' : Agree(v)' BY <1>1, <1>2, <1>3, <1>4 DEF Agree
<1>6. fuse' = [v \in Vms |-> fuse'[v]] /\ mount' = [v \in Vms |-> mount'[v]] BY <1>1 DEF FuseInv
<1>7. QED BY <1>1, <1>3, <1>5, <1>6 DEF FuseInv, Short

LEMMA FuseStep ==
  ASSUME HandInv, VolInv, WatchInv, FuseInv, [MachinesNext]_machinesVars PROVE FuseInv'
<1>1. CASE UNCHANGED machinesVars
  <2>1. UNCHANGED <<hand, mount, fuse, up, closing, odd>> BY <1>1 DEF machinesVars, disksVars, offline
  <2>2. \A v : Movers(v)' = Movers(v) BY <2>1 DEF Movers
  <2>3. \A v \in Vms : Agree(v) => Agree(v)' BY <2>1, <2>2, AgreeStill
  <2>4. QED BY <2>1, <2>3 DEF FuseInv, Down, ClosingNow
<1>2. CASE up /\ DisksNext /\ UNCHANGED offline /\ Watch
  <2>w. Watch BY <1>2
  <2>1. UNCHANGED <<fuse, up, closing, odd>> BY <1>2 DEF offline
  <2>2. CASE TaskStops
    <3>1. UNCHANGED <<mount, hand>> BY <2>2 DEF TaskStops
    <3>2. \A v : Movers(v)' = Movers(v) BY <3>1 DEF Movers
    <3>3. QED BY <1>2, <2>1, <3>1, <3>2, FuseStill
  <2>3. ASSUME NEW h \in Handlers, Enter(h) \/ Work(h) \/ Erase(h) \/ Found(h) PROVE FuseInv'
    <3>1. HandTurn(h) /\ Apart(h)
      BY <2>3, <2>w, EnterHands, WorkHands, FoundHands, DetachWatched, EraseHands DEF Quiet
    <3>2. mount' = mount
      <4>1. CASE Enter(h) BY <4>1 DEF Enter, Begin, Guard, Lock, Refused, machine
      <4>2. CASE Work(h)
        BY <4>2 DEF Work, Power, Stop, Attach, Plug, Quick, Create, Rollback, Detach, Redefine, Eject, Snapshot, machine
      <4>3. CASE Erase(h) BY <4>3 DEF Erase, Volume, Image, Look, LookFails, Judge, Drop, Unlink, machine
      <4>4. CASE Found(h) BY <4>4 DEF Found, Register, Upload, Row, Clone, machine
      <4>5. QED BY <2>3, <4>1, <4>2, <4>3, <4>4
    <3>3. QED BY <1>2, <2>1, <3>1, <3>2, ApartMovers, FuseStill
  <2>4. QED BY <1>2, <2>2, <2>3 DEF DisksNext
<1>3. CASE up /\ DownloadsNext /\ UNCHANGED offline
  <2>1. UNCHANGED <<hand, mount, fuse, up, closing, odd>>
    BY <1>3 DEF DownloadsNext, Fetch, Stat, OpenPart, WritePiece, Breaks, Rename, RegisterRow, disksAll, machine, offline
  <2>2. \A v : Movers(v)' = Movers(v) BY <2>1 DEF Movers
  <2>3. QED BY <1>3, <2>1, <2>2, FuseStill
<1>4. ASSUME up, NEW h \in Handlers, OfflineHandler(h) PROVE FuseInv'
  <2>1. CASE MountAsk(h) \/ Entered(h) \/ GuestmountFails(h)
    <3>1. UNCHANGED <<mount, fuse, up, closing, odd>>
      BY <2>1 DEF MountAsk, Entered, GuestmountFails, machine, offline
    <3>2. HandTurn(h) /\ Apart(h) BY <2>1, MountHands DEF Quiet
    <3>3. QED BY <1>4, <3>1, <3>2, ApartMovers, FuseStill
  <2>2. QED
    BY <1>4, <2>1, GuestmountFuse, EntersFuse, UnmountFuse, FusermountFuse DEF OfflineHandler
<1>5. CASE OfflineProcess
  BY <1>5, LateFuse, SignalFuse, ClosesFuse, ExitFuse, BootFuse DEF OfflineProcess
<1>6. QED BY <1>1, <1>2, <1>3, <1>4, <1>5 DEF MachinesNext

LEMMA FuseStart == MachinesInit => FuseInv
<1> SUFFICES ASSUME MachinesInit PROVE FuseInv OBVIOUS
<1>1. PICK scene \in DiskMixes : DisksInit(scene) BY DEF MachinesInit
<1>2. mount = [v \in Vms |-> Unmounted] /\ hand = [h \in Handlers |-> AtRest] BY <1>1 DEF DisksInit
<1>3. fuse = [v \in Vms |-> <<>>] /\ up = TRUE BY DEF MachinesInit, OfflineInit
<1>4. \A v : Movers(v) = {} BY <1>2, RestShape DEF Movers, Moving
<1>5. \A v \in Vms : Agree(v) BY <1>2, <1>3, <1>4 DEF Agree, Unmounted
<1>6. QED BY <1>2, <1>3, <1>5 DEF FuseInv, Short

(* The registry of the offline channel and the kernel agree on every       *)
(* machine nobody is mounting or unmounting, through failures, exits and   *)
(* kills, except where a guestmount laid a second layer, outlived who ran  *)
(* it, or the sweep failed (handler/vm_files_offline.go, OfflineMount,     *)
(* OfflineUnmount; vm_files_offline_guard.go).                             *)
THEOREM RegistryMatchesKernel == MachinesSpec => []MountsAccounted
<1>1. FuseInv => MountsAccounted
  <2> SUFFICES ASSUME FuseInv, up, NEW v \in Vms, ~Busy(v), v \notin odd
               PROVE  mount[v].on <=> fuse[v] # <<>>
    BY DEF MountsAccounted
  <2>1. ~ClosingNow /\ Movers(v) = {} BY DEF Busy, Movers, Moving
  <2>2. Agree(v) BY <2>1 DEF FuseInv
  <2>3. QED BY <2>1, <2>2 DEF Agree
<1>2. FuseInv /\ HandInv /\ VolInv /\ WatchInv /\ [MachinesNext]_machinesVars => FuseInv' BY FuseStep
<1>3. QED BY FuseStart, HandInvHolds, <1>1, <1>2, PTL DEF MachinesSpec

(***************************************************************************)
(* Jump.  The invariants follow a ticket from its minting to its use       *)
(* (TicketInv), a right from the row to the session that was let in by it  *)
(* (GhostInv, RightsInv), and a withdrawn right to the bridges it may not open *)
(* any more (DoorsInv).                                                    *)
(***************************************************************************)

(* A handler's slot has its fields, whatever they hold; a request it holds *)
(* is one of those that may come.                                          *)
IsSlot(s) ==
  /\ s = [at |-> s.at, q |-> s.q, role |-> s.role, row |-> s.row, left |-> s.left, groups |-> s.groups]
  /\ s.q \in Asks \union {Ask}

(* Where a handler is tells what it serves.                                *)
Guarded == {"direct", "mine", "theirs"}
Granting == {"grant", "groupGrant"}
Drops == {"dropMembers", "dropGrants"}
Fits(s) ==
  /\ s.at \in {"identity", "open"} => s.q.op = "ws"
  /\ s.at \in Guarded => s.q.op \in {"ws", "mint"}
  /\ s.at \in Granting => s.q.op = s.at
  /\ s.at = "upsert" => s.q.op \in Granting

SlotsInv ==
  /\ slot = [c \in Clients |-> slot[c]]
  /\ \A c \in Clients : IsSlot(slot[c]) /\ Fits(slot[c])
  /\ todo \subseteq Asks
  /\ seq \in Nat

LEMMA FreeSlot == IsSlot(Free) /\ Free.q = Ask /\ Free.at = "free" /\ Ask.op = "none" /\ Ask.g = ""
BY DEF IsSlot, Free, Ask

(* One handler takes a step: its slot changes, ids and mishaps never go    *)
(* back; and such a step that presents no ticket.                          *)
Moved(c) ==
  /\ slot' = [d \in Clients |-> slot'[d]]
  /\ \A d \in Clients \ {c} : slot'[d] = slot[d]
  /\ \A d \in Clients : IsSlot(slot'[d])
  /\ todo' \subseteq todo
  /\ seq' \in Nat /\ seq' >= seq

Turn(c) ==
  /\ Moved(c) /\ Fits(slot'[c])
  /\ slot'[c].q.op # "ws" \/ slot'[c].q = slot[c].q
Calm(c) == slot[c].at \notin Drops /\ slot'[c].at \notin Drops

(* What a handler's step does to the slots.                                *)
LEMMA SlotMoves ==
  ASSUME SlotsInv, NEW c \in Clients, NEW r, slot' = [slot EXCEPT ![c] = r], IsSlot(r),
         todo' \subseteq todo, seq' \in Nat, seq' >= seq
  PROVE  Moved(c) /\ slot'[c] = r
BY DEF SlotsInv, Moved

LEMMA Placed ==
  ASSUME SlotsInv, NEW c \in Clients, NEW p, To(c, p),
         todo' \subseteq todo, seq' \in Nat, seq' >= seq
  PROVE  Moved(c) /\ slot'[c].at = p /\ slot'[c].q = slot[c].q
<1> DEFINE r == [slot[c] EXCEPT !.at = p]
<1>1. slot' = [slot EXCEPT ![c] = r] BY DEF To
<1>2. IsSlot(r) /\ r.at = p /\ r.q = slot[c].q BY DEF SlotsInv, IsSlot
<1>3. QED BY <1>1, <1>2, SlotMoves

(* The same with something read on the way.                                *)
LEMMA PlacedToo ==
  ASSUME SlotsInv, NEW c \in Clients, NEW p, NEW x,
         \/ slot' = [slot EXCEPT ![c] = [@ EXCEPT !.at = p, !.role = x]]
         \/ slot' = [slot EXCEPT ![c] = [@ EXCEPT !.at = p, !.row = x]]
         \/ slot' = [slot EXCEPT ![c] = [@ EXCEPT !.at = p, !.left = x]]
         \/ slot' = [slot EXCEPT ![c] = [@ EXCEPT !.at = p, !.groups = x]],
         todo' \subseteq todo, seq' \in Nat, seq' >= seq
  PROVE  Moved(c) /\ slot'[c].at = p /\ slot'[c].q = slot[c].q
<1>1. PICK r : /\ slot' = [slot EXCEPT ![c] = r]
               /\ \/ r = [slot[c] EXCEPT !.at = p, !.role = x]
                  \/ r = [slot[c] EXCEPT !.at = p, !.row = x]
                  \/ r = [slot[c] EXCEPT !.at = p, !.left = x]
                  \/ r = [slot[c] EXCEPT !.at = p, !.groups = x]
  OBVIOUS
<1>2. IsSlot(r) /\ r.at = p /\ r.q = slot[c].q BY <1>1 DEF SlotsInv, IsSlot
<1>3. QED BY <1>1, <1>2, SlotMoves

LEMMA Answered ==
  ASSUME SlotsInv, NEW c \in Clients, Answer(c),
         todo' \subseteq todo, seq' \in Nat, seq' >= seq
  PROVE  Turn(c) /\ slot'[c] = Free
<1>1. Moved(c) /\ slot'[c] = Free BY FreeSlot, SlotMoves DEF Answer
<1>2. QED BY <1>1, FreeSlot DEF Turn, Fits, Guarded, Granting

LEMMA AuthTurns == ASSUME SlotsInv, NEW c \in Clients, Auth(c) PROVE Turn(c) /\ Calm(c)
<1>1. PICK q \in todo :
        /\ slot[c].at = "free" /\ q.op # "ws" /\ todo' = todo \ {q}
        /\ slot' = IF Active(q.by) /\ Allowed(q.op, user[q.by].role)
                     THEN [slot EXCEPT ![c] = [Free EXCEPT !.at = IF q.op = "mint" THEN "direct" ELSE q.op,
                                                           !.q = q, !.role = user[q.by].role, !.left = q.h]]
                     ELSE slot
        /\ seq' = seq
  BY DEF Auth
<1>2. q \in Asks /\ q.op \in AdminOps \union {"mint", "ws", "password", "apply"} BY DEF SlotsInv, Asks
<1>3. CASE slot' = slot
  <2>1. Moved(c) /\ slot'[c] = slot[c] BY <1>1, <1>3 DEF Moved, SlotsInv
  <2>2. QED BY <1>1, <2>1 DEF Turn, Calm, Fits, Guarded, Drops, Granting
<1>4. CASE slot' # slot
  <2>0. PICK r : r = [Free EXCEPT !.at = IF q.op = "mint" THEN "direct" ELSE q.op,
                                  !.q = q, !.role = user[q.by].role, !.left = q.h]
    OBVIOUS
  <2>1. slot' = [slot EXCEPT ![c] = r] BY <1>1, <1>4, <2>0
  <2>2. IsSlot(r) /\ r.q = q /\ r.at = IF q.op = "mint" THEN "direct" ELSE q.op
    BY <1>2, <2>0 DEF IsSlot, Free
  <2>m. seq' \in Nat /\ seq' >= seq /\ todo' \subseteq todo BY <1>1 DEF SlotsInv
  <2>3. Moved(c) /\ slot'[c] = r BY <2>m, <2>1, <2>2, SlotMoves
  <2>4. Fits(r) /\ r.at \notin Drops BY <1>1, <1>2, <2>2 DEF Fits, Guarded, Drops, AdminOps, Granting
  <2>5. QED BY <1>1, <2>2, <2>3, <2>4 DEF Turn, Calm, Drops
<1>5. QED BY <1>3, <1>4

(* A step that leaves the counters and the requests to come alone.         *)
LEMMA StayPut == ASSUME SlotsInv, seq' = seq, todo' = todo
                 PROVE  todo' \subseteq todo /\ seq' \in Nat /\ seq' >= seq
BY DEF SlotsInv

LEMMA IdentityTurns ==
  ASSUME SlotsInv, NEW c \in Clients, Identity(c) PROVE Turn(c) /\ Calm(c)
<1>1. slot[c].at = "identity" /\ todo' \subseteq todo /\ seq' \in Nat /\ seq' >= seq
  BY StayPut DEF Identity
<1>2. CASE slot' = [slot EXCEPT ![c] = Free]
  <2>1. Answer(c) BY <1>2 DEF Answer
  <2>2. Turn(c) /\ slot'[c] = Free BY <1>1, <2>1, Answered
  <2>3. QED BY <1>1, <2>2, FreeSlot DEF Calm, Drops
<1>3. CASE slot' # [slot EXCEPT ![c] = Free]
  <2>1. slot' = [slot EXCEPT ![c] = [@ EXCEPT !.at = "direct", !.role = user[slot[c].q.by].role]]
    BY <1>3 DEF Identity
  <2>2. Moved(c) /\ slot'[c].at = "direct" /\ slot'[c].q = slot[c].q
    BY <1>1, <2>1, PlacedToo
  <2>3. slot[c].q.op = "ws" BY <1>1 DEF SlotsInv, Fits, Granting
  <2>4. QED BY <1>1, <2>2, <2>3 DEF Turn, Calm, Drops, Fits, Guarded, Granting
<1>4. QED BY <1>2, <1>3

LEMMA SeenTurns ==
  ASSUME SlotsInv, NEW c \in Clients, slot[c].at \in Guarded, seq' = seq, todo' = todo,
         Seen(c) \/ To(c, "mine") \/ Answer(c)
  PROVE  Turn(c) /\ Calm(c)
<1>1. slot[c].q.op \in {"ws", "mint"} BY DEF SlotsInv, Fits, Granting
<1>2. CASE Answer(c)
  <2>1. Turn(c) /\ slot'[c] = Free BY <1>2, StayPut, Answered
  <2>2. QED BY <2>1, FreeSlot DEF Calm, Drops, Guarded
<1>3. CASE Seen(c) \/ To(c, "mine")
  <2>1. PICK p \in {"issue", "open", "mine"} : To(c, p) /\ (p = "open" => slot[c].q.op = "ws")
    BY <1>1, <1>3 DEF Seen
  <2>2. Moved(c) /\ slot'[c].at = p /\ slot'[c].q = slot[c].q BY <2>1, StayPut, Placed
  <2>3. QED BY <1>1, <2>1, <2>2 DEF Turn, Calm, Drops, Fits, Guarded, Granting
<1>4. QED BY <1>2, <1>3

LEMMA VisibleTurns ==
  ASSUME SlotsInv, NEW c \in Clients, Direct(c) \/ MyGroups(c) \/ GroupsGrants(c)
  PROVE  Turn(c) /\ Calm(c)
<1>1. slot[c].at \in Guarded /\ seq' = seq /\ todo' = todo
  BY DEF Direct, MyGroups, GroupsGrants, Guarded
<1>2. CASE Direct(c) \/ GroupsGrants(c)
  BY <1>1, <1>2, SeenTurns DEF Direct, GroupsGrants
<1>3. CASE MyGroups(c)
  <2>1. slot[c].at = "mine" /\ slot[c].q.op \in {"ws", "mint"} BY <1>3 DEF MyGroups, SlotsInv, Fits, Guarded, Granting
  <2>2. CASE Answer(c) BY <1>1, <2>2, SeenTurns
  <2>3. CASE ~Answer(c)
    <3>1. PICK mine : slot' = [slot EXCEPT ![c] = [@ EXCEPT !.at = "theirs", !.groups = mine]]
      BY <1>3, <2>3 DEF MyGroups, Answer
    <3>2. Moved(c) /\ slot'[c].at = "theirs" /\ slot'[c].q = slot[c].q
      BY <1>1, <3>1, StayPut, PlacedToo
    <3>3. QED BY <2>1, <3>2 DEF Turn, Calm, Drops, Fits, Guarded, Granting
  <2>4. QED BY <2>2, <2>3
<1>4. QED BY <1>2, <1>3

LEMMA IssueTurns == ASSUME SlotsInv, NEW c \in Clients, Issue(c) \/ Open(c) PROVE Turn(c) /\ Calm(c)
<1>1. todo' \subseteq todo /\ seq' \in Nat /\ seq' >= seq /\ Answer(c) /\ slot[c].at \in {"issue", "open"}
  BY DEF Issue, Open, SlotsInv
<1>2. Turn(c) /\ slot'[c] = Free BY <1>1, Answered
<1>3. QED BY <1>1, <1>2, FreeSlot DEF Calm, Drops

(* The handlers of users, of groups and of grants present no ticket.       *)
LEMMA Elsewhere ==
  ASSUME SlotsInv, NEW c \in Clients, todo' \subseteq todo, seq' \in Nat, seq' >= seq,
         NEW p, p \notin Guarded \union Granting \union {"identity", "open", "upsert"}, Answer(c) \/ To(c, p)
  PROVE  /\ Turn(c)
         /\ (slot'[c].at = p /\ slot'[c].q = slot[c].q) \/ slot'[c] = Free
<1>1. CASE Answer(c) BY <1>1, Answered
<1>2. CASE To(c, p)
  <2>1. Moved(c) /\ slot'[c].at = p /\ slot'[c].q = slot[c].q BY <1>2, Placed
  <2>2. QED BY <2>1 DEF Turn, Fits, Guarded, Granting
<1>3. QED BY <1>1, <1>2

LEMMA ElsewhereToo ==
  ASSUME SlotsInv, NEW c \in Clients, seq' = seq, todo' = todo,
         NEW p \in {"upsert", "decide"}, NEW x, p = "upsert" => slot[c].q.op \in Granting,
         \/ slot' = [slot EXCEPT ![c] = [@ EXCEPT !.at = p, !.row = x]]
         \/ slot' = [slot EXCEPT ![c] = [@ EXCEPT !.at = p, !.left = x]]
  PROVE  Turn(c) /\ slot'[c].at \notin Drops
<1>1. Moved(c) /\ slot'[c].at = p /\ slot'[c].q = slot[c].q BY ZenonT(40), StayPut, PlacedToo
<1>2. QED BY <1>1 DEF Turn, Fits, Guarded, Drops, Granting

LEMMA UsersTurn ==
  ASSUME SlotsInv, NEW c \in Clients, CreateUser(c) \/ FindUser(c) \/ SaveUser(c)
  PROVE  Turn(c) /\ Calm(c)
<1>1. seq' = seq /\ todo' = todo /\ slot[c].at \notin Drops
  BY DEF CreateUser, FindUser, SaveUser, Drops
<1>2. PICK p \in {"saveUser", "eraseUser", "savePassword"} : Answer(c) \/ To(c, p)
  BY DEF CreateUser, FindUser, SaveUser
<1>3. QED BY <1>1, <1>2, StayPut, Elsewhere, FreeSlot DEF Calm, Drops, Guarded, Granting

LEMMA GroupsTurn ==
  ASSUME SlotsInv, NEW c \in Clients,
         CreateGroup(c) \/ DeleteGroup(c) \/ DropMembers(c) \/ DropGrants(c) \/ FindGroup(c) \/ ReplaceMembers(c)
  PROVE  Turn(c) /\ (CreateGroup(c) \/ FindGroup(c) \/ ReplaceMembers(c) => Calm(c))
<1>1. seq' = seq /\ todo' = todo
  BY DEF CreateGroup, DeleteGroup, DropMembers, DropGrants, FindGroup, ReplaceMembers
<1>2. PICK p \in {"dropMembers", "dropGrants", "replace"} :
        Answer(c) \/ To(c, p)
  BY DEF CreateGroup, DeleteGroup, DropMembers, DropGrants, FindGroup, ReplaceMembers
<1>3. Turn(c) BY <1>1, <1>2, StayPut, Elsewhere DEF Guarded, Granting
<1>4. ASSUME CreateGroup(c) \/ FindGroup(c) \/ ReplaceMembers(c) PROVE Calm(c)
  <2>1. slot[c].at \notin Drops /\ (Answer(c) \/ To(c, "replace"))
    BY <1>4 DEF CreateGroup, FindGroup, ReplaceMembers, Drops
  <2>2. slot'[c] = Free \/ slot'[c].at = "replace" BY <1>1, <2>1, StayPut, Elsewhere DEF Guarded, Granting
  <2>3. QED BY <2>1, <2>2, FreeSlot DEF Calm, Drops
<1>5. QED BY <1>3, <1>4

LEMMA EntitleTurns == ASSUME SlotsInv, NEW c \in Clients, Entitle(c) PROVE Turn(c) /\ Calm(c)
<1>0. todo' = todo /\ slot[c].at \notin Drops
  BY DEF Entitle, ReadGrant, Upsert, Revoke, Apply, CountPending, File, ReadRequest, Decide, Drops
<1>s. seq' = seq \/ seq' = seq + 1
  BY DEF Entitle, ReadGrant, Upsert, Revoke, Apply, CountPending, File, ReadRequest, Decide
<1>1. todo' \subseteq todo /\ seq' \in Nat /\ seq' >= seq /\ slot[c].at \notin Drops
  BY <1>0, <1>s DEF SlotsInv
<1>2. CASE Answer(c) \/ To(c, "pending") \/ To(c, "file")
  <2>1. PICK p \in {"pending", "file"} : Answer(c) \/ To(c, p) BY <1>2
  <2>2. QED BY <1>1, <2>1, Elsewhere, FreeSlot DEF Calm, Drops, Guarded, Granting
<1>3. CASE ReadGrant(c) \/ ReadRequest(c)
  <2>1. seq' = seq /\ todo' = todo BY <1>3 DEF ReadGrant, ReadRequest
  <2>2. CASE Answer(c) BY <1>2, <2>2
  <2>3. CASE ~Answer(c)
    <3>0. ReadGrant(c) => slot[c].q.op \in Granting BY DEF ReadGrant, SlotsInv, Fits, Granting
    <3>1. PICK p \in {"upsert", "decide"} : \E x :
            /\ p = "upsert" => slot[c].q.op \in Granting
            /\ \/ slot' = [slot EXCEPT ![c] = [@ EXCEPT !.at = p, !.row = x]]
               \/ slot' = [slot EXCEPT ![c] = [@ EXCEPT !.at = p, !.left = x]]
      BY <1>3, <2>3, <3>0 DEF ReadGrant, ReadRequest
    <3>2. QED BY <1>1, <2>1, <3>1, ElsewhereToo DEF Calm
  <2>4. QED BY <2>2, <2>3
<1>4. QED
  BY <1>2, <1>3 DEF Entitle, Upsert, Revoke, Apply, CountPending, File, Decide

(***************************************************************************)
(* Tickets.                                                                *)
(***************************************************************************)
Tickets == [id : Nat, user : Names, vm : Machines \union {0}]
Stored == [id : Nat, user : Names, vm : Machines \union {0}, fresh : BOOLEAN]
Bare(e) == [id |-> e.id, user |-> e.user, vm |-> e.vm]
(* What a handler that was let in with a ticket will open.                 *)
Shows(c) == slot[c].q.op = "ws"
Presented(c) == [id |-> slot[c].q.n, user |-> slot[c].q.by, vm |-> slot[c].q.v]

(* A ticket is in one place: in the store, with the one handler that       *)
(* presents it, or used up by a socket.  Ids are given once.               *)
MintInv ==
  /\ minted \subseteq Tickets
  /\ \A t \in minted : t.id <= seq
  /\ \A s, t \in minted : s.id = t.id => s = t
StoreInv ==
  /\ ticket \subseteq Stored
  /\ \A e \in ticket :
       /\ Bare(e) \in minted
       /\ \A c \in Clients : Shows(c) => slot[c].q.n # e.id
       /\ \A i \in DOMAIN open : open[i].id # e.id
ShownInv == \A c \in Clients : Shows(c) =>
  /\ Presented(c) \in minted
  /\ \A d \in Clients : Shows(d) /\ slot[d].q.n = slot[c].q.n => d = c
  /\ \A i \in DOMAIN open : open[i].id # slot[c].q.n
OpenInv == open \in Seq(Tickets) /\ TicketOnce
TicketInv == MintInv /\ StoreInv /\ ShownInv /\ OpenInv

(* Slots that show what they showed, or less.                              *)
Hides == \A c \in Clients : slot'[c].q.op # "ws" \/ slot'[c].q = slot[c].q

LEMMA TurnHides == ASSUME NEW c \in Clients, Turn(c) PROVE Hides
BY DEF Turn, Moved, Hides

LEMMA QuietTickets ==
  ASSUME TicketInv, SlotsInv, Hides, UNCHANGED wire, seq' \in Nat, seq' >= seq PROVE TicketInv'
<1>1. UNCHANGED <<ticket, minted, open>> BY DEF wire
<1>2. MintInv'
  <2>1. \A t \in minted : t.id \in Nat BY DEF TicketInv, MintInv, Tickets
  <2>2. QED BY <1>1, <2>1 DEF TicketInv, MintInv, SlotsInv
<1>3. \A c \in Clients : Shows(c)' => Shows(c) /\ slot'[c].q = slot[c].q BY DEF Hides, Shows
<1>4. StoreInv' BY <1>1, <1>3 DEF TicketInv, StoreInv, Shows, Bare
<1>5. ShownInv' BY <1>1, <1>3 DEF TicketInv, ShownInv, Shows, Presented
<1>6. OpenInv' BY <1>1 DEF TicketInv, OpenInv, TicketOnce
<1>7. QED BY <1>2, <1>4, <1>5, <1>6 DEF TicketInv

LEMMA ConsumeTickets ==
  ASSUME TicketInv, SlotsInv, NEW c \in Clients, Consume(c)
  PROVE  TicketInv' /\ Moved(c) /\ Fits(slot'[c]) /\ Calm(c)
<1>1. PICK q \in todo, t \in minted :
        /\ slot[c].at = "free" /\ q.op = "ws" /\ todo' = todo \ {q}
        /\ LET hit == {e \in ticket : e.id = t.id} IN
           /\ ticket' = ticket \ hit
           /\ slot' = IF \E e \in hit : e.fresh /\ e.vm = q.v
                        THEN [slot EXCEPT ![c] = [Free EXCEPT !.at = "identity", !.q = [q EXCEPT !.by = t.user, !.n = t.id]]]
                        ELSE slot
        /\ UNCHANGED <<minted, open, seq>>
  BY DEF Consume
<1>2. t \in Tickets /\ q \in Asks BY DEF TicketInv, MintInv, SlotsInv
<1>m. seq' \in Nat /\ seq' >= seq /\ todo' \subseteq todo BY <1>1 DEF SlotsInv
<1>3. MintInv' BY <1>1 DEF TicketInv, MintInv
<1>4. OpenInv' BY <1>1 DEF TicketInv, OpenInv, TicketOnce
<1>5. ticket' \subseteq ticket /\ \A e \in ticket' : e.id # t.id BY <1>1
<1>6. CASE slot' = slot
  <2>1. StoreInv' BY <1>1, <1>5, <1>6 DEF TicketInv, StoreInv, Shows, Bare
  <2>2. ShownInv' BY <1>1, <1>6 DEF TicketInv, ShownInv, Shows, Presented
  <2>3. Moved(c) /\ Fits(slot'[c]) /\ Calm(c)
    BY <1>1, <1>m, <1>6 DEF Moved, SlotsInv, Calm, Drops
  <2>4. QED BY <1>3, <1>4, <2>1, <2>2, <2>3 DEF TicketInv
<1>7. CASE slot' # slot
  <2>1. PICK e \in ticket : e.id = t.id /\ e.vm = q.v BY <1>1, <1>7
  <2>2. PICK p : p = [q EXCEPT !.by = t.user, !.n = t.id] OBVIOUS
  <2>3. p \in Asks /\ p.op = "ws" /\ p.by = t.user /\ p.n = t.id /\ p.v = q.v
    BY <1>1, <1>2, <2>2 DEF Asks, Tickets
  <2>4. PICK r : r = [Free EXCEPT !.at = "identity", !.q = p] OBVIOUS
  <2>5. slot' = [slot EXCEPT ![c] = r] BY <1>1, <1>7, <2>2, <2>4
  <2>6. IsSlot(r) /\ r.at = "identity" /\ r.q = p BY <2>3, <2>4 DEF IsSlot, Free
  <2>7. Moved(c) /\ slot'[c] = r BY <1>m, <2>5, <2>6, SlotMoves
  <2>8. Fits(slot'[c]) /\ Calm(c) BY <1>1, <2>3, <2>6, <2>7 DEF Fits, Guarded, Calm, Drops, Granting
  <2>9. Bare(e) = t
    <3>1. Bare(e) \in minted /\ Bare(e).id = t.id BY <2>1 DEF TicketInv, StoreInv, Bare
    <3>2. QED BY <3>1 DEF TicketInv, MintInv
  <2>10. Presented(c)' = t
    <3>1. Presented(c)' = [id |-> t.id, user |-> t.user, vm |-> q.v]
      BY <2>3, <2>6, <2>7 DEF Presented
    <3>2. QED BY <2>1, <2>9, <3>1, <1>2 DEF Bare, Tickets
  <2>11. slot'[c].q.n = t.id /\ \A d \in Clients \ {c} : slot'[d] = slot[d]
    BY <2>3, <2>6, <2>7 DEF Moved
  <2>12. StoreInv' BY <1>1, <1>5, <2>11 DEF TicketInv, StoreInv, Shows, Bare
  <2>13. \A d \in Clients \ {c} : Shows(d) => slot[d].q.n # t.id
    BY <2>1 DEF TicketInv, StoreInv
  <2>14. \A i \in DOMAIN open : open[i].id # t.id BY <2>1 DEF TicketInv, StoreInv
  <2>15. ShownInv'
    <3> SUFFICES ASSUME NEW d \in Clients, Shows(d)'
                 PROVE  /\ Presented(d)' \in minted'
                        /\ \A k \in Clients : Shows(k)' /\ slot'[k].q.n = slot'[d].q.n => k = d
                        /\ \A i \in DOMAIN open' : open'[i].id # slot'[d].q.n
      BY DEF ShownInv
    <3>1. CASE d = c BY <1>1, <2>10, <2>11, <2>13, <2>14, <3>1 DEF Shows
    <3>2. CASE d # c
      <4>1. Shows(d) /\ slot'[d] = slot[d] BY <2>11, <3>2 DEF Shows
      <4>p. Presented(d)' = Presented(d) BY <4>1 DEF Presented
      <4>2. Presented(d)' \in minted' BY <1>1, <4>1, <4>p DEF TicketInv, ShownInv
      <4>3. \A i \in DOMAIN open' : open'[i].id # slot'[d].q.n
        BY <1>1, <4>1 DEF TicketInv, ShownInv
      <4>4. \A k \in Clients : Shows(k)' /\ slot'[k].q.n = slot'[d].q.n => k = d
        BY <2>11, <2>13, <3>2, <4>1 DEF TicketInv, ShownInv, Shows
      <4>5. QED BY <4>2, <4>3, <4>4
    <3>3. QED BY <3>1, <3>2
  <2>16. QED BY <1>3, <1>4, <2>7, <2>8, <2>12, <2>15 DEF TicketInv
<1>8. QED BY <1>6, <1>7

LEMMA IssueTickets == ASSUME TicketInv, SlotsInv, NEW c \in Clients, Issue(c) PROVE TicketInv'
<1> DEFINE t == [id |-> seq + 1, user |-> slot[c].q.by, vm |-> slot[c].q.v]
           n == [id |-> seq + 1, user |-> slot[c].q.by, vm |-> slot[c].q.v, fresh |-> TRUE]
<1>1. /\ ticket' = {e \in ticket : e.fresh} \union {n}
      /\ minted' = minted \union {t} /\ seq' = seq + 1 /\ open' = open /\ seq \in Nat
  BY DEF Issue, SlotsInv
<1>2. Turn(c) /\ slot'[c] = Free
  <2>1. Answer(c) /\ todo' = todo BY DEF Issue
  <2>2. QED BY <1>1, <2>1, Answered
<1>3. Hides BY <1>2, TurnHides
<1>4. slot[c].q.by \in Names /\ slot[c].q.v \in Machines \union {0}
  <2>1. slot[c].q \in Asks \union {Ask} BY DEF SlotsInv, IsSlot
  <2>2. CASE slot[c].q \in Asks BY <2>2 DEF Asks
  <2>3. Ask.by = "" /\ Ask.v = 0 BY DEF Ask
  <2>4. CASE slot[c].q = Ask BY <2>3, <2>4 DEF Names
  <2>5. QED BY <2>1, <2>2, <2>4
<1>5. t \in Tickets /\ n \in Stored /\ Bare(n) = t BY <1>1, <1>4 DEF Tickets, Stored, Bare
<1>6. \A s \in minted : s.id \in Nat /\ s.id < seq + 1
  BY <1>1 DEF TicketInv, MintInv, Tickets
<1>7. MintInv'
  <2>1. t.id = seq + 1 OBVIOUS
  <2>2. \A s \in minted' : s.id <= seq' BY <1>1, <1>6, <2>1
  <2>3. \A r, s \in minted' : r.id = s.id => r = s BY <1>1, <1>6, <2>1 DEF TicketInv, MintInv
  <2>4. QED BY <1>1, <1>5, <2>2, <2>3 DEF TicketInv, MintInv
<1>8. \A d \in Clients : Shows(d)' => Shows(d) /\ slot'[d].q = slot[d].q BY <1>3 DEF Hides, Shows
<1>9. \A d \in Clients : Shows(d) => slot[d].q.n # seq + 1
  <2>1. \A d \in Clients : Shows(d) => Presented(d) \in minted BY DEF TicketInv, ShownInv
  <2>2. \A d \in Clients : Presented(d).id = slot[d].q.n BY DEF Presented
  <2>3. QED BY <1>6, <2>1, <2>2
<1>10. \A i \in DOMAIN open : open[i].id # seq + 1 BY <1>6 DEF TicketInv, OpenInv, TicketOnce
<1>11. StoreInv'
  <2>1. ticket' \subseteq Stored BY <1>1, <1>5 DEF TicketInv, StoreInv
  <2>2. ASSUME NEW e \in ticket'
        PROVE  /\ Bare(e) \in minted'
               /\ \A d \in Clients : Shows(d)' => slot'[d].q.n # e.id
               /\ \A i \in DOMAIN open' : open'[i].id # e.id
    <3>1. CASE e \in ticket BY <1>1, <1>8, <3>1 DEF TicketInv, StoreInv
    <3>2. CASE e = n
      <4>1. e.id = seq + 1 BY <3>2
      <4>2. QED BY <1>1, <1>5, <1>8, <1>9, <1>10, <3>2, <4>1
    <3>3. QED BY <1>1, <2>2, <3>1, <3>2
  <2>3. QED BY <2>1, <2>2 DEF StoreInv
<1>12. ShownInv' BY <1>1, <1>8 DEF TicketInv, ShownInv, Shows, Presented
<1>13. OpenInv' BY <1>1 DEF TicketInv, OpenInv, TicketOnce
<1>14. QED BY <1>7, <1>11, <1>12, <1>13 DEF TicketInv

LEMMA OpenTickets == ASSUME TicketInv, SlotsInv, NEW c \in Clients, Open(c) PROVE TicketInv'
<1>1. /\ open' = Append(open, Presented(c)) /\ slot[c].at = "open"
      /\ ticket' = ticket /\ minted' = minted /\ seq' = seq
  BY DEF Open, Presented
<1>2. Turn(c) /\ slot'[c] = Free
  <2>1. Answer(c) /\ todo' = todo BY DEF Open
  <2>2. QED BY <1>1, <2>1, StayPut, Answered
<1>3. Hides BY <1>2, TurnHides
<1>4. Shows(c) BY <1>1 DEF SlotsInv, Fits, Shows, Granting
<1>5. Presented(c) \in minted /\ Presented(c) \in Tickets /\ Presented(c).id = slot[c].q.n
  BY <1>4 DEF TicketInv, ShownInv, MintInv, Presented
<1>6. \A d \in Clients : Shows(d)' => d # c /\ Shows(d) /\ slot'[d].q = slot[d].q
  BY <1>2, <1>3, FreeSlot DEF Hides, Shows
<1>7. open \in Seq(Tickets) BY DEF TicketInv, OpenInv
<1>8. /\ open' \in Seq(Tickets) /\ DOMAIN open' = 1..(Len(open) + 1) /\ DOMAIN open = 1..Len(open)
      /\ Len(open) \in Nat
      /\ \A i \in DOMAIN open : open'[i] = open[i]
      /\ open'[Len(open) + 1] = Presented(c)
  BY <1>1, <1>5, <1>7
<1>9. \A i \in DOMAIN open' : i \in DOMAIN open \/ (open'[i] = Presented(c) /\ i = Len(open) + 1)
  <2> TAKE i \in DOMAIN open'
  <2>1. i \in 1..(Len(open) + 1) BY <1>8
  <2>2. i \in 1..Len(open) \/ i = Len(open) + 1 BY <1>8, <2>1
  <2>3. QED BY <1>8, <2>2
<1>10. MintInv' BY <1>1 DEF TicketInv, MintInv
<1>11. OpenInv'
  <2>1. \A i \in DOMAIN open' : open'[i] \in minted'
    BY <1>1, <1>5, <1>8, <1>9 DEF TicketInv, OpenInv, TicketOnce
  <2>2. \A i \in DOMAIN open : open'[i].id # Presented(c).id
    BY <1>4, <1>5, <1>8 DEF TicketInv, ShownInv
  <2>3. \A i, j \in DOMAIN open' : open'[i].id = open'[j].id => i = j
    BY <1>8, <1>9, <2>2 DEF TicketInv, OpenInv, TicketOnce
  <2>4. QED BY <1>8, <2>1, <2>3 DEF OpenInv, TicketOnce
<1>12. StoreInv'
  <2>1. \A e \in ticket : e.id # Presented(c).id BY <1>4, <1>5 DEF TicketInv, StoreInv
  <2>2. \A e \in ticket : \A i \in DOMAIN open' : open'[i].id # e.id
    BY <1>8, <1>9, <2>1 DEF TicketInv, StoreInv
  <2>3. QED BY <1>1, <1>6, <2>2 DEF TicketInv, StoreInv, Bare
<1>13. ShownInv'
  <2>1. \A d \in Clients : Shows(d) /\ d # c => slot[d].q.n # Presented(c).id
    BY <1>4, <1>5 DEF TicketInv, ShownInv
  <2>2. \A d \in Clients : Shows(d)' => \A i \in DOMAIN open' : open'[i].id # slot'[d].q.n
    BY <1>6, <1>8, <1>9, <2>1 DEF TicketInv, ShownInv
  <2>3. \A d \in Clients : Shows(d)' => Presented(d)' \in minted'
    BY <1>1, <1>6 DEF TicketInv, ShownInv, Presented
  <2>4. QED BY <1>6, <2>2, <2>3 DEF TicketInv, ShownInv
<1>14. QED BY <1>10, <1>11, <1>12, <1>13 DEF TicketInv

LEMMA AgeTickets == ASSUME TicketInv, SlotsInv, TicketAges PROVE TicketInv'
<1>1. PICK e \in ticket : ticket' = (ticket \ {e}) \union {[e EXCEPT !.fresh = FALSE]}
                          /\ UNCHANGED <<minted, open, slot, seq>>
  BY DEF TicketAges
<1>2. PICK f : f = [e EXCEPT !.fresh = FALSE] OBVIOUS
<1>3. f \in Stored /\ Bare(f) = Bare(e) /\ f.id = e.id
  BY <1>2 DEF TicketInv, StoreInv, Stored, Bare
<1>4. ticket' = (ticket \ {e}) \union {f} BY <1>1, <1>2
<1>5. StoreInv' BY <1>1, <1>3, <1>4 DEF TicketInv, StoreInv, Shows
<1>6. QED BY <1>1, <1>5 DEF TicketInv, MintInv, ShownInv, OpenInv, TicketOnce, Shows, Presented

(* An hour touches how long things last, not who holds them.               *)
LEMMA HourSlots ==
  ASSUME SlotsInv, HourPasses
  PROVE  /\ SlotsInv' /\ Hides
         /\ \A c \in Clients : slot'[c].at = slot[c].at /\ slot'[c].q = slot[c].q
<1>1. slot' = [c \in Clients |-> [slot[c] EXCEPT !.left = Later(@)]] /\ todo' = todo /\ seq' = seq
  BY DEF HourPasses
<1>2. ASSUME NEW c \in Clients
      PROVE  IsSlot(slot'[c]) /\ slot'[c].at = slot[c].at /\ slot'[c].q = slot[c].q
  <2>1. PICK n : n = Later(slot[c].left) OBVIOUS
  <2>2. slot'[c] = [slot[c] EXCEPT !.left = n] BY <1>1, <2>1
  <2>3. QED BY <2>2 DEF SlotsInv, IsSlot
<1>3. slot' = [c \in Clients |-> slot'[c]] BY <1>1
<1>4. SlotsInv' BY <1>1, <1>2, <1>3 DEF SlotsInv, Fits, Granting
<1>5. QED BY <1>2, <1>4 DEF Hides

(* Logging in and the menu leave the slots and the tickets as they are.    *)
LEMMA DoorsApart ==
  ASSUME (\E d \in Doors : LogIn(d) \/ Menu(d)) \/ WindowPasses \/ MachineChanges
  PROVE  UNCHANGED <<people, rights, wire, slot, seq, mishaps, todo>>
<1>1. ASSUME NEW d \in Doors, LogIn(d)
      PROVE  UNCHANGED <<people, rights, wire, slot, seq, mishaps, todo>>
  BY <1>1 DEF LogIn, Knock, AskKey, LookUp, Tell, Clear, accessVars
<1>2. ASSUME NEW d \in Doors, Menu(d)
      PROVE  UNCHANGED <<people, rights, wire, slot, seq, mishaps, todo>>
  <2>1. CASE Load(d) BY <2>1 DEF Load
  <2>2. CASE ~Load(d)
    BY <1>2, <2>2 DEF Menu, Browse, Select, CheckVm, CheckGrant, CheckCred, BridgeEnds, accessVars
  <2>3. QED BY <2>1, <2>2
<1>3. QED BY <1>1, <1>2 DEF WindowPasses, MachineChanges, accessVars

LEMMA Still ==
  ASSUME SlotsInv, UNCHANGED <<wire, slot, seq, todo>>
  PROVE  SlotsInv' /\ (TicketInv => TicketInv')
BY DEF SlotsInv, TicketInv, MintInv, StoreInv, ShownInv, OpenInv, TicketOnce, wire, Shows, Presented,
       Bare

(* Every other step of AccessNext is one handler's turn.                   *)
LEMMA ClientTurns ==
  ASSUME SlotsInv, NEW c \in Clients, (Visit(c) /\ ~Consume(c)) \/ Manage(c) \/ Entitle(c)
  PROVE  Turn(c) /\ (Calm(c) \/ DeleteGroup(c) \/ DropMembers(c) \/ DropGrants(c))
BY AuthTurns, IdentityTurns, VisibleTurns, IssueTurns, UsersTurn, GroupsTurn, EntitleTurns
   DEF Visit, Manage

LEMMA TurnSlots == ASSUME SlotsInv, NEW c \in Clients, Moved(c), Fits(slot'[c]) PROVE SlotsInv'
BY DEF SlotsInv, Moved

LEMMA Wired ==
  ASSUME NEW c \in Clients, Visit(c) \/ Manage(c) \/ Entitle(c)
  PROVE  Consume(c) \/ Issue(c) \/ Open(c) \/ UNCHANGED wire
<1>1. CASE Visit(c)
  BY <1>1 DEF Visit, Auth, Identity, Direct, MyGroups, GroupsGrants
<1>2. CASE Manage(c)
  BY <1>2 DEF Manage, CreateUser, FindUser, SaveUser, CreateGroup, DeleteGroup, DropMembers, DropGrants,
              FindGroup, ReplaceMembers
<1>3. CASE Entitle(c)
  BY <1>3 DEF Entitle, ReadGrant, Upsert, Revoke, Apply, CountPending, File, ReadRequest, Decide
<1>4. QED BY <1>1, <1>2, <1>3

LEMMA TicketStep ==
  ASSUME SlotsInv, TicketInv, [JumpNext]_allVars PROVE SlotsInv' /\ TicketInv'
<1>1. CASE UNCHANGED allVars BY <1>1, Still DEF allVars, accessVars
<1>2. CASE (\E d \in Doors : LogIn(d) \/ Menu(d)) \/ WindowPasses \/ MachineChanges
  BY <1>2, DoorsApart, Still
<1>3. ASSUME NEW c \in Clients, Visit(c) \/ Manage(c) \/ Entitle(c) PROVE SlotsInv' /\ TicketInv'
  <2>1. CASE Consume(c) BY <2>1, ConsumeTickets, TurnSlots
  <2>2. CASE ~Consume(c)
    <3>1. Turn(c) BY <1>3, <2>2, ClientTurns
    <3>2. SlotsInv' /\ Hides /\ seq' \in Nat /\ seq' >= seq
      BY <3>1, TurnSlots, TurnHides DEF Turn, Moved
    <3>3. QED BY <1>3, <2>2, <3>2, Wired, IssueTickets, OpenTickets, QuietTickets
  <2>3. QED BY <2>1, <2>2
<1>4. CASE HourPasses
  <2>1. UNCHANGED wire /\ seq' = seq BY <1>4 DEF HourPasses
  <2>2. SlotsInv' /\ Hides BY <1>4, HourSlots
  <2>3. seq' \in Nat /\ seq' >= seq BY <2>1 DEF SlotsInv
  <2>4. QED BY <2>1, <2>2, <2>3, QuietTickets
<1>5. CASE TicketAges
  <2>1. UNCHANGED <<slot, seq, todo>> BY <1>5 DEF TicketAges
  <2>2. QED BY <1>5, <2>1, AgeTickets DEF SlotsInv
<1>6. QED BY <1>1, <1>2, <1>3, <1>4, <1>5 DEF JumpNext, AccessNext

LEMMA TicketStart == JumpInit => SlotsInv /\ TicketInv
<1> SUFFICES ASSUME JumpInit PROVE SlotsInv /\ TicketInv OBVIOUS
<1>1. PICK scene \in AccessMixes : AccessInit(scene) BY DEF JumpInit
<1>2. /\ slot = [c \in Clients |-> Free] /\ todo = scene.todo /\ seq = 1
      /\ ticket = {} /\ minted = {} /\ open = <<>>
  BY <1>1 DEF AccessInit
<1>3. SlotsInv BY <1>2, FreeSlot, SceneAssumption DEF SlotsInv, Fits, Guarded, Granting
<1>4. TicketInv
  <2>1. MintInv /\ StoreInv BY <1>2 DEF MintInv, StoreInv
  <2>2. ShownInv BY <1>2, FreeSlot DEF ShownInv, Shows
  <2>3. OpenInv BY <1>2 DEF OpenInv, TicketOnce
  <2>4. QED BY <2>1, <2>2, <2>3 DEF TicketInv
<1>5. QED BY <1>3, <1>4

(* A ticket opens one socket, for the user who got it and the machine it   *)
(* was minted for, however often it is presented (service/wsticket/store.go *)
(* Issue and Consume, middleware/jwt.go AuthMiddleware).                   *)
THEOREM TicketsOpenOnce == JumpSpec => []TicketOnce
<1>1. SlotsInv /\ TicketInv /\ [JumpNext]_allVars => SlotsInv' /\ TicketInv' BY TicketStep
<1>2. SlotsInv /\ TicketInv => TicketOnce BY DEF TicketInv, OpenInv
<1>3. QED BY TicketStart, <1>1, <1>2, PTL DEF JumpSpec

(***************************************************************************)
(* Groups that are gone.                                                   *)
(***************************************************************************)
Joined(g) == \E u \in Users : <<g, u>> \in member
Granted(g) == \E v \in Machines : Live(groupGrant[g][v])
Dropping(g, place) == \E c \in Clients : slot[c].at = place /\ slot[c].q.g = g

(* Once the cascade is past its members, members that are left cost a      *)
(* mishap; once it is over, so do grants, and both together cost two.      *)
Paid(g) == group[g] = "gone" /\ ~Dropping(g, "dropMembers") =>
  /\ Joined(g) => mishaps >= 1
  /\ ~Dropping(g, "dropGrants") =>
       /\ Granted(g) => mishaps >= 1
       /\ Joined(g) /\ Granted(g) => mishaps >= 2

IsRow(r) == r = [id |-> r.id, left |-> r.left]
GhostInv ==
  /\ mishaps \in Nat
  /\ group \in [Groups -> {"unborn", "here", "gone"}]
  /\ groupGrant = [g \in Groups |-> [v \in Machines |-> groupGrant[g][v]]]
  /\ \A g \in Groups, v \in Machines : IsRow(groupGrant[g][v])
  /\ \A g \in Groups : Paid(g)

(* A step that leaves a group as it was, or adds to its members or to its  *)
(* grants, not to both, and is counted.                                    *)
Tame(g) ==
  /\ (group[g] = "gone")' => group[g] = "gone"
  /\ \A p \in Drops : Dropping(g, p)' <=> Dropping(g, p)
  /\ \/ (Joined(g)' => Joined(g)) /\ (Granted(g)' => Granted(g)) /\ mishaps' >= mishaps
     \/ ((Joined(g)' => Joined(g)) \/ (Granted(g)' => Granted(g))) /\ mishaps' = mishaps + 1
     \/ (group[g] # "gone")'

LEMMA TamePaid ==
  ASSUME NEW g \in Groups, Paid(g), Tame(g), mishaps \in Nat, mishaps' \in Nat PROVE Paid(g)'
<1>1. SUFFICES ASSUME (group[g] = "gone")', ~Dropping(g, "dropMembers")'
      PROVE  /\ Joined(g)' => mishaps' >= 1
             /\ ~Dropping(g, "dropGrants")' =>
                  /\ Granted(g)' => mishaps' >= 1
                  /\ Joined(g)' /\ Granted(g)' => mishaps' >= 2
  BY DEF Paid
<1>2. group[g] = "gone" /\ ~Dropping(g, "dropMembers")
      /\ (Dropping(g, "dropGrants")' <=> Dropping(g, "dropGrants"))
  BY <1>1 DEF Tame, Drops
<1>3. PICK J, K, L, M : J = Joined(g)' /\ K = Joined(g) /\ L = Granted(g)' /\ M = Granted(g) OBVIOUS
<1>4. /\ (K => mishaps >= 1)
      /\ ~Dropping(g, "dropGrants") => (M => mishaps >= 1) /\ (K /\ M => mishaps >= 2)
  BY <1>2, <1>3 DEF Paid
<1>5. \/ (J => K) /\ (L => M) /\ mishaps' >= mishaps
      \/ ((J => K) \/ (L => M)) /\ mishaps' = mishaps + 1
  BY <1>1, <1>3 DEF Tame
<1>6. QED BY <1>2, <1>3, <1>4, <1>5

LEMMA CalmDrops ==
  ASSUME NEW c \in Clients, NEW g, Moved(c), Calm(c)
  PROVE  \A p \in Drops : Dropping(g, p)' <=> Dropping(g, p)
BY DEF Moved, Calm, Dropping

(* The rows of a group's grants after one of them was written.             *)
LEMMA OneGrant ==
  ASSUME GhostInv, NEW g, NEW v, NEW r, IsRow(r) \/ g \notin Groups \/ v \notin Machines,
         groupGrant' = [groupGrant EXCEPT ![g][v] = r]
  PROVE  /\ groupGrant' = [h \in Groups |-> [w \in Machines |-> groupGrant'[h][w]]]
         /\ \A h \in Groups, w \in Machines : IsRow(groupGrant'[h][w])
         /\ \A h \in Groups \ {g}, w \in Machines : groupGrant'[h][w] = groupGrant[h][w]
         /\ g \in Groups => \A w \in Machines : groupGrant'[g][w] \in {r, groupGrant[g][w]}
<1>1. ASSUME NEW h \in Groups, NEW w \in Machines
      PROVE  groupGrant'[h][w] = IF h = g /\ w = v THEN r ELSE groupGrant[h][w]
  BY <1>1 DEF GhostInv
<1>2. groupGrant' = [h \in Groups |-> [w \in Machines |-> groupGrant'[h][w]]]
  BY DEF GhostInv
<1>3. QED BY <1>1, <1>2 DEF GhostInv

(* What is left to show of a step once the groups' states and the shape of *)
(* their grants are kept.                                                  *)
LEMMA GhostFrom ==
  ASSUME GhostInv, mishaps' \in Nat, group' \in [Groups -> {"unborn", "here", "gone"}],
         groupGrant' = [g \in Groups |-> [v \in Machines |-> groupGrant'[g][v]]],
         \A g \in Groups, v \in Machines : IsRow(groupGrant'[g][v]),
         \A g \in Groups : Tame(g) \/ Paid(g)'
  PROVE  GhostInv'
<1>1. ASSUME NEW g \in Groups PROVE Paid(g)' BY TamePaid DEF GhostInv
<1>2. QED BY <1>1 DEF GhostInv

LEMMA GrantsStill ==
  ASSUME GhostInv, groupGrant' = groupGrant
  PROVE  /\ groupGrant' = [g \in Groups |-> [v \in Machines |-> groupGrant'[g][v]]]
         /\ \A g \in Groups, v \in Machines : IsRow(groupGrant'[g][v])
         /\ \A g \in Groups : Granted(g)' <=> Granted(g)
BY DEF GhostInv, Granted, Live

LEMMA GhostStill ==
  ASSUME GhostInv, UNCHANGED <<group, member, groupGrant, mishaps>>,
         \A g \in Groups : \A p \in Drops : Dropping(g, p)' <=> Dropping(g, p)
  PROVE  GhostInv'
<1>1. ASSUME NEW g \in Groups PROVE Tame(g)
  BY GrantsStill DEF Tame, Joined, GhostInv
<1>2. QED BY <1>1, GhostFrom, GrantsStill DEF GhostInv

LEMMA CreateGhosts ==
  ASSUME SlotsInv, GhostInv, NEW c \in Clients, CreateGroup(c) PROVE GhostInv'
<1>1. /\ group' = [group EXCEPT ![slot[c].q.g] = IF @ = "unborn" THEN "here" ELSE @]
      /\ UNCHANGED <<member, groupGrant, mishaps>>
  BY DEF CreateGroup, rights
<1>2. Moved(c) /\ Calm(c) BY GroupsTurn DEF Turn
<1>3. group' \in [Groups -> {"unborn", "here", "gone"}]
      /\ \A g \in Groups : group'[g] = "gone" => group[g] = "gone"
  BY <1>1 DEF GhostInv
<1>4. ASSUME NEW g \in Groups PROVE Tame(g)
  BY <1>1, <1>2, <1>3, CalmDrops, GrantsStill DEF Tame, Joined, GhostInv
<1>5. QED BY <1>1, <1>3, <1>4, GhostFrom, GrantsStill DEF GhostInv

LEMMA ReplaceGhosts ==
  ASSUME SlotsInv, GhostInv, NEW c \in Clients, ReplaceMembers(c) PROVE GhostInv'
<1> DEFINE q == slot[c].q
<1>1. /\ member' = {m \in member : m[1] # q.g} \union ({q.g} \X q.who)
      /\ mishaps' = mishaps + (IF group[q.g] = "gone" THEN 1 ELSE 0)
      /\ UNCHANGED <<group, groupGrant>>
  BY DEF ReplaceMembers, Astray, rights
<1>2. Moved(c) /\ Calm(c) BY GroupsTurn DEF Turn
<1>3. mishaps' \in Nat /\ (group[q.g] = "gone" => mishaps' = mishaps + 1) /\ mishaps' >= mishaps
  BY <1>1 DEF GhostInv
<1>4. ASSUME NEW g \in Groups PROVE Tame(g)
  <2>1. \A p \in Drops : Dropping(g, p)' <=> Dropping(g, p) BY <1>2, CalmDrops
  <2>2. Granted(g)' <=> Granted(g) BY <1>1, GrantsStill
  <2>3. CASE g # q.g
    <3>1. Joined(g)' => Joined(g) BY <1>1, <2>3 DEF Joined
    <3>2. QED BY <1>1, <1>3, <2>1, <2>2, <3>1 DEF Tame
  <2>4. CASE g = q.g BY <1>1, <1>3, <2>1, <2>2, <2>4 DEF Tame
  <2>5. QED BY <2>3, <2>4
<1>5. QED BY <1>1, <1>3, <1>4, GhostFrom, GrantsStill DEF GhostInv

LEMMA UpsertRow ==
  ASSUME GhostInv, NEW c \in Clients, slot[c].q.g \in Groups, slot[c].q.v \in Machines, slot[c].q.op # "grant",
         slot[c].q.op # "revoke"
  PROVE  IsRow(Upserted(RowFor(slot[c].q), slot[c].row, slot[c].left))
<1> DEFINE q == slot[c].q
<1>1. PICK now : now = RowFor(q) OBVIOUS
<1>2. IsRow(now) BY <1>1 DEF RowFor, GhostInv
<1>3. PICK hours : hours = slot[c].left OBVIOUS
<1>4. IsRow([id |-> seq + 1, left |-> hours]) /\ IsRow([now EXCEPT !.left = hours]) BY <1>2 DEF IsRow
<1>5. QED BY <1>1, <1>2, <1>3, <1>4 DEF Upserted

LEMMA UpsertGhosts ==
  ASSUME SlotsInv, GhostInv, NEW c \in Clients, Upsert(c) PROVE GhostInv'
<1> DEFINE q == slot[c].q
           row == Upserted(RowFor(q), slot[c].row, slot[c].left)
<1>1. Moved(c) /\ Calm(c) BY EntitleTurns DEF Turn, Entitle
<1>2. group' = group /\ member' = member BY DEF Upsert, people
<1>3. CASE groupGrant' = groupGrant /\ mishaps' = mishaps
  BY <1>1, <1>2, <1>3, CalmDrops, GhostStill
<1>4. CASE ~(groupGrant' = groupGrant /\ mishaps' = mishaps)
  <2>1. groupGrant' = [groupGrant EXCEPT ![q.g][q.v] = row]
        /\ mishaps' = mishaps + (IF group[q.g] = "gone" THEN 1 ELSE 0)
        /\ q.op # "grant"
    BY <1>4 DEF Upsert, Astray
  <2>2. mishaps' \in Nat /\ (group[q.g] = "gone" => mishaps' = mishaps + 1) /\ mishaps' >= mishaps
    BY <2>1 DEF GhostInv
  <2>3. /\ groupGrant' = [g \in Groups |-> [v \in Machines |-> groupGrant'[g][v]]]
        /\ \A g \in Groups, v \in Machines : IsRow(groupGrant'[g][v])
        /\ \A g \in Groups \ {q.g}, v \in Machines : groupGrant'[g][v] = groupGrant[g][v]
    <3>1. slot[c].at = "upsert" BY DEF Upsert
    <3>2. q.op = "groupGrant" BY <2>1, <3>1 DEF SlotsInv, Fits, Granting
    <3>3. PICK r : r = row OBVIOUS
    <3>4. IsRow(r) \/ q.g \notin Groups \/ q.v \notin Machines BY <3>2, <3>3, UpsertRow
    <3>5. groupGrant' = [groupGrant EXCEPT ![q.g][q.v] = r] BY <2>1, <3>3
    <3>6. QED BY <3>4, <3>5, OneGrant
  <2>4. ASSUME NEW g \in Groups PROVE Tame(g)
    <3>1. \A p \in Drops : Dropping(g, p)' <=> Dropping(g, p) BY <1>1, CalmDrops
    <3>2. Joined(g)' <=> Joined(g) BY <1>2 DEF Joined
    <3>3. CASE g # q.g
      <4>1. Granted(g)' => Granted(g) BY <2>3, <3>3 DEF Granted, Live
      <4>2. QED BY <1>2, <2>2, <3>1, <3>2, <4>1 DEF Tame
    <3>4. CASE g = q.g BY <1>2, <2>2, <3>1, <3>2, <3>4 DEF Tame
    <3>5. QED BY <3>3, <3>4
  <2>5. QED BY <1>2, <2>2, <2>3, <2>4, GhostFrom DEF GhostInv
<1>5. QED BY <1>3, <1>4

LEMMA RevokeGhosts ==
  ASSUME SlotsInv, GhostInv, NEW c \in Clients, Revoke(c) PROVE GhostInv'
<1> DEFINE q == slot[c].q
<1>1. Moved(c) /\ Calm(c) BY EntitleTurns DEF Turn, Entitle
<1>2. group' = group /\ member' = member /\ mishaps' = mishaps BY DEF Revoke, people
<1>3. CASE groupGrant' = groupGrant BY <1>1, <1>2, <1>3, CalmDrops, GhostStill
<1>4. CASE groupGrant' = [groupGrant EXCEPT ![q.g][q.v] = NoRow]
  <2>1. IsRow(NoRow) /\ ~Live(NoRow) BY DEF IsRow, NoRow, Live
  <2>2. PICK r : r = NoRow OBVIOUS
  <2>3. /\ groupGrant' = [h \in Groups |-> [w \in Machines |-> groupGrant'[h][w]]]
        /\ \A h \in Groups, w \in Machines : IsRow(groupGrant'[h][w])
        /\ \A h \in Groups, w \in Machines : groupGrant'[h][w] \in {r, groupGrant[h][w]}
    BY <1>4, <2>1, <2>2, OneGrant
  <2>4. ASSUME NEW g \in Groups PROVE Tame(g)
    <3>1. \A p \in Drops : Dropping(g, p)' <=> Dropping(g, p) BY <1>1, CalmDrops
    <3>2. Granted(g)' => Granted(g) BY <2>1, <2>2, <2>3 DEF Granted, Live
    <3>3. Joined(g)' <=> Joined(g) BY <1>2 DEF Joined
    <3>4. mishaps' >= mishaps BY <1>2 DEF GhostInv
    <3>5. QED BY <1>2, <3>1, <3>2, <3>3, <3>4 DEF Tame
  <2>5. QED BY <1>2, <2>3, <2>4, GhostFrom DEF GhostInv
<1>5. QED BY <1>3, <1>4 DEF Revoke

LEMMA DeleteGhosts ==
  ASSUME SlotsInv, GhostInv, NEW c \in Clients, DeleteGroup(c) PROVE GhostInv'
<1> DEFINE g == slot[c].q.g
<1>1. /\ slot[c].at = "deleteGroup"
      /\ group' = [group EXCEPT ![g] = IF @ = "here" THEN "gone" ELSE @]
      /\ IF group[g] = "here" THEN To(c, "dropMembers") ELSE Answer(c)
      /\ UNCHANGED <<member, groupGrant, mishaps, seq, todo>>
  BY DEF DeleteGroup, rights
<1>2. /\ Moved(c) 
      /\ group[g] = "here" => slot'[c].at = "dropMembers" /\ slot'[c].q.g = g
      /\ group[g] # "here" => slot'[c] = Free
  BY <1>1, StayPut, Placed, Answered DEF Turn
<1>3. group' \in [Groups -> {"unborn", "here", "gone"}] BY <1>1 DEF GhostInv
<1>4. ASSUME NEW h \in Groups PROVE Tame(h) \/ Paid(h)'
  <2>1. CASE h = g /\ group[g] = "here"
    <3>1. Dropping(h, "dropMembers")' BY <1>2, <2>1 DEF Dropping
    <3>2. QED BY <3>1 DEF Paid
  <2>2. CASE ~(h = g /\ group[g] = "here")
    <3>1. (group[h] = "gone")' => group[h] = "gone" BY <1>1, <2>2 DEF GhostInv
    <3>2. \A p \in Drops : Dropping(h, p)' <=> Dropping(h, p)
      BY <1>1, <1>2, <2>2, FreeSlot DEF Dropping, Drops, Moved
    <3>3. QED BY <1>1, <3>1, <3>2, GrantsStill DEF Tame, Joined, GhostInv
  <2>3. QED BY <2>1, <2>2
<1>5. QED BY <1>1, <1>3, <1>4, GhostFrom, GrantsStill DEF GhostInv

(* The cascade of another group.                                           *)
LEMMA OtherCascade ==
  ASSUME NEW c \in Clients, NEW g, slot[c].q.g # g, Moved(c),
         slot'[c].at \notin Drops \/ slot'[c].q.g = slot[c].q.g
  PROVE  \A p \in Drops : Dropping(g, p)' <=> Dropping(g, p)
BY DEF Moved, Dropping, Drops

LEMMA MembersGhosts ==
  ASSUME SlotsInv, GhostInv, NEW c \in Clients, DropMembers(c) PROVE GhostInv'
<1> DEFINE g == slot[c].q.g
<1>1. /\ slot[c].at = "dropMembers" /\ To(c, "dropGrants")
      /\ \/ mishaps' = mishaps /\ member' = {m \in member : m[1] # g}
         \/ mishaps' = mishaps + 1 /\ member' = member
      /\ UNCHANGED <<group, groupGrant, seq, todo>>
  BY DEF DropMembers, Works, Faulty, rights
<1>2. Moved(c) /\ slot'[c].at = "dropGrants" /\ slot'[c].q.g = g
  BY <1>1, StayPut, Placed
<1>3. mishaps' \in Nat /\ mishaps' >= mishaps BY <1>1 DEF GhostInv
<1>4. ASSUME NEW h \in Groups PROVE Tame(h) \/ Paid(h)'
  <2>1. Joined(h)' => Joined(h) BY <1>1 DEF Joined
  <2>2. CASE h = g
    <3>1. Dropping(h, "dropGrants")' BY <1>2, <2>2 DEF Dropping
    <3>2. Joined(h)' => mishaps' >= 1 BY <1>1, <2>2 DEF Joined, GhostInv
    <3>3. QED BY <3>1, <3>2 DEF Paid
  <2>3. CASE h # g
    <3>1. \A p \in Drops : Dropping(h, p)' <=> Dropping(h, p) BY <1>2, <2>3, OtherCascade
    <3>2. QED BY <1>1, <1>3, <2>1, <3>1, GrantsStill DEF Tame
  <2>4. QED BY <2>2, <2>3
<1>5. QED BY <1>1, <1>3, <1>4, GhostFrom, GrantsStill DEF GhostInv

LEMMA GrantsGhosts ==
  ASSUME SlotsInv, GhostInv, NEW c \in Clients, DropGrants(c) PROVE GhostInv'
<1>0. PICK g : g = slot[c].q.g OBVIOUS
<1>1. /\ slot[c].at = "dropGrants" /\ Answer(c)
      /\ \/ mishaps' = mishaps /\ groupGrant' = [groupGrant EXCEPT ![g] = [v \in Machines |-> NoRow]]
         \/ mishaps' = mishaps + 1 /\ groupGrant' = groupGrant
      /\ UNCHANGED <<group, member, seq, todo>>
  BY <1>0 DEF DropGrants, Works, Faulty, people
<1>2. Moved(c) /\ slot'[c].at \notin Drops BY <1>1, StayPut, Answered, FreeSlot DEF Turn, Drops
<1>3. mishaps' \in Nat /\ mishaps' >= mishaps BY <1>1 DEF GhostInv
<1>4. /\ groupGrant' = [h \in Groups |-> [w \in Machines |-> groupGrant'[h][w]]]
      /\ \A h \in Groups, w \in Machines : IsRow(groupGrant'[h][w])
      /\ \A h \in Groups : Granted(h)' => Granted(h)
      /\ mishaps' = mishaps /\ g \in Groups => ~Granted(g)'
  <2>1. CASE groupGrant' = groupGrant /\ mishaps' = mishaps + 1
    BY <2>1, GrantsStill DEF GhostInv
  <2>2. CASE groupGrant' = [groupGrant EXCEPT ![g] = [v \in Machines |-> NoRow]]
    <3>1. IsRow(NoRow) /\ ~Live(NoRow) BY DEF IsRow, NoRow, Live
    <3>2. PICK r : r = NoRow OBVIOUS
    <3>3. \A h \in Groups, w \in Machines :
            groupGrant'[h][w] = IF h = g THEN r ELSE groupGrant[h][w]
      BY <2>2, <3>2 DEF GhostInv
    <3>4. groupGrant' = [h \in Groups |-> [w \in Machines |-> groupGrant'[h][w]]]
      BY <2>2 DEF GhostInv
    <3>5. \A h \in Groups, w \in Machines : IsRow(groupGrant'[h][w])
      BY <3>1, <3>2, <3>3 DEF GhostInv
    <3>6. \A h \in Groups : Granted(h)' => Granted(h) /\ h # g
      BY <3>1, <3>2, <3>3 DEF Granted, Live
    <3>7. QED BY <3>4, <3>5, <3>6
  <2>3. QED BY <1>1, <2>1, <2>2
<1>5. ASSUME NEW h \in Groups PROVE Tame(h) \/ Paid(h)'
  <2>1. Joined(h)' <=> Joined(h) BY <1>1 DEF Joined
  <2>2. CASE h = g
    <3>1. SUFFICES ASSUME (group[h] = "gone")', ~Dropping(h, "dropMembers")'
          PROVE  /\ Joined(h)' => mishaps' >= 1
                 /\ Granted(h)' => mishaps' >= 1
                 /\ Joined(h)' /\ Granted(h)' => mishaps' >= 2
      BY DEF Paid
    <3>2. group[h] = "gone" /\ ~Dropping(h, "dropMembers")
      BY <1>0, <1>1, <1>2, <3>1 DEF Dropping, Moved
    <3>3. Joined(h) => mishaps >= 1 BY <3>2 DEF GhostInv, Paid
    <3>4. PICK J, L : J = Joined(h)' /\ L = Granted(h)' OBVIOUS
    <3>5. J => mishaps >= 1 BY <2>1, <3>3, <3>4
    <3>m. L => mishaps' = mishaps + 1
      <4>1. CASE mishaps' = mishaps /\ g \in Groups BY <1>4, <2>2, <3>4, <4>1
      <4>2. CASE mishaps' = mishaps + 1 BY <4>2
      <4>3. QED BY <1>1, <2>2, <4>1, <4>2
    <3>6. QED BY <1>3, <3>4, <3>5, <3>m DEF GhostInv
  <2>3. CASE h # g
    <3>1. \A p \in Drops : Dropping(h, p)' <=> Dropping(h, p) BY <1>0, <1>2, <2>3, OtherCascade
    <3>2. QED BY <1>1, <1>3, <1>4, <2>1, <3>1 DEF Tame
  <2>4. QED BY <2>2, <2>3
<1>6. QED BY <1>1, <1>3, <1>4, <1>5, GhostFrom DEF GhostInv

LEMMA HourGhosts == ASSUME SlotsInv, GhostInv, HourPasses PROVE GhostInv'
<1>1. /\ groupGrant' = [g \in Groups |-> [v \in Machines |-> [groupGrant[g][v] EXCEPT !.left = Later(@)]]]
      /\ UNCHANGED <<group, member, mishaps>>
  BY DEF HourPasses, people
<1>2. ASSUME NEW g \in Groups, NEW v \in Machines
      PROVE  IsRow(groupGrant'[g][v]) /\ (Live(groupGrant'[g][v]) => Live(groupGrant[g][v]))
  <2>1. PICK r : r = groupGrant[g][v] OBVIOUS
  <2>2. groupGrant'[g][v] = [r EXCEPT !.left = Later(r.left)] BY <1>1, <2>1
  <2>3. PICK n : n = Later(r.left) OBVIOUS
  <2>4. IsRow(r) BY <2>1 DEF GhostInv
  <2>5. groupGrant'[g][v] = [r EXCEPT !.left = n] BY <2>2, <2>3
  <2>6. IsRow(groupGrant'[g][v]) /\ groupGrant'[g][v].left = n BY <2>4, <2>5 DEF IsRow
  <2>7. n > 0 => r.left > 0 BY <2>3, AccessAssumption DEF Later
  <2>8. QED BY <2>1, <2>6, <2>7 DEF Live
<1>3. groupGrant' = [g \in Groups |-> [v \in Machines |-> groupGrant'[g][v]]] BY <1>1
<1>4. \A c \in Clients : slot'[c].at = slot[c].at /\ slot'[c].q = slot[c].q BY HourSlots
<1>5. ASSUME NEW g \in Groups PROVE Tame(g)
  <2>1. \A p \in Drops : Dropping(g, p)' <=> Dropping(g, p) BY <1>4 DEF Dropping
  <2>2. Granted(g)' => Granted(g) BY <1>2 DEF Granted
  <2>3. Joined(g)' <=> Joined(g) BY <1>1 DEF Joined
  <2>4. mishaps' >= mishaps BY <1>1 DEF GhostInv
  <2>5. QED BY <1>1, <2>1, <2>2, <2>3, <2>4 DEF Tame
<1>6. QED BY <1>1, <1>2, <1>3, <1>5, GhostFrom DEF GhostInv

(* Every other handler's step leaves the groups alone.                     *)
LEMMA GroupsApart ==
  ASSUME NEW c \in Clients, Visit(c) \/ Manage(c) \/ Entitle(c)
  PROVE  \/ CreateGroup(c) \/ DeleteGroup(c) \/ DropMembers(c) \/ DropGrants(c) \/ ReplaceMembers(c)
         \/ Upsert(c) \/ Revoke(c)
         \/ UNCHANGED <<group, member, groupGrant, mishaps>>
<1>1. CASE Visit(c)
  BY <1>1 DEF Visit, Auth, Consume, Identity, Direct, MyGroups, GroupsGrants, Issue, Open, people, rights
<1>2. CASE Manage(c)
  BY <1>2 DEF Manage, CreateUser, FindUser, SaveUser, FindGroup, people, rights
<1>3. CASE Entitle(c)
  BY <1>3 DEF Entitle, ReadGrant, Apply, CountPending, File, ReadRequest, Decide, people, rights
<1>4. QED BY <1>1, <1>2, <1>3

LEMMA GhostStep == ASSUME SlotsInv, TicketInv, GhostInv, [JumpNext]_allVars PROVE GhostInv'
<1>1. ASSUME UNCHANGED <<people, rights, mishaps, slot>> PROVE GhostInv'
  BY <1>1, GhostStill DEF people, rights, Dropping
<1>2. CASE UNCHANGED allVars BY <1>1, <1>2 DEF allVars, accessVars
<1>3. CASE (\E d \in Doors : LogIn(d) \/ Menu(d)) \/ WindowPasses \/ MachineChanges
  BY <1>1, <1>3, DoorsApart
<1>4. ASSUME NEW c \in Clients, Visit(c) \/ Manage(c) \/ Entitle(c) PROVE GhostInv'
  <2>1. CASE \/ CreateGroup(c) \/ DeleteGroup(c) \/ DropMembers(c) \/ DropGrants(c) \/ ReplaceMembers(c)
             \/ Upsert(c) \/ Revoke(c)
    BY <2>1, CreateGhosts, DeleteGhosts, MembersGhosts, GrantsGhosts, ReplaceGhosts, UpsertGhosts, RevokeGhosts
  <2>2. CASE ~(\/ CreateGroup(c) \/ DeleteGroup(c) \/ DropMembers(c) \/ DropGrants(c) \/ ReplaceMembers(c)
               \/ Upsert(c) \/ Revoke(c))
    <3>1. UNCHANGED <<group, member, groupGrant, mishaps>> BY <1>4, <2>2, GroupsApart
    <3>2. Moved(c) /\ Calm(c)
      <4>1. CASE Consume(c) BY <4>1, ConsumeTickets
      <4>2. CASE ~Consume(c) BY <1>4, <2>2, <4>2, ClientTurns DEF Turn
      <4>3. QED BY <4>1, <4>2
    <3>3. QED BY <3>1, <3>2, CalmDrops, GhostStill
  <2>3. QED BY <2>1, <2>2
<1>5. CASE HourPasses BY <1>5, HourGhosts
<1>6. CASE TicketAges BY <1>1, <1>6 DEF TicketAges
<1>7. QED BY <1>2, <1>3, <1>4, <1>5, <1>6 DEF JumpNext, AccessNext

LEMMA GhostStart == JumpInit => GhostInv
<1> SUFFICES ASSUME JumpInit PROVE GhostInv OBVIOUS
<1>1. PICK scene \in AccessMixes : AccessInit(scene) BY DEF JumpInit
<1>2. /\ mishaps = 0 /\ group = scene.group
      /\ groupGrant = [g \in Groups |-> [v \in Machines |->
                         IF <<g, v>> \in scene.granted THEN [id |-> 1, left |-> Forever] ELSE NoRow]]
  BY <1>1 DEF AccessInit
<1>3. \A g \in Groups : group[g] # "gone" BY <1>2, SceneAssumption
<1>4. \A g \in Groups : Paid(g) BY <1>3 DEF Paid
<1>5. group \in [Groups -> {"unborn", "here", "gone"}] BY <1>2, SceneAssumption
<1>6. \A g \in Groups, v \in Machines : IsRow(groupGrant[g][v])
  <2>1. IsRow([id |-> 1, left |-> Forever]) /\ IsRow(NoRow) BY DEF IsRow, NoRow
  <2>2. QED BY <1>2, <2>1
<1>7. groupGrant = [g \in Groups |-> [v \in Machines |-> groupGrant[g][v]]] BY <1>2
<1>8. QED BY <1>2, <1>4, <1>5, <1>6, <1>7 DEF GhostInv

LEMMA AccessInvHolds == JumpSpec => [](SlotsInv /\ TicketInv /\ GhostInv)
<1>1. SlotsInv /\ TicketInv /\ GhostInv /\ [JumpNext]_allVars => (SlotsInv /\ TicketInv /\ GhostInv)'
  BY TicketStep, GhostStep
<1>2. QED BY TicketStart, GhostStart, <1>1, PTL DEF JumpSpec

(* After a group is deleted nobody reaches a machine through it, unless    *)
(* two things went wrong (handler/user_group.go DeleteGroup and the        *)
(* handlers that had found the group before, handler/vm_grant.go).         *)
THEOREM NoAccessThroughTheDead == JumpSpec => []NoGhostAccess
<1>1. GhostInv => NoGhostAccess
  <2> SUFFICES ASSUME GhostInv, NEW u \in Users, NEW g \in Groups, Ghost(u, g),
                      \A c \in Clients : slot[c].at \notin Drops \/ slot[c].q.g # g
               PROVE  mishaps > 1
    BY DEF NoGhostAccess, Drops
  <2>1. ~Dropping(g, "dropMembers") /\ ~Dropping(g, "dropGrants") BY DEF Dropping, Drops
  <2>2. group[g] = "gone" /\ Joined(g) /\ Granted(g) BY DEF Ghost, Joined, Granted
  <2>3. QED BY <2>1, <2>2 DEF GhostInv, Paid
<1>2. QED BY AccessInvHolds, <1>1, PTL

(***************************************************************************)
(* The check before the bridge.                                            *)
(***************************************************************************)
RightsInv ==
  /\ grant = [u \in Users |-> [v \in Machines |-> grant[u][v]]]
  /\ \A u \in Users, v \in Machines : IsRow(grant[u][v])

(* A grant comes to life with a new id only.                               *)
Revives == \A u \in Users, v \in Machines :
  Live(grant'[u][v]) => Live(grant[u][v]) \/ seq' > seq

LEMMA OneRight ==
  ASSUME RightsInv, NEW u, NEW v, NEW r, u \in Users /\ v \in Machines => IsRow(r),
         grant' = [grant EXCEPT ![u][v] = r]
  PROVE  /\ RightsInv'
         /\ \A a \in Users, b \in Machines : grant'[a][b] = IF a = u /\ b = v THEN r ELSE grant[a][b]
<1>1. ASSUME NEW a \in Users, NEW b \in Machines
      PROVE  grant'[a][b] = IF a = u /\ b = v THEN r ELSE grant[a][b]
  BY <1>1 DEF RightsInv
<1>2. grant' = [a \in Users |-> [b \in Machines |-> grant'[a][b]]]
  BY DEF RightsInv
<1>3. QED BY <1>1, <1>2 DEF RightsInv

LEMMA RightsStill == ASSUME RightsInv, grant' = grant PROVE RightsInv' /\ Revives
BY DEF RightsInv, Revives, Live

LEMMA UpsertRights ==
  ASSUME SlotsInv, RightsInv, NEW c \in Clients, Upsert(c) PROVE RightsInv' /\ Revives
<1>0. PICK q : q = slot[c].q OBVIOUS
<1>1. PICK row : row = Upserted(RowFor(q), slot[c].row, slot[c].left) OBVIOUS
<1>2. CASE grant' = grant BY <1>2, RightsStill
<1>3. CASE grant' # grant
  <2>1. grant' = [grant EXCEPT ![q.u][q.v] = row] /\ q.op = "grant"
        /\ seq' = IF row = RowFor(q) THEN seq ELSE seq + 1
    BY <1>0, <1>1, <1>3 DEF Upsert
  <2>2. PICK now : now = grant[q.u][q.v] OBVIOUS
  <2>3. RowFor(q) = now BY <2>1, <2>2 DEF RowFor
  <2>4. ASSUME q.u \in Users, q.v \in Machines PROVE IsRow(row)
    <3>1. IsRow(now) BY <2>2, <2>4 DEF RightsInv
    <3>2. PICK hours : hours = slot[c].left OBVIOUS
    <3>3. IsRow([id |-> seq + 1, left |-> hours]) /\ IsRow([now EXCEPT !.left = hours]) BY <3>1 DEF IsRow
    <3>4. QED BY <1>1, <2>3, <3>1, <3>2, <3>3 DEF Upserted
  <2>5. /\ RightsInv'
        /\ \A a \in Users, b \in Machines : grant'[a][b] = IF a = q.u /\ b = q.v THEN row ELSE grant[a][b]
    <3>1. PICK u, v : u = q.u /\ v = q.v OBVIOUS
    <3>2. grant' = [grant EXCEPT ![u][v] = row] BY <2>1, <2>4, <3>1
    <3>3. u \in Users /\ v \in Machines => IsRow(row) BY <2>1, <2>4, <3>1
    <3>4. RightsInv' BY <3>2, <3>3, OneRight
    <3>5. ASSUME NEW a \in Users, NEW b \in Machines
          PROVE  grant'[a][b] = IF a = u /\ b = v THEN row ELSE grant[a][b]
      BY <3>2 DEF RightsInv
    <3>6. QED BY <3>1, <3>4, <3>5
  <2>6. Revives BY <2>1, <2>2, <2>3, <2>5 DEF Revives, SlotsInv
  <2>7. QED BY <2>5, <2>6
<1>4. QED BY <1>2, <1>3

LEMMA DecideRights ==
  ASSUME SlotsInv, RightsInv, NEW c \in Clients, Decide(c) PROVE RightsInv' /\ Revives
<1>1. CASE grant' = grant BY <1>1, RightsStill
<1>2. CASE grant' # grant
  <2>1. PICK r, hours :
          grant' = [grant EXCEPT ![r.user][r.vm] = Extended(@, hours)] /\ seq' = seq + 1
    BY <1>2 DEF Decide
  <2>2. PICK now : now = grant[r.user][r.vm] OBVIOUS
  <2>3. PICK row : row = Extended(now, hours) OBVIOUS
  <2>4. grant' = [grant EXCEPT ![r.user][r.vm] = row] BY <2>1, <2>2, <2>3
  <2>5. ASSUME r.user \in Users, r.vm \in Machines PROVE IsRow(row)
    <3>1. IsRow(now) BY <2>2, <2>5 DEF RightsInv
    <3>2. PICK rest : rest = IF now.left # Forever /\ now.left > hours THEN now.left ELSE hours OBVIOUS
    <3>3. IsRow([id |-> seq + 1, left |-> hours]) /\ IsRow([now EXCEPT !.left = rest]) BY <3>1 DEF IsRow
    <3>4. QED BY <2>3, <3>2, <3>3 DEF Extended
  <2>6. RightsInv' BY <2>4, <2>5, OneRight
  <2>7. Revives BY <2>1 DEF Revives, SlotsInv
  <2>8. QED BY <2>6, <2>7
<1>3. QED BY <1>1, <1>2

LEMMA RevokeRights ==
  ASSUME RightsInv, NEW c \in Clients, Revoke(c) PROVE RightsInv' /\ Revives
<1>0. PICK q : q = slot[c].q OBVIOUS
<1>1. CASE grant' = grant BY <1>1, RightsStill
<1>2. CASE grant' # grant
  <2>1. PICK r : r = NoRow OBVIOUS
  <2>2. IsRow(r) /\ ~Live(r) BY <2>1 DEF IsRow, NoRow, Live
  <2>3. grant' = [grant EXCEPT ![q.u][q.v] = r] BY <1>0, <1>2, <2>1 DEF Revoke
  <2>4. /\ RightsInv'
        /\ \A a \in Users, b \in Machines : grant'[a][b] = IF a = q.u /\ b = q.v THEN r ELSE grant[a][b]
    <3>1. PICK u, v : u = q.u /\ v = q.v OBVIOUS
    <3>2. grant' = [grant EXCEPT ![u][v] = r] BY <2>2, <2>3, <3>1
    <3>3. u \in Users /\ v \in Machines => IsRow(r) BY <2>2, <2>3, <3>1
    <3>4. RightsInv' BY <3>2, <3>3, OneRight
    <3>5. ASSUME NEW a \in Users, NEW b \in Machines
          PROVE  grant'[a][b] = IF a = u /\ b = v THEN r ELSE grant[a][b]
      BY <3>2 DEF RightsInv
    <3>6. QED BY <3>1, <3>4, <3>5
  <2>5. QED BY <2>2, <2>4 DEF Revives
<1>3. QED BY <1>1, <1>2

LEMMA HourRights == ASSUME RightsInv, HourPasses PROVE RightsInv' /\ Revives
<1>1. grant' = [u \in Users |-> [v \in Machines |-> [grant[u][v] EXCEPT !.left = Later(@)]]]
  BY DEF HourPasses
<1>2. ASSUME NEW u \in Users, NEW v \in Machines
      PROVE  IsRow(grant'[u][v]) /\ (Live(grant'[u][v]) => Live(grant[u][v]))
  <2>1. PICK r : r = grant[u][v] OBVIOUS
  <2>2. PICK n : n = Later(r.left) OBVIOUS
  <2>3. IsRow(r) /\ grant'[u][v] = [r EXCEPT !.left = n] BY <1>1, <2>1, <2>2 DEF RightsInv
  <2>4. IsRow(grant'[u][v]) /\ grant'[u][v].left = n BY <2>3 DEF IsRow
  <2>5. n > 0 => r.left > 0 BY <2>2, AccessAssumption DEF Later
  <2>6. QED BY <2>1, <2>4, <2>5 DEF Live
<1>3. grant' = [u \in Users |-> [v \in Machines |-> grant'[u][v]]] BY <1>1
<1>4. QED BY <1>2, <1>3 DEF RightsInv, Revives

LEMMA RightsStep ==
  ASSUME SlotsInv, RightsInv, [JumpNext]_allVars PROVE RightsInv' /\ Revives
<1>1. CASE UNCHANGED allVars BY <1>1, RightsStill DEF allVars, accessVars, rights
<1>2. CASE (\E d \in Doors : LogIn(d) \/ Menu(d)) \/ WindowPasses \/ MachineChanges
  BY <1>2, DoorsApart, RightsStill DEF rights
<1>3. ASSUME NEW c \in Clients, Visit(c) \/ Manage(c) \/ Entitle(c) PROVE RightsInv' /\ Revives
  <2>1. CASE Upsert(c) \/ Decide(c) \/ Revoke(c) BY <2>1, UpsertRights, DecideRights, RevokeRights
  <2>2. CASE Visit(c)
    BY <2>2, RightsStill DEF Visit, Auth, Consume, Identity, Direct, MyGroups, GroupsGrants, Issue, Open, rights
  <2>3. CASE Manage(c)
    BY <2>3, RightsStill DEF Manage, CreateUser, FindUser, SaveUser, CreateGroup, DeleteGroup, DropMembers,
       DropGrants, FindGroup, ReplaceMembers, rights
  <2>4. CASE ReadGrant(c) \/ Apply(c) \/ CountPending(c) \/ File(c) \/ ReadRequest(c)
    BY <2>4, RightsStill DEF ReadGrant, Apply, CountPending, File, ReadRequest, rights
  <2>5. QED BY <1>3, <2>1, <2>2, <2>3, <2>4 DEF Entitle
<1>4. CASE HourPasses BY <1>4, HourRights
<1>5. CASE TicketAges BY <1>5, RightsStill DEF TicketAges, rights
<1>6. QED BY <1>1, <1>2, <1>3, <1>4, <1>5 DEF JumpNext, AccessNext

(* A connection, with the fields of Shut.                                  *)
IsDoor(s) == s =
  [at |-> s.at, way |-> s.way, u |-> s.u, pass |-> s.pass, role |-> s.role, first |-> s.first, rows |-> s.rows,
   mine |-> s.mine, items |-> s.items, page |-> s.page, kw |-> s.kw, screen |-> s.screen, key |-> s.key,
   v |-> s.v, ok |-> s.ok, mark |-> s.mark]

(* From the key to the bridge: either the grant lived when the key was     *)
(* pressed, or one was given since, or there is none.                      *)
Checking == {"checkVm", "checkGrant", "checkCred"}
Sound(s) ==
  /\ IsDoor(s) /\ s.mark \in Nat
  /\ s.at # "off" => s.u \in Users
  /\ s.at \in Checking =>
       /\ s.v \in Machines /\ s.mark <= seq
       /\ s.ok \/ seq > s.mark \/ ~Live(grant[s.u][s.v])
  /\ s.at = "checkCred" /\ s.role # "admin" => s.ok \/ seq > s.mark
DoorsInv == door = [d \in Doors |-> door[d]] /\ \A d \in Doors : Sound(door[d])

LEMMA ShutSound == Sound(Shut)
BY DEF Sound, Shut, IsDoor, Checking

LEMMA OneDoor ==
  ASSUME DoorsInv, NEW d \in Doors, NEW s, door' = [door EXCEPT ![d] = s]
  PROVE  /\ door' = [e \in Doors |-> door'[e]] /\ door'[d] = s
         /\ \A e \in Doors \ {d} : door'[e] = door[e]
BY DEF DoorsInv

(* A place that is not on the way from the key to the bridge.              *)
LEMMA GoesSound ==
  ASSUME NEW s, NEW p, Sound(s), s.at # "off", p \notin Checking
  PROVE  Sound([s EXCEPT !.at = p])
<1>1. PICK r : r = [s EXCEPT !.at = p] OBVIOUS
<1>2. IsDoor(r) /\ r.at = p /\ r.u = s.u /\ r.mark = s.mark BY <1>1 DEF Sound, IsDoor
<1>3. Sound(r) BY <1>2 DEF Sound, Checking
<1>4. QED BY <1>1, <1>3

(* Nobody else's step opens the bridge or weakens what is known.           *)
LEMMA OthersSound ==
  ASSUME DoorsInv, SlotsInv, Revives, seq' \in Nat, seq' >= seq, NEW d \in Doors, door'[d] = door[d]
  PROVE  Sound(door[d])'
<1>1. PICK s : s = door[d] /\ s = door'[d] OBVIOUS
<1>2. Sound(s) BY <1>1 DEF DoorsInv
<1>3. s.at \in Checking => s.u \in Users BY <1>2 DEF Sound, Checking
<1>4. seq \in Nat BY DEF SlotsInv
<1>5. IsDoor(s) /\ s.mark \in Nat /\ (s.at # "off" => s.u \in Users) BY <1>2 DEF Sound
<1>6. s.at \in Checking =>
        s.v \in Machines /\ s.mark <= seq' /\ (s.ok \/ seq' > s.mark \/ ~Live(grant'[s.u][s.v]))
  <2> HAVE s.at \in Checking
  <2>1. s.u \in Users /\ s.v \in Machines /\ s.mark <= seq
        /\ (s.ok \/ seq > s.mark \/ ~Live(grant[s.u][s.v]))
    BY <1>2, <1>3 DEF Sound
  <2>2. Live(grant'[s.u][s.v]) => Live(grant[s.u][s.v]) \/ seq' > seq BY <2>1 DEF Revives
  <2>3. QED BY <1>4, <1>5, <2>1, <2>2
<1>7. s.at = "checkCred" /\ s.role # "admin" => s.ok \/ seq' > s.mark
  BY <1>2, <1>4, <1>5 DEF Sound
<1>8. QED BY <1>1, <1>5, <1>6, <1>7 DEF Sound, Live

(* A door's own step, the rights and ids being left alone.                 *)
LEMMA OwnStep ==
  ASSUME DoorsInv, SlotsInv, UNCHANGED <<grant, seq>>, NEW d \in Doors, NEW s, Sound(s),
         door' = [door EXCEPT ![d] = s]
  PROVE  DoorsInv' /\ door'[d] = s /\ \A e \in Doors \ {d} : door'[e] = door[e]
<1>1. /\ door' = [e \in Doors |-> door'[e]] /\ door'[d] = s
      /\ \A e \in Doors \ {d} : door'[e] = door[e]
  BY OneDoor
<1>2. \A e \in Doors : Sound(door'[e]) BY <1>1 DEF DoorsInv
<1>3. ASSUME NEW e \in Doors PROVE Sound(door[e])'
  BY <1>2 DEF Sound, Live
<1>4. QED BY <1>1, <1>3 DEF DoorsInv

(* What one connection's step comes to.                                    *)
Kept(d) ==
  /\ DoorsInv'
  /\ \A e \in Doors \ {d} : door'[e] = door[e]
  /\ door'[d].at = "bridge" => door[d].at \in {"bridge", "checkCred"}

LEMMA GoesKept ==
  ASSUME DoorsInv, SlotsInv, UNCHANGED <<grant, seq>>, NEW d \in Doors, door[d].at # "off",
         Shuts(d) \/ (\E p : Goes(d, p) /\ p \notin Checking \union {"bridge"})
  PROVE  Kept(d)
<1>1. CASE Shuts(d)
  <2>1. PICK s : s = Shut OBVIOUS
  <2>2. Sound(s) /\ s.at = "off" BY <2>1, ShutSound DEF Shut
  <2>3. QED BY <1>1, <2>1, <2>2, OwnStep DEF Shuts, Kept
<1>2. ASSUME NEW p, Goes(d, p), p \notin Checking \union {"bridge"} PROVE Kept(d)
  <2>1. PICK s : s = [door[d] EXCEPT !.at = p] OBVIOUS
  <2>2. Sound(s) /\ s.at = p
    BY <1>2, <2>1, GoesSound DEF DoorsInv, Sound, IsDoor
  <2>3. door' = [door EXCEPT ![d] = s] BY <1>2, <2>1 DEF Goes
  <2>4. QED BY <1>2, <2>2, <2>3, OwnStep DEF Kept
<1>3. QED BY <1>1, <1>2

(* The same for a step that changes more, on the way to no bridge.         *)
LEMMA AwayKept ==
  ASSUME DoorsInv, SlotsInv, UNCHANGED <<grant, seq>>, NEW d \in Doors, NEW s,
         door' = [door EXCEPT ![d] = s], IsDoor(s), s.mark \in Nat, s.u \in Users,
         s.at \notin Checking \union {"bridge"}
  PROVE  Kept(d)
<1>1. Sound(s) BY DEF Sound, Checking
<1>2. QED BY <1>1, OwnStep DEF Kept

LEMMA LogInKept == ASSUME DoorsInv, SlotsInv, NEW d \in Doors, LogIn(d) PROVE Kept(d)
<1>1. UNCHANGED <<grant, seq>> BY DoorsApart DEF rights
<1>2. CASE Knock(d)
  <2>1. PICK way \in {"web", "ip"}, u \in Users, right \in BOOLEAN :
          door' = [door EXCEPT ![d] = [Shut EXCEPT !.at = "ask", !.way = way, !.u = u, !.pass = IF right THEN user[u].pass ELSE -1]]
    BY <1>2 DEF Knock
  <2>2. PICK pass : pass = IF right THEN user[u].pass ELSE -1 OBVIOUS
  <2>3. PICK s : s = [Shut EXCEPT !.at = "ask", !.way = way, !.u = u, !.pass = pass] OBVIOUS
  <2>4. door' = [door EXCEPT ![d] = s] BY <2>1, <2>2, <2>3
  <2>5. IsDoor(s) /\ s.mark = 0 /\ s.u = u /\ s.at = "ask" BY <2>3 DEF Shut, IsDoor
  <2>6. s.mark \in Nat /\ s.u \in Users /\ s.at \notin Checking \union {"bridge"} BY <2>5 DEF Checking
  <2>7. QED BY <1>1, <2>4, <2>5, <2>6, AwayKept
<1>3. CASE AskKey(d)
  <2>1. door[d].at # "off" /\ (Shuts(d) \/ \E p \in {"askName", "look"} : Goes(d, p))
    BY <1>3 DEF AskKey
  <2>2. QED BY <1>1, <2>1, GoesKept DEF Checking
<1>4. CASE LookUp(d)
  <2>1. door[d].at = "look" BY <1>4 DEF LookUp
  <2>2. CASE Shuts(d) \/ Goes(d, "tell") BY <1>1, <2>1, <2>2, GoesKept DEF Checking
  <2>3. CASE ~(Shuts(d) \/ Goes(d, "tell"))
    <3>1. PICK role : door' = [door EXCEPT ![d] = [door[d] EXCEPT !.at = "clear", !.role = role]]
      BY <1>4, <2>3 DEF LookUp
    <3>2. PICK s : s = [door[d] EXCEPT !.at = "clear", !.role = role] OBVIOUS
    <3>3. door' = [door EXCEPT ![d] = s] BY <3>1, <3>2
    <3>4. IsDoor(door[d]) /\ door[d].mark \in Nat /\ door[d].u \in Users BY <2>1 DEF DoorsInv, Sound
    <3>5. IsDoor(s) /\ s.mark = door[d].mark /\ s.u = door[d].u /\ s.at = "clear" BY <3>2, <3>4 DEF IsDoor
    <3>6. QED BY <1>1, <3>3, <3>4, <3>5, AwayKept DEF Checking
  <2>4. QED BY <2>2, <2>3
<1>5. CASE Tell(d)
  <2>1. door[d].at # "off" /\ (Shuts(d) \/ Goes(d, "tellName")) BY <1>5 DEF Tell
  <2>2. QED BY <1>1, <2>1, GoesKept DEF Checking
<1>6. CASE Clear(d)
  <2>1. door[d].at # "off" /\ (Shuts(d) \/ \E p \in {"clearName", "load"} : Goes(d, p)) BY <1>6 DEF Clear
  <2>2. QED BY <1>1, <2>1, GoesKept DEF Checking
<1>7. QED BY <1>2, <1>3, <1>4, <1>5, <1>6 DEF LogIn

(* What a query loads or a key turns to keeps who is at the menu.          *)
Same(t, s) == t.u = s.u /\ t.role = s.role /\ t.mark = s.mark /\ t.ok = s.ok /\ t.v = s.v

LEMMA DrawnDoor ==
  ASSUME NEW s, IsDoor(s) PROVE IsDoor(Drawn(s)) /\ Same(Drawn(s), s) /\ Drawn(s).at = "menu"
<1>1. PICK p : p = IF s.kw.on THEN 1 ELSE s.page OBVIOUS
<1>2. PICK screen : screen = PageOf(View(s.items, s.kw), p) OBVIOUS
<1>3. Drawn(s) = [s EXCEPT !.at = "menu", !.page = p, !.screen = screen] BY <1>1, <1>2 DEF Drawn
<1>4. QED BY <1>3 DEF IsDoor, Same

LEMMA LoadKept == ASSUME DoorsInv, SlotsInv, NEW d \in Doors, Load(d) PROVE Kept(d)
<1>1. UNCHANGED <<grant, seq>> BY DEF Load, people, rights
<1>2. PICK s : s = door[d] OBVIOUS
<1>3. IsDoor(s) /\ s.mark \in Nat /\ s.u \in Users /\ s.at \in {"load", "loadGrants", "loadCreds"}
  BY <1>2 DEF Load, DoorsInv, Sound
<1>4. CASE Shuts(d) BY <1>1, <1>2, <1>3, <1>4, GoesKept
<1>5. ASSUME NEW t, door' = [door EXCEPT ![d] = t], IsDoor(t), Same(t, s),
             t.at \in {"menu", "loadGrants", "loadCreds"}
      PROVE  Kept(d)
  <2>1. t.mark \in Nat /\ t.u \in Users /\ t.at \notin Checking \union {"bridge"}
    BY <1>3, <1>5 DEF Same, Checking
  <2>2. QED BY <1>1, <1>5, <2>1, AwayKept
<1>6. PICK items, none, mine : items = Reachable(s) /\ none = <<>> /\ mine = {v \in Machines : Live(grant[s.u][v])}
  OBVIOUS
<1>7. PICK listed : listed = Listed OBVIOUS
<1>8. PICK next : next = IF s.role = "admin" THEN "loadCreds" ELSE "loadGrants" OBVIOUS
<1>9. \/ Shuts(d)
      \/ door' = [door EXCEPT ![d] = [s EXCEPT !.at = next, !.mine = Machines, !.rows = listed]]
      \/ door' = [door EXCEPT ![d] = [s EXCEPT !.at = "loadCreds", !.mine = mine]]
      \/ door' = [door EXCEPT ![d] = Drawn([s EXCEPT !.first = FALSE, !.rows = none, !.mine = {}, !.items = items])]
      \/ door' = [door EXCEPT ![d] = Drawn([s EXCEPT !.rows = none, !.mine = {}, !.items = none])]
  BY <1>2, <1>3, <1>6, <1>7, <1>8 DEF Load, Shuts
<1>10. CASE door' = [door EXCEPT ![d] = [s EXCEPT !.at = next, !.mine = Machines, !.rows = listed]]
  <2>1. PICK t : t = [s EXCEPT !.at = next, !.mine = Machines, !.rows = listed] OBVIOUS
  <2>2. IsDoor(t) /\ Same(t, s) /\ t.at \in {"menu", "loadGrants", "loadCreds"}
    BY <1>3, <1>8, <2>1 DEF IsDoor, Same
  <2>3. QED BY <1>5, <1>10, <2>1, <2>2
<1>11. CASE door' = [door EXCEPT ![d] = [s EXCEPT !.at = "loadCreds", !.mine = mine]]
  <2>1. PICK t : t = [s EXCEPT !.at = "loadCreds", !.mine = mine] OBVIOUS
  <2>2. IsDoor(t) /\ Same(t, s) /\ t.at = "loadCreds" BY <1>3, <2>1 DEF IsDoor, Same
  <2>3. QED BY <1>5, <1>11, <2>1, <2>2
<1>12. ASSUME NEW t, IsDoor(t), Same(t, s), door' = [door EXCEPT ![d] = Drawn(t)] PROVE Kept(d)
  <2>1. PICK r : r = Drawn(t) OBVIOUS
  <2>2. IsDoor(r) /\ Same(r, t) /\ r.at = "menu" BY <1>12, <2>1, DrawnDoor
  <2>3. Same(r, s) BY <1>12, <2>2 DEF Same
  <2>4. QED BY <1>5, <1>12, <2>1, <2>2, <2>3
<1>13. CASE door' = [door EXCEPT ![d] = Drawn([s EXCEPT !.first = FALSE, !.rows = none, !.mine = {}, !.items = items])]
  <2>1. PICK t : t = [s EXCEPT !.first = FALSE, !.rows = none, !.mine = {}, !.items = items] OBVIOUS
  <2>2. IsDoor(t) /\ Same(t, s) BY <1>3, <2>1 DEF IsDoor, Same
  <2>3. QED BY <1>12, <1>13, <2>1, <2>2
<1>14. CASE door' = [door EXCEPT ![d] = Drawn([s EXCEPT !.rows = none, !.mine = {}, !.items = none])]
  <2>1. PICK t : t = [s EXCEPT !.rows = none, !.mine = {}, !.items = none] OBVIOUS
  <2>2. IsDoor(t) /\ Same(t, s) BY <1>3, <2>1 DEF IsDoor, Same
  <2>3. QED BY <1>12, <1>14, <2>1, <2>2
<1>15. QED BY <1>4, <1>9, <1>10, <1>11, <1>13, <1>14

LEMMA BrowseKept == ASSUME DoorsInv, SlotsInv, NEW d \in Doors, Browse(d) PROVE Kept(d)
<1>1. UNCHANGED <<grant, seq>> BY DEF Browse, accessVars, rights
<1>2. PICK s : s = door[d] OBVIOUS
<1>3. IsDoor(s) /\ s.mark \in Nat /\ s.u \in Users /\ s.at = "menu" BY <1>2 DEF Browse, DoorsInv, Sound
<1>4. CASE Shuts(d) BY <1>1, <1>2, <1>3, <1>4, GoesKept
<1>5. ASSUME NEW t, IsDoor(t), Same(t, s), door' = [door EXCEPT ![d] = Drawn(t)] PROVE Kept(d)
  <2>1. PICK r : r = Drawn(t) OBVIOUS
  <2>2. IsDoor(r) /\ Same(r, t) /\ r.at = "menu" BY <1>5, <2>1, DrawnDoor
  <2>3. r.mark \in Nat /\ r.u \in Users /\ r.at \notin Checking \union {"bridge"}
    BY <1>3, <1>5, <2>2 DEF Same, Checking
  <2>4. door' = [door EXCEPT ![d] = r] BY <1>5, <2>1
  <2>5. QED BY <1>1, <2>2, <2>3, <2>4, AwayKept
<1>6. ASSUME NEW t \in Turned(s), door' = [door EXCEPT ![d] = Drawn(t)] PROVE Kept(d)
  <2>1. PICK page : t = [s EXCEPT !.page = page] BY <1>6 DEF Turned
  <2>2. IsDoor(t) /\ Same(t, s) BY <1>3, <2>1 DEF IsDoor, Same
  <2>3. QED BY <1>5, <1>6, <2>2
<1>7. ASSUME NEW kw, door' = [door EXCEPT ![d] = Drawn([s EXCEPT !.page = 1, !.kw = kw])] PROVE Kept(d)
  <2>1. PICK t : t = [s EXCEPT !.page = 1, !.kw = kw] OBVIOUS
  <2>2. IsDoor(t) /\ Same(t, s) BY <1>3, <2>1 DEF IsDoor, Same
  <2>3. QED BY <1>5, <1>7, <2>1, <2>2
<1>8. \/ Shuts(d)
      \/ \E t \in Turned(s) : door' = [door EXCEPT ![d] = Drawn(t)]
      \/ \E kw : door' = [door EXCEPT ![d] = Drawn([s EXCEPT !.page = 1, !.kw = kw])]
  BY <1>2 DEF Browse
<1>9. QED BY <1>4, <1>6, <1>7, <1>8

(* The key: what the account may reach and the last id given are noted.    *)
LEMMA SelectKept == ASSUME DoorsInv, SlotsInv, NEW d \in Doors, Select(d) PROVE Kept(d)
<1>1. UNCHANGED <<grant, seq>> BY DEF Select, accessVars, rights
<1>2. PICK s : s = door[d] OBVIOUS
<1>3. IsDoor(s) /\ s.u \in Users /\ s.at = "menu" BY <1>2 DEF Select, DoorsInv, Sound
<1>4. PICK i \in 1..PageSize, v \in Machines :
        door' = [door EXCEPT ![d] = [s EXCEPT !.at = "checkVm", !.key = i, !.v = v, !.ok = Live(grant[s.u][v]), !.mark = seq]]
  BY <1>2 DEF Select
<1>5. PICK ok : ok = Live(grant[s.u][v]) OBVIOUS
<1>6. PICK t : t = [s EXCEPT !.at = "checkVm", !.key = i, !.v = v, !.ok = ok, !.mark = seq] OBVIOUS
<1>7. IsDoor(t) /\ t.at = "checkVm" /\ t.u = s.u /\ t.v = v /\ t.ok = ok /\ t.mark = seq
  BY <1>3, <1>6 DEF IsDoor
<1>8. seq \in Nat BY DEF SlotsInv
<1>9. t.ok \/ ~Live(grant[t.u][t.v]) BY <1>5, <1>7
<1>10. Sound(t) BY <1>3, <1>7, <1>8, <1>9 DEF Sound, Checking
<1>11. door' = [door EXCEPT ![d] = t] BY <1>4, <1>5, <1>6
<1>12. QED BY <1>1, <1>7, <1>10, <1>11, OwnStep DEF Kept

LEMMA BackKept ==
  ASSUME DoorsInv, SlotsInv, UNCHANGED <<grant, seq>>, NEW d \in Doors, door[d].at # "off", Back(d)
  PROVE  Kept(d)
<1>1. PICK s : s = door[d] OBVIOUS
<1>2. IsDoor(s) /\ s.u \in Users BY <1>1 DEF DoorsInv, Sound
<1>3. PICK t : t = [s EXCEPT !.at = "load", !.key = 0, !.v = 0, !.ok = FALSE, !.mark = 0] OBVIOUS
<1>4. IsDoor(t) /\ t.at = "load" /\ t.u = s.u /\ t.mark = 0 BY <1>2, <1>3 DEF IsDoor
<1>5. t.mark \in Nat /\ t.u \in Users /\ t.at \notin Checking \union {"bridge"} BY <1>2, <1>4 DEF Checking
<1>6. door' = [door EXCEPT ![d] = t] BY <1>1, <1>3 DEF Back
<1>7. QED BY <1>4, <1>5, <1>6, AwayKept

(* The queries of revalidateSelection: each passes on what is known.       *)
LEMMA OnKept ==
  ASSUME DoorsInv, SlotsInv, UNCHANGED <<grant, seq>>, NEW d \in Doors, NEW p, Goes(d, p),
         door[d].at \in Checking,
         \/ p = "checkGrant"
         \/ p = "checkCred" /\ (Role(d) # "admin" => Live(grant[door[d].u][door[d].v]))
         \/ p = "bridge" /\ door[d].at = "checkCred"
  PROVE  Kept(d)
<1>1. PICK s : s = door[d] OBVIOUS
<1>2. Sound(s) /\ s.at \in Checking /\ s.at # "off" BY <1>1 DEF DoorsInv, Checking
<1>3. PICK t : t = [s EXCEPT !.at = p] OBVIOUS
<1>4. IsDoor(t) /\ t.at = p /\ Same(t, s) BY <1>2, <1>3 DEF IsDoor, Same, Sound
<1>5. p = "checkCred" /\ s.role # "admin" => s.ok \/ seq > s.mark
  BY <1>1, <1>2 DEF Sound, Role
<1>6. Sound(t) BY <1>2, <1>4, <1>5 DEF Sound, Same
<1>7. door' = [door EXCEPT ![d] = t] BY <1>1, <1>3 DEF Goes
<1>8. p = "bridge" => door[d].at = "checkCred" OBVIOUS
<1>9. QED BY <1>4, <1>6, <1>7, <1>8, OwnStep DEF Kept

LEMMA MenuKept == ASSUME DoorsInv, SlotsInv, NEW d \in Doors, Menu(d) PROVE Kept(d)
<1>1. UNCHANGED <<grant, seq>> BY DoorsApart DEF rights
<1>2. CASE Load(d) \/ Browse(d) \/ Select(d) BY <1>2, LoadKept, BrowseKept, SelectKept
<1>3. CASE CheckVm(d)
  <2>1. door[d].at = "checkVm" /\ (Back(d) \/ Goes(d, "checkGrant") \/ (Goes(d, "checkCred") /\ Role(d) = "admin"))
    BY <1>3 DEF CheckVm
  <2>2. QED BY <1>1, <2>1, BackKept, OnKept DEF Checking
<1>4. CASE CheckGrant(d)
  <2>1. door[d].at = "checkGrant" /\ (Back(d) \/ (Goes(d, "checkCred") /\ Live(grant[door[d].u][door[d].v])))
    BY <1>4 DEF CheckGrant
  <2>2. QED BY <1>1, <2>1, BackKept, OnKept DEF Checking
<1>5. CASE CheckCred(d)
  <2>1. door[d].at = "checkCred" /\ (Back(d) \/ Goes(d, "bridge")) BY <1>5 DEF CheckCred
  <2>2. QED BY <1>1, <2>1, BackKept, OnKept DEF Checking
<1>6. CASE BridgeEnds(d) BY <1>1, <1>6, BackKept DEF BridgeEnds
<1>7. QED BY <1>2, <1>3, <1>4, <1>5, <1>6 DEF Menu

LEMMA SeqGrows ==
  ASSUME SlotsInv, [JumpNext]_allVars PROVE seq \in Nat /\ seq' \in Nat /\ seq' >= seq
<1>0. seq \in Nat BY DEF SlotsInv
<1>1. CASE seq' = seq BY <1>0, <1>1
<1>2. CASE seq' # seq
  <2>1. PICK c \in Clients : Visit(c) \/ Manage(c) \/ Entitle(c)
    <3>1. ~((\E d \in Doors : LogIn(d) \/ Menu(d)) \/ WindowPasses \/ MachineChanges) BY <1>2, DoorsApart
    <3>2. ~HourPasses /\ ~TicketAges /\ ~UNCHANGED allVars
      BY <1>2 DEF HourPasses, TicketAges, allVars, accessVars
    <3>3. QED BY <3>1, <3>2 DEF JumpNext, AccessNext
  <2>2. Moved(c)
    <3>1. CASE Consume(c) BY <1>2, <3>1 DEF Consume
    <3>2. CASE ~Consume(c) BY <2>1, <3>2, ClientTurns DEF Turn
    <3>3. QED BY <3>1, <3>2
  <2>3. QED BY <1>0, <2>2 DEF Moved
<1>3. QED BY <1>1, <1>2

(* Every step, whoever takes it.                                           *)
LEMMA DoorsStep ==
  ASSUME SlotsInv, TicketInv, RightsInv, DoorsInv, [JumpNext]_allVars
  PROVE  DoorsInv' /\ \A d \in Doors : door'[d].at = "bridge" => door[d].at \in {"bridge", "checkCred"}
<1>1. CASE \E d \in Doors : LogIn(d) \/ Menu(d)
  <2>1. PICK d \in Doors : LogIn(d) \/ Menu(d) BY <1>1
  <2>2. Kept(d) BY <2>1, LogInKept, MenuKept
  <2>3. QED BY <2>2 DEF Kept
<1>2. ASSUME door' = door PROVE DoorsInv'
  <2>1. Revives BY RightsStep
  <2>2. seq \in Nat /\ seq' \in Nat /\ seq' >= seq BY SeqGrows
  <2>3. \A d \in Doors : Sound(door[d])' BY <1>2, <2>1, <2>2, OthersSound
  <2>4. QED BY <1>2, <2>3 DEF DoorsInv
<1>3. CASE ~(\E d \in Doors : LogIn(d) \/ Menu(d))
  <2>1. door' = door BY <1>3 DEF JumpNext, WindowPasses, MachineChanges, allVars, jumpVars
  <2>2. QED BY <1>2, <2>1
<1>4. QED BY <1>1, <1>3

LEMMA DoorsStart == JumpInit => RightsInv /\ DoorsInv
<1> SUFFICES ASSUME JumpInit PROVE RightsInv /\ DoorsInv OBVIOUS
<1>1. PICK scene \in AccessMixes : AccessInit(scene) /\ door = [d \in Doors |-> Shut] BY DEF JumpInit
<1>2. grant = [u \in Users |-> [v \in Machines |-> NoRow]] BY <1>1 DEF AccessInit
<1>3. IsRow(NoRow) BY DEF IsRow, NoRow
<1>4. RightsInv BY <1>2, <1>3 DEF RightsInv
<1>5. \A d \in Doors : Sound(door[d]) BY <1>1, ShutSound
<1>6. QED BY <1>1, <1>4, <1>5 DEF DoorsInv

(* A grant that was gone when the key was pressed, and that nobody gave    *)
(* since, opens no bridge although the menu showed the machine             *)
(* (service/jumpd/selection.go revalidateSelection).                       *)
THEOREM WithdrawnOpensNoBridge == JumpSpec => WithdrawnBarred
<1> DEFINE Inv == SlotsInv /\ TicketInv /\ RightsInv /\ DoorsInv
           Barred == \A d \in Doors : (door[d].at # "bridge" /\ door'[d].at = "bridge" /\ Role(d) # "admin") =>
                       (door[d].ok \/ seq > door[d].mark)
<1>1. Inv /\ [JumpNext]_allVars => Inv' BY TicketStep, RightsStep, DoorsStep
<1>2. Inv /\ [JumpNext]_allVars => [Barred]_allVars
  <2> SUFFICES ASSUME Inv, [JumpNext]_allVars, NEW d \in Doors,
                      door[d].at # "bridge", door'[d].at = "bridge", Role(d) # "admin"
               PROVE  door[d].ok \/ seq > door[d].mark
    OBVIOUS
  <2>1. door[d].at = "checkCred" BY DoorsStep
  <2>2. QED BY <2>1 DEF DoorsInv, Sound, Role
<1>3. JumpInit => Inv BY TicketStart, DoorsStart
<1>4. QED BY <1>1, <1>2, <1>3, PTL DEF JumpSpec, WithdrawnBarred

=============================================================================
