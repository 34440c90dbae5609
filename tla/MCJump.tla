------------------------------- MODULE MCJump -------------------------------
(***************************************************************************)
(* Instances of Access and Jump for TLC: one scenario per kind of race.    *)
(***************************************************************************)
EXTENDS Jump

Acc(role) == [here |-> TRUE, active |-> TRUE, role |-> role, pass |-> 1]
Unborn == [here |-> FALSE, active |-> FALSE, role |-> "viewer", pass |-> 0]
Up == [running |-> TRUE, ip |-> TRUE, cred |-> "good"]
By(op, u) == [Ask EXCEPT !.op = op, !.by = u]
Root(op) == By(op, "root")

Nothing == [hours |-> 0, faults |-> 0, stale |-> 0, moves |-> 0, tries |-> [w \in {"web", "ip"} |-> 0]]
TwoPeople == [user |-> [root |-> Acc("admin"), ann |-> Acc("operator")],
         group |-> [g |-> "here"], member |-> {}, granted |-> {}, todo |-> {},
         vm |-> [v \in Machines |-> Up], left |-> Nothing]

\* A ticket that is presented again, for another machine, too late, or after the account was closed.
Tickets == [TwoPeople EXCEPT !.member = {<<"g", "ann">>}, !.granted = {<<"g", 1>>}, !.left.stale = 1,
    !.todo = {[By("mint", "ann") EXCEPT !.v = 1], [By("mint", "ann") EXCEPT !.v = 3], [By("mint", "root") EXCEPT !.v = 2], [By("ws", "") EXCEPT !.v = 1],
              [By("ws", "") EXCEPT !.v = 1, !.n = 1], [By("ws", "") EXCEPT !.v = 2],
              [Root("editUser") EXCEPT !.u = "ann", !.role = "operator", !.on = FALSE]}]
\* A group is deleted while others fill it.
Emptied == [TwoPeople EXCEPT !.member = {<<"g", "ann">>}, !.granted = {<<"g", 1>>}, !.left.faults = 2,
    !.todo = {[Root("deleteGroup") EXCEPT !.g = "g"], [Root("setMembers") EXCEPT !.g = "g", !.who = {"ann"}],
              [Root("groupGrant") EXCEPT !.g = "g", !.v = 2, !.h = Forever],
              [Root("groupRevoke") EXCEPT !.g = "g", !.v = 1]}]
Founded == [TwoPeople EXCEPT !.group = [g |-> "unborn"], !.left.hours = 1,
    !.todo = {[Root("createGroup") EXCEPT !.g = "g"], [Root("deleteGroup") EXCEPT !.g = "g"],
              [Root("setMembers") EXCEPT !.g = "g", !.who = {"ann"}],
              [Root("groupGrant") EXCEPT !.g = "g", !.v = 1, !.h = 1]}]
\* Two who decide, two who apply, a grant given and taken meanwhile.
Asked4 == [TwoPeople EXCEPT !.left.hours = 2,
    !.todo = {[By("apply", "ann") EXCEPT !.v = 1, !.h = 1], [By("apply", "ann") EXCEPT !.v = 1, !.h = 2],
              [Root("approve") EXCEPT !.n = 1], [Root("reject") EXCEPT !.n = 1],
              [Root("grant") EXCEPT !.u = "ann", !.v = 1, !.h = Forever],
              [Root("revoke") EXCEPT !.u = "ann", !.v = 1]}]
\* Accounts that come and go.
Staff == [TwoPeople EXCEPT !.user = [root |-> Acc("admin"), ann |-> Unborn],
    !.todo = {[Root("createUser") EXCEPT !.u = "ann", !.role = "admin"], [Root("deleteUser") EXCEPT !.u = "ann"],
              [By("deleteUser", "ann") EXCEPT !.u = "root"], [By("password", "ann") EXCEPT !.n = 1, !.h = 2],
              [Root("editUser") EXCEPT !.u = "ann", !.role = "viewer"], [By("mint", "ann") EXCEPT !.v = 1]}]
\* Passwords tried side by side, at both doors.
Tried == [TwoPeople EXCEPT !.user = [root |-> Acc("viewer"), ann |-> [Acc("viewer") EXCEPT !.active = FALSE]],
    !.left.tries = [web |-> 0, ip |-> 4]]
Typed == [TwoPeople EXCEPT !.left.tries = [web |-> 3, ip |-> 0], !.left.faults = 1]
\* One menu, much browsed, while machines and rights change.
Browsed == [TwoPeople EXCEPT !.left.tries = [web |-> 0, ip |-> 1], !.left.moves = 1, !.left.faults = 1,
    !.user = [root |-> Acc("admin"), ann |-> Acc("viewer")]]
Withdrawn == [TwoPeople EXCEPT !.left.tries = [web |-> 0, ip |-> 1], !.left.hours = 1,
    !.todo = {[Root("grant") EXCEPT !.u = "ann", !.v = 1, !.h = 1], [Root("grant") EXCEPT !.u = "ann", !.v = 2, !.h = Forever],
              [Root("revoke") EXCEPT !.u = "ann", !.v = 2]}]

Limits == [web |-> 1, ip |-> 2, name |-> 1]
AccessSymmetry == Permutations(Clients) \union Permutations(Doors)

AllAccess == {TwoPeople, Tickets, Emptied, Founded, Asked4, Staff, Tried, Typed, Browsed, Withdrawn}
=============================================================================
