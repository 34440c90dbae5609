----------------------------- MODULE MCDesigner -----------------------------
(***************************************************************************)
(* Scenarios for Designer.tla: a first deployment, a plan redrawn between  *)
(* two, overlapping requests, resources that are broken, and one that was  *)
(* there before the plan.                                                  *)
(***************************************************************************)
EXTENDS Designer, TLC

CONSTANTS pa

Order == <<"c", "n", "v", "w">>
Kinds3 == [r \in {"c", "n", "v", "w"} |-> IF r = "c" THEN "container" ELSE IF r = "n" THEN "net" ELSE "vm"]
N(r, size, app) == [r |-> r, size |-> size, app |-> app]
Drawing(nodes, links) == [nodes |-> nodes, links |-> links]
Wish == [op |-> "poll", p |-> pa, plan |-> {}, secret |-> TRUE, r |-> "v", w |-> Absent]
Saves(plan) == [Wish EXCEPT !.op = "save", !.plan = plan]
ApplyW == [Wish EXCEPT !.op = "apply"]
Again(k) == [ApplyW EXCEPT !.r = k]
Changed(r, w) == [Wish EXCEPT !.op = "other", !.r = r, !.w = w]
Foreign(size, st) == Made(size, st, "")
Vacant == [r \in Resources |-> Absent]
Full == Drawing(<<N("v", 1, TRUE), N("c", 1, FALSE), N("n", 1, FALSE)>>, {<<"n", "v">>, <<"v", "c">>})
Shrunk == Drawing(<<N("v", 2, TRUE)>>, {})
Deployed == [r \in Resources |-> IF r = "w" THEN Absent ELSE Made(1, "run", pa)]
NoPlan == [canvas |-> (pa :> {Full}), baseline |-> (pa :> {}), world |-> Vacant, wishes |-> {}, mishaps |-> 0]
Afresh == [NoPlan EXCEPT !.mishaps = 1, !.wishes = {ApplyW, Again("w"), Changed("v", Foreign(2, "run")),
    [Wish EXCEPT !.op = "kill"]}]
Redrawn == [NoPlan EXCEPT !.baseline[pa] = {Full}, !.world = Deployed, !.mishaps = 1,
   !.wishes = {Saves(Shrunk), ApplyW, Again("w"), Changed("v", Foreign(1, "bad"))}]
Overlapping == [NoPlan EXCEPT !.baseline[pa] = {Full}, !.world = Deployed, !.mishaps = 1,
   !.wishes = {Saves(Shrunk), ApplyW, Again("w"), Wish, [Wish EXCEPT !.op = "remove"]}]
Spoiled == [NoPlan EXCEPT !.baseline[pa] = {Full}, !.world = [Deployed EXCEPT !["v"].st = "bad", !["c"].st = "bad"], !.mishaps = 1,
   !.wishes = {ApplyW, [Again("w") EXCEPT !.secret = FALSE], Changed("v", Absent), Wish}]
Strangers == [NoPlan EXCEPT !.world["v"] = Foreign(2, "run"), !.wishes = {ApplyW, Again("w"), Saves(Shrunk),
    Saves(Drawing(<<N("c", 1, FALSE)>>, {}))}]
AllDesigns == {NoPlan, Afresh, Redrawn, Overlapping, Spoiled, Strangers}
=============================================================================
