----------------------------- MODULE MCAnsible -----------------------------
(***************************************************************************)
(* Scenarios for Ansible.tla: the library across restarts, distributions   *)
(* of the key, runs whose machines change, and a survey that is rewritten  *)
(* between submission and run.                                             *)
(***************************************************************************)
EXTENDS Ansible, TLC
Question(n, type, need, target, values) == [name |-> n, type |-> type, required |-> need, target |-> target, values |-> values, default |-> ""]
Text(n, vars) == [name |-> n, sound |-> TRUE, broken |-> FALSE, survey |-> vars]
Plain == Text("plain", <<>>)
Asking == Text("small", <<Question("size", "int", FALSE, "vars", {}), Question("pw", "secret", TRUE, "vars", {})>>)
Loosened == Text("open", <<Question("size", "enum", FALSE, "env", {[name |-> "7", value |-> "7"]}),
    Question("pw", "str", FALSE, "vars", {})>>)
Tightened == Text("closed", <<Question("pw", "text", FALSE, "vars", {}), Question("size", "secret", FALSE, "vars", {})>>)
Doubled == Text("twice", <<Question("pw", "str", FALSE, "vars", {}), Question("pw", "secret", FALSE, "vars", {})>>)
Unreadable == [Text("broken", <<>>) EXCEPT !.broken = TRUE]
Unsound == [Text("unsound", <<>>) EXCEPT !.sound = FALSE]
MCTexts == {Plain, Asking, Loosened, Tightened, Doubled, Unreadable, Unsound}
MCShipped == ("b1" :> [place |-> "single", text |-> Plain]) @@ ("b2" :> [place |-> "site", text |-> Plain])
Call(op, n) == [op |-> op, no |-> n, id |-> "b1", place |-> "site", text |-> Plain, hosts |-> {},
    host |-> "h1", user |-> "root", cred |-> {}, team |-> {},
  targets |-> {"h1", "h2"}, grouped |-> FALSE, book |-> "none", answered |-> <<>>]
Writes(op, n, id, text) == [Call(op, n) EXCEPT !.id = id, !.text = text]
Box(ready, user, cred) == [there |-> TRUE, up |-> TRUE, ready |-> ready, user |-> user, cred |-> cred]
Account(user, port) == [user |-> user, port |-> port]
Still == [shelf |-> [b \in Books |-> Bare], box |-> [h \in Hosts |-> Box(FALSE, "root", {})], team |-> {}, jobs |-> {},
    faults |-> 0]
Lib == [Still EXCEPT !.faults = 1, !.jobs = {Writes("create", 1, "b2", Asking), Writes("update", 2, "b1", Loosened),
    Writes("delete", 3, "b1", Plain),
  Writes("create", 9, "b1", Asking),
  [Writes("put", 4, "b1", Unsound) EXCEPT !.place = "side"], Writes("export", 5, "b1", Unsound), Call("crash", 6),
    Writes("update", 7, "b2", Unreadable)}]
Shelves == [Still EXCEPT !.faults = 1, !.jobs = {Writes("put", 1, "b2", Asking), Writes("update", 2, "b2", Plain),
    Writes("drop", 3, "b2", Plain), Writes("delete", 4, "b2", Plain),
  Writes("role", 5, "r1", Plain), Writes("role file", 6, "r1", Plain), Writes("role drop", 7, "r1", Plain),
    Writes("no role", 8, "r1", Plain), Call("crash", 9)}]
Deals == [Still EXCEPT !.faults = 2, !.box = [h \in Hosts |-> IF h = "h1" THEN Box(FALSE, "root", {Account("root", "22")}) ELSE [Box(FALSE, "none", {}) EXCEPT !.there = FALSE]],
  !.jobs = {Call("deploy", 1), [Call("deploy", 2) EXCEPT !.hosts = {"h1"}],
    [Call("credential", 3) EXCEPT !.cred = {Account("admin", "2222")}],
  [Call("born", 4) EXCEPT !.host = "h2", !.user = "rocky"], Call("crash", 5)}]
Batch == [Still EXCEPT !.faults = 1, !.box = [h \in Hosts |-> IF h = "h1" THEN Box(TRUE, "admin", {Account("admin", "22")}) ELSE Box(FALSE, "root", {Account("root", "22")})],
  !.team = {{"h2"}},
  !.jobs = {[Call("run", 1) EXCEPT !.targets = {"h1"}, !.grouped = TRUE],
    [Call("credential", 3) EXCEPT !.host = "h2"], [Call("team", 4) EXCEPT !.team = {{"h1", "h2"}}], Call("power", 5),
    Call("crash", 6)}]
Twins == [Batch EXCEPT !.faults = 2, !.jobs = {Call("run", 1), [Call("run", 2) EXCEPT !.targets = {"h1"}]}]
Survey == [Still EXCEPT !.box = [h \in Hosts |-> Box(FALSE, "root", {Account("root", "22")})],
    !.shelf["b3"] = [Bare EXCEPT !.dir = TRUE, !.site = Asking],
  !.jobs = {[Call("run", 1) EXCEPT !.targets = {"h1"}, !.book = "b3", !.answered = [size |-> "7", pw |-> "x"]],
  Writes("update", 3, "b3", Tightened), Writes("put", 4, "b3", Loosened), Writes("put", 5, "b3", Doubled)}]
Unfit == [Survey EXCEPT !.faults = 2,
  !.jobs = {[Call("run", 2) EXCEPT !.targets = {"h1"}, !.book = "b3", !.answered = [size |-> "", pw |-> "x"]],
    Writes("put", 5, "b3", Doubled)}]
AllRuns == {Still, Lib, Shelves, Deals, Batch, Twins, Survey, Unfit}
=============================================================================
