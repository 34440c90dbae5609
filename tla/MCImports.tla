----------------------------- MODULE MCImports -----------------------------
(***************************************************************************)
(* Scenarios for Imports.tla: packages that share a UUID or a name, a      *)
(* domain libvirt has and the platform has not, and an export.             *)
(***************************************************************************)
EXTENDS Imports, TLC
Errand(op, n) == [op |-> op, no |-> n, names |-> {}]
NoMachines == [registry |-> [i \in Ids |-> {}], domains |-> [n \in Labels |-> {}], pool |-> [x \in Paths |-> "none"],
    parcels |-> {}, orders |-> {}, slips |-> 0, outside |-> {}]
Parcel(i, n, x) == [id |-> i, name |-> n, disk |-> x, data |-> "packed"]
Incoming == [NoMachines EXCEPT !.parcels = {Parcel("u1", "n1", "f1"), Parcel("u2", "n2", "f2"),
    Parcel("u1", "n2", "f3")}, !.slips = 2,
  !.pool["f2"] = "outside", !.outside = {"f2"}, !.orders = {Errand("import", 1), Errand("import", 2), Errand("import", 3)}]
Unmanaged == [NoMachines EXCEPT !.domains["n1"] = {Domain("u1", "f1", "run")},
    !.pool["f1"] = "guest", !.outside = {"n1"}, !.slips = 2,
  !.parcels = {Parcel("u1", "n1", "f2"), Parcel("u2", "n1", "f3")},
    !.orders = {[Errand("adopt", 1) EXCEPT !.names = {"n1", "n2"}], Errand("import", 2), Errand("import", 3),
    [Errand("adopt", 4) EXCEPT !.names = {"n1"}]}]
Leaving == [NoMachines EXCEPT !.registry["u1"] = {Row("n1", "live")}, !.domains["n1"] = {Domain("u1", "f1", "off")},
    !.pool["f1"] = "mine", !.slips = 1,
  !.orders = {Errand("export", 1), Errand("start", 2), Errand("stop", 3), Errand("delete", 4), Errand("import", 5),
    Errand("export", 6)}]
AllImports == {NoMachines, Incoming, Unmanaged, Leaving}

=============================================================================
