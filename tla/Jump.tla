-------------------------------- MODULE Jump --------------------------------
(***************************************************************************)
(* Logging in, on the web page (handler/auth.go) and at the jump server    *)
(* (service/jumpd), and what a login at the jump server leads to: the      *)
(* menu of machines, the key that selects one, the check made before the   *)
(* bridge.  Accounts and grants are those of Access, whose handlers change *)
(* them meanwhile; Sessions has the life of a bridge.                      *)
(***************************************************************************)
EXTENDS Access

CONSTANTS
    Doors,          \* connections that log in
    MaxFails,       \* failures a key may have: "web", "ip" and, for each account, "name"
    PageSize        \* menuPageSize

ASSUME JumpAssumption == PageSize \in Nat \ {0} /\ MaxFails \in [{"web", "ip", "name"} -> Nat \ {0}]

VARIABLES
    vm,         \* what the menu asks of a machine: [running, ip, cred]
    fails,      \* limiter.fails: [count, old], old when the window has passed
    door        \* the connections

jumpVars == <<vm, fails, door>>
allVars == <<accessVars, jumpVars>>

Keys == Users \union {"web", "ip"}
Limit(k) == IF k \in Users THEN MaxFails["name"] ELSE MaxFails[k]
NoFails == [count |-> 0, old |-> FALSE]

All == [on |-> FALSE, hits |-> {}]          \* no search
Shut == [at |-> "off", way |-> "web", u |-> "", pass |-> 0, role |-> "", first |-> TRUE, rows |-> <<>>, mine |-> {},
         items |-> <<>>, page |-> 1, kw |-> All, screen |-> <<>>, key |-> 0, v |-> 0, ok |-> FALSE, mark |-> 0]
Goes(d, place) == door' = [door EXCEPT ![d].at = place]
Shuts(d) == door' = [door EXCEPT ![d] = Shut]
Role(d) == door[d].role

----------------------------------------------------------------------------
(* The limiter: asked before the password is looked at, told after.         *)

Knock(d) == \E way \in {"web", "ip"}, u \in Users, right \in BOOLEAN :
    /\ door[d].at = "off" /\ left.tries[way] > 0
    /\ left' = [left EXCEPT !.tries[way] = @ - 1]
    /\ door' = [door EXCEPT ![d] = [Shut EXCEPT !.at = "ask", !.way = way, !.u = u, !.pass = IF right THEN user[u].pass ELSE -1]]
    /\ UNCHANGED <<people, rights, wire, slot, seq, mishaps, todo, vm, fails>>

Wished(d) == IF door[d].at = "ask" THEN door[d].way ELSE door[d].u
\* A window that has passed is forgotten when it is asked about.
Blocked(k) == ~fails[k].old /\ fails[k].count >= Limit(k)

AskKey(d) ==
    LET k == Wished(d) IN
    /\ door[d].at \in {"ask", "askName"}
    /\ fails' = [fails EXCEPT ![k] = IF @.old THEN NoFails ELSE @]
    /\ IF Blocked(k) THEN Shuts(d)
       ELSE Goes(d, IF door[d].way = "ip" /\ door[d].at = "ask" THEN "askName" ELSE "look")
    /\ UNCHANGED <<accessVars, vm>>

\* A query that fails counts as a failure on the web page and as nothing at the jump server.
LookUp(d) ==
    LET s == door[d] IN
    /\ s.at = "look"
    /\ \/ /\ IF ~user[s.u].here \/ user[s.u].pass # s.pass THEN Goes(d, "tell")
             ELSE IF ~user[s.u].active THEN Shuts(d)
             ELSE door' = [door EXCEPT ![d] = [s EXCEPT !.at = "clear", !.role = user[s.u].role]]
          /\ UNCHANGED left
       \/ /\ left.faults > 0 /\ left' = [left EXCEPT !.faults = @ - 1]
          /\ IF s.way = "web" THEN Goes(d, "tell") ELSE Shuts(d)
    /\ UNCHANGED <<people, rights, wire, slot, seq, mishaps, todo, vm, fails>>

Failed(entry) == IF entry.count = 0 \/ entry.old THEN [count |-> 1, old |-> FALSE] ELSE [entry EXCEPT !.count = @ + 1]

Tell(d) ==
    LET k == IF door[d].at = "tell" THEN door[d].way ELSE door[d].u IN
    /\ door[d].at \in {"tell", "tellName"}
    /\ fails' = [fails EXCEPT ![k] = Failed(@)]
    /\ IF door[d].way = "ip" /\ door[d].at = "tell" THEN Goes(d, "tellName") ELSE Shuts(d)
    /\ UNCHANGED <<accessVars, vm>>

\* A role without a terminal is let in to be told so, and sent away.
Clear(d) ==
    LET k == IF door[d].at = "clear" THEN door[d].way ELSE door[d].u IN
    /\ door[d].at \in {"clear", "clearName"}
    /\ fails' = [fails EXCEPT ![k] = NoFails]
    /\ IF door[d].way = "ip" /\ door[d].at = "clear" THEN Goes(d, "clearName")
       ELSE IF door[d].way = "web" \/ Role(d) \notin {"admin", "operator"} THEN Shuts(d) ELSE Goes(d, "load")
    /\ UNCHANGED <<accessVars, vm>>

WindowPasses == \E k \in Keys :
    /\ fails[k].count > 0 /\ ~fails[k].old
    /\ fails' = [fails EXCEPT ![k].old = TRUE]
    /\ UNCHANGED <<accessVars, vm, door>>

----------------------------------------------------------------------------
(* The menu: three queries fill the cache, everything else draws from it.   *)

View(items, kw) == IF kw.on THEN SelectSeq(items, LAMBDA v : v \in kw.hits) ELSE items
Pages(items) == IF items = <<>> THEN 1 ELSE (Len(items) + PageSize - 1) \div PageSize
PageOf(items, page) ==
    LET p == IF page > Pages(items) THEN Pages(items) ELSE page IN
    SubSeq(items, (p - 1) * PageSize + 1, IF p * PageSize > Len(items) THEN Len(items) ELSE p * PageSize)

\* draw: the rows that appear on the screen; a search is always shown from its first page.
Drawn(s) ==
    LET p == IF s.kw.on THEN 1 ELSE s.page IN
    [s EXCEPT !.at = "menu", !.page = p, !.screen = PageOf(View(s.items, s.kw), p)]

\* The machines with an address; those of a listing the account may reach and there is a credential for.
Listed == SetToSortSeq({v \in Machines : vm[v].running /\ vm[v].ip}, <)
Reachable(s) == SelectSeq(s.rows, LAMBDA v : v \in s.mine /\ vm[v].cred # "none")

Load(d) ==
    LET s == door[d] IN
    /\ s.at \in {"load", "loadGrants", "loadCreds"}
    /\ \/ /\ door' = [door EXCEPT ![d] =
                CASE s.at = "load" ->
                       [s EXCEPT !.at = IF s.role = "admin" THEN "loadCreds" ELSE "loadGrants", !.mine = Machines, !.rows = Listed]
                  [] s.at = "loadGrants" -> [s EXCEPT !.at = "loadCreds", !.mine = {v \in Machines : Live(grant[s.u][v])}]
                  [] s.at = "loadCreds" ->
                       Drawn([s EXCEPT !.first = FALSE, !.rows = <<>>, !.mine = {}, !.items = Reachable(s)])]
          /\ UNCHANGED left
       \/ /\ left.faults > 0 /\ left' = [left EXCEPT !.faults = @ - 1]
          /\ door' = [door EXCEPT ![d] = IF s.first THEN Shut ELSE Drawn([s EXCEPT !.rows = <<>>, !.mine = {}, !.items = <<>>])]
    /\ UNCHANGED <<people, rights, wire, slot, seq, mishaps, todo, vm, fails>>

Turned(s) ==
    LET pages == Pages(View(s.items, s.kw)) IN
    {[s EXCEPT !.page = IF @ + 1 > pages THEN 1 ELSE @ + 1], [s EXCEPT !.page = IF @ - 1 < 1 THEN pages ELSE @ - 1]}

Browse(d) ==
    LET s == door[d] IN
    /\ s.at = "menu"
    /\ \/ \E t \in Turned(s) : door' = [door EXCEPT ![d] = Drawn(t)]
       \/ \E hits \in SUBSET Machines, on \in BOOLEAN :
             door' = [door EXCEPT ![d] = Drawn([s EXCEPT !.page = 1, !.kw = IF on THEN [on |-> TRUE, hits |-> hits] ELSE All])]
       \/ Shuts(d)
    /\ UNCHANGED <<accessVars, vm, fails>>

\* A digit selects from the page of the cache that belongs to page and keyword.
Shown(s) == PageOf(View(s.items, s.kw), s.page)

Select(d) == \E i \in 1..PageSize, v \in Machines :
    LET s == door[d] IN
    /\ s.at = "menu" /\ i <= Len(Shown(s)) /\ v = Shown(s)[i]
    /\ door' = [door EXCEPT ![d] = [s EXCEPT !.at = "checkVm", !.key = i, !.v = v, !.ok = Live(grant[s.u][v]), !.mark = seq]]
    /\ UNCHANGED <<accessVars, vm, fails>>

----------------------------------------------------------------------------
(* revalidateSelection, a query at a time, and the bridge.                  *)

\* Back to the menu, with fresh data.
Back(d) == door' = [door EXCEPT ![d] = [@ EXCEPT !.at = "load", !.key = 0, !.v = 0, !.ok = FALSE, !.mark = 0]]

CheckVm(d) ==
    /\ door[d].at = "checkVm"
    /\ IF vm[door[d].v].running /\ vm[door[d].v].ip
         THEN Goes(d, IF Role(d) = "admin" THEN "checkCred" ELSE "checkGrant")
         ELSE Back(d)
    /\ UNCHANGED <<accessVars, vm, fails>>

\* Mutant: the menu's word is taken.
CheckGrantCached(d) ==
    /\ door[d].at = "checkGrant"
    /\ IF \E i \in DOMAIN door[d].items : door[d].items[i] = door[d].v THEN Goes(d, "checkCred") ELSE Back(d)
    /\ UNCHANGED <<accessVars, vm, fails>>

CheckGrant(d) ==
    /\ door[d].at = "checkGrant"
    /\ IF Live(grant[door[d].u][door[d].v]) THEN Goes(d, "checkCred") ELSE Back(d)
    /\ UNCHANGED <<accessVars, vm, fails>>

CheckCred(d) ==
    /\ door[d].at = "checkCred"
    /\ IF vm[door[d].v].cred = "good" THEN Goes(d, "bridge") ELSE Back(d)
    /\ UNCHANGED <<accessVars, vm, fails>>

BridgeEnds(d) == door[d].at = "bridge" /\ Back(d) /\ UNCHANGED <<accessVars, vm, fails>>

\* The machine as others leave it: started, stopped, its address and its credential.
MachineChanges == \E v \in Machines, running, ip \in BOOLEAN, cred \in {"none", "good", "stale"} :
    /\ left.moves > 0 /\ left' = [left EXCEPT !.moves = @ - 1]
    /\ vm' = [vm EXCEPT ![v] = [running |-> running, ip |-> ip, cred |-> cred]] /\ vm' # vm
    /\ UNCHANGED <<people, rights, wire, slot, seq, mishaps, todo, fails, door>>

----------------------------------------------------------------------------
LogIn(d) == Knock(d) \/ AskKey(d) \/ LookUp(d) \/ Tell(d) \/ Clear(d)
Menu(d) == Load(d) \/ Browse(d) \/ Select(d) \/ CheckVm(d) \/ CheckGrant(d) \/ CheckCred(d) \/ BridgeEnds(d)

JumpInit == \E scene \in AccessMixes :
    /\ AccessInit(scene)
    /\ vm = scene.vm /\ fails = [k \in Keys |-> NoFails] /\ door = [d \in Doors |-> Shut]

JumpNext ==
    \/ AccessNext /\ UNCHANGED jumpVars
    \/ \E d \in Doors : LogIn(d) \/ Menu(d)
    \/ WindowPasses \/ MachineChanges

JumpSpec == JumpInit /\ [][JumpNext]_allVars

----------------------------------------------------------------------------
(* Properties.                                                              *)

\* A WebSocket is opened for the machine its ticket was minted for and for the user who got it,
\* and no ticket opens two, however often and from wherever it is presented
\* (service/wsticket/store.go Consume, middleware/jwt.go).
TicketOnce ==
    /\ \A i \in DOMAIN open : open[i] \in minted
    /\ \A i, j \in DOMAIN open : open[i].id = open[j].id => i = j

\* What groupGrantedVMIDs finds through a group that no longer exists.
Ghost(u, g) == group[g] = "gone" /\ <<g, u>> \in member /\ \E v \in Machines : Live(groupGrant[g][v])

\* After a group has been deleted nobody reaches a machine through it, unless two things went wrong:
\* a cascade that failed, a write that had found the group before and landed after
\* (handler/user_group.go DeleteGroup, handler/vm_grant.go groupGrantedVMIDs).
NoGhostAccess ==
    (\E u \in Users, g \in Groups : Ghost(u, g) /\ \A c \in Clients : slot[c].at \notin {"dropMembers", "dropGrants"} \/ slot[c].q.g # g)
        => mishaps > 1

\* A grant that was gone when the key was pressed, and that nobody gave since, opens no bridge,
\* although the menu still showed the machine (service/jumpd/selection.go revalidateSelection).
WithdrawnBarred == [][\A d \in Doors : (door[d].at # "bridge" /\ door'[d].at = "bridge" /\ Role(d) # "admin") =>
    (door[d].ok \/ seq > door[d].mark)]_allVars
=============================================================================
