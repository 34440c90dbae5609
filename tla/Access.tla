------------------------------- MODULE Access -------------------------------
(***************************************************************************)
(* Who may reach which machine: users and groups (handler/user.go,         *)
(* user_group.go), grants and their requests (vm_grant.go,                 *)
(* grant_request.go), and the one-time tickets that open a WebSocket       *)
(* (service/wsticket, middleware/jwt.go).                                  *)
(*                                                                         *)
(* A request is served by one of the Clients' handlers, whose statements   *)
(* are steps of their own: what a handler has read is kept in its slot     *)
(* while others write.  A time limit is kept as the hours that are left.   *)
(***************************************************************************)
EXTENDS Integers, Sequences, FiniteSets, SequencesExt, FiniteSetsExt

CONSTANTS
    Users,          \* the accounts that exist or will be created
    Machines,       \* rows of vms, in the order of their names
    Groups,         \* user groups, existing or to be created: ids are never used again
    Clients,        \* handlers that run side by side
    MaxHours,       \* bound: the longest time limit
    AccessMixes           \* scenarios, one is drawn at Init

ASSUME AccessAssumption == MaxHours \in Nat /\ Machines \subseteq Nat

AdminOps == {"createUser", "editUser", "deleteUser", "createGroup", "deleteGroup", "setMembers",
             "grant", "revoke", "groupGrant", "groupRevoke", "approve", "reject"}
\* What a request may carry; a field its operation has no use for keeps the value of Ask.
Names == Users \union {""}
Asks == [op : AdminOps \union {"mint", "ws", "password", "apply"}, by : Names, u : Names,
         v : Machines \union {0}, g : Groups \union {""}, h : Nat, n : Nat, who : SUBSET Users,
         role : STRING, on : BOOLEAN]

\* A scenario begins with no group deleted yet.
ASSUME SceneAssumption == \A scene \in AccessMixes :
    scene.todo \subseteq Asks /\ scene.group \in [Groups -> {"unborn", "here"}]

Forever == MaxHours + 1         \* expires_at is NULL
Lefts == 0..Forever             \* hours left; 0 is a row that has expired
NoRow == [id |-> 0, left |-> 0]

VARIABLES
    user,       \* users: [here, active, role, pass]
    group,      \* user_groups: "unborn", "here" or "gone"
    member,     \* user_group_members: pairs of group and user
    grant,      \* vm_grants: one row or NoRow for a user and a machine
    groupGrant, \* vm_group_grants
    request,    \* grant_requests
    ticket,     \* wsticket.Store.tokens
    minted,     \* what the browsers keep of the tickets they were given
    open,       \* WebSockets opened, in order (not in the code)
    slot,       \* the handlers at work
    seq,        \* the last id given to a row or a ticket
    mishaps,    \* writes that landed on a deleted group, cascades that failed (not in the code)
    todo,       \* requests that may still come
    left        \* what may still happen: hours, failed statements, tickets that age

people == <<user, group, member>>
rights == <<grant, groupGrant, request>>
wire == <<ticket, minted, open>>
accessVars == <<people, rights, wire, slot, seq, mishaps, todo, left>>

\* A request: who asks for what.  A field an operation has no use for keeps its value here.
Ask == [op |-> "none", by |-> "", u |-> "", v |-> 0, g |-> "", h |-> 0, n |-> 0, who |-> {}, role |-> "", on |-> TRUE]
Free == [at |-> "free", q |-> Ask, role |-> "", row |-> NoRow, left |-> 0, groups |-> {}]
To(c, place) == slot' = [slot EXCEPT ![c].at = place]
Answer(c) == slot' = [slot EXCEPT ![c] = Free]

Active(u) == user[u].here /\ user[u].active
Live(row) == row.left > 0

----------------------------------------------------------------------------
(* The middleware.                                                          *)

\* The group of each route and, for grants, the handler's own check.
Allowed(op, role) ==
    \/ role = "admin"
    \/ op = "password"
    \/ op \notin AdminOps /\ role = "operator"

\* A request with a JWT: the account is read again for every request.
Auth(c) == \E q \in todo :
    /\ slot[c].at = "free" /\ q.op # "ws"
    /\ todo' = todo \ {q}
    /\ slot' = IF Active(q.by) /\ Allowed(q.op, user[q.by].role)
                 THEN [slot EXCEPT ![c] = [Free EXCEPT !.at = IF q.op = "mint" THEN "direct" ELSE q.op,
                                                       !.q = q, !.role = user[q.by].role, !.left = q.h]]
                 ELSE slot
    /\ UNCHANGED <<people, rights, wire, seq, mishaps, left>>

\* Mutant: the ticket stays in the store until it expires.
ConsumeKept(c) == \E q \in todo, t \in minted :
    /\ slot[c].at = "free" /\ q.op = "ws"
    /\ todo' = todo \ {q}
    /\ slot' = IF \E e \in ticket : e.id = t.id /\ e.fresh /\ e.vm = q.v
                 THEN [slot EXCEPT ![c] = [Free EXCEPT !.at = "identity", !.q = [q EXCEPT !.by = t.user, !.n = t.id]]]
                 ELSE slot
    /\ UNCHANGED <<people, rights, wire, seq, mishaps, left>>

\* A WebSocket request: its ticket is taken out of the store whatever follows.
Consume(c) == \E q \in todo, t \in minted :
    /\ slot[c].at = "free" /\ q.op = "ws"
    /\ todo' = todo \ {q}
    /\ LET hit == {e \in ticket : e.id = t.id} IN
       /\ ticket' = ticket \ hit
       /\ slot' = IF \E e \in hit : e.fresh /\ e.vm = q.v
                    THEN [slot EXCEPT ![c] = [Free EXCEPT !.at = "identity", !.q = [q EXCEPT !.by = t.user, !.n = t.id]]]
                    ELSE slot
    /\ UNCHANGED <<people, rights, minted, open, seq, mishaps, left>>

Identity(c) ==
    LET u == slot[c].q.by IN
    /\ slot[c].at = "identity"
    /\ slot' = IF Active(u) /\ Allowed("ws", user[u].role)
                 THEN [slot EXCEPT ![c] = [@ EXCEPT !.at = "direct", !.role = user[u].role]]
                 ELSE [slot EXCEPT ![c] = Free]
    /\ UNCHANGED <<people, rights, wire, seq, mishaps, todo, left>>

----------------------------------------------------------------------------
(* vmVisible, a query at a time, before a ticket is issued and a socket opened. *)

Seen(c) == To(c, IF slot[c].q.op = "mint" THEN "issue" ELSE "open")

Direct(c) ==
    /\ slot[c].at = "direct"
    /\ IF slot[c].role = "admin" \/ Live(grant[slot[c].q.by][slot[c].q.v]) THEN Seen(c) ELSE To(c, "mine")
    /\ UNCHANGED <<people, rights, wire, seq, mishaps, todo, left>>

MyGroups(c) ==
    /\ slot[c].at = "mine"
    /\ LET mine == {g \in Groups : <<g, slot[c].q.by>> \in member} IN
       slot' = [slot EXCEPT ![c] = IF mine = {} THEN Free ELSE [@ EXCEPT !.at = "theirs", !.groups = mine]]
    /\ UNCHANGED <<people, rights, wire, seq, mishaps, todo, left>>

GroupsGrants(c) ==
    /\ slot[c].at = "theirs"
    /\ IF \E g \in slot[c].groups : Live(groupGrant[g][slot[c].q.v]) THEN Seen(c) ELSE Answer(c)
    /\ UNCHANGED <<people, rights, wire, seq, mishaps, todo, left>>

\* Issue also drops the tickets that have expired.
Issue(c) ==
    LET t == [id |-> seq + 1, user |-> slot[c].q.by, vm |-> slot[c].q.v] IN
    /\ slot[c].at = "issue"
    /\ ticket' = {e \in ticket : e.fresh} \union {[id |-> t.id, user |-> t.user, vm |-> t.vm, fresh |-> TRUE]}
    /\ minted' = minted \union {t}
    /\ seq' = seq + 1 /\ Answer(c)
    /\ UNCHANGED <<people, rights, open, mishaps, todo, left>>

Open(c) ==
    /\ slot[c].at = "open"
    /\ open' = Append(open, [id |-> slot[c].q.n, user |-> slot[c].q.by, vm |-> slot[c].q.v])
    /\ Answer(c)
    /\ UNCHANGED <<people, rights, ticket, minted, seq, mishaps, todo, left>>

----------------------------------------------------------------------------
(* Users.                                                                   *)

CreateUser(c) ==
    /\ slot[c].at = "createUser"
    /\ user' = [user EXCEPT ![slot[c].q.u] =
                  IF @.here \/ @.pass # 0 THEN @ ELSE [here |-> TRUE, active |-> TRUE, role |-> slot[c].q.role, pass |-> 1]]
    /\ Answer(c)
    /\ UNCHANGED <<group, member, rights, wire, seq, mishaps, todo, left>>

\* UpdateUser, DeleteUser and ChangeMyPassword read the row before they write it.
FindUser(c) ==
    LET q == slot[c].q IN
    /\ slot[c].at \in {"editUser", "deleteUser", "password"}
    /\ CASE slot[c].at = "editUser"   -> IF user[q.u].here THEN To(c, "saveUser") ELSE Answer(c)
         [] slot[c].at = "deleteUser" -> IF user[q.u].here /\ q.u # q.by THEN To(c, "eraseUser") ELSE Answer(c)
         [] slot[c].at = "password"   -> IF user[q.by].here /\ user[q.by].pass = q.n /\ q.h # q.n
                                           THEN To(c, "savePassword") ELSE Answer(c)
    /\ UNCHANGED <<people, rights, wire, seq, mishaps, todo, left>>

\* A soft-deleted row is out of every statement's reach.
SaveUser(c) ==
    LET q == slot[c].q
        u == IF slot[c].at = "savePassword" THEN q.by ELSE q.u
    IN
    /\ slot[c].at \in {"saveUser", "eraseUser", "savePassword"}
    /\ user' = [user EXCEPT ![u] =
                  CASE ~@.here                        -> @
                    [] slot[c].at = "saveUser"        -> [@ EXCEPT !.role = q.role, !.active = q.on]
                    [] slot[c].at = "eraseUser"       -> [@ EXCEPT !.here = FALSE]
                    [] slot[c].at = "savePassword"    -> [@ EXCEPT !.pass = q.h]]
    /\ Answer(c)
    /\ UNCHANGED <<group, member, rights, wire, seq, mishaps, todo, left>>

----------------------------------------------------------------------------
(* Groups.                                                                  *)

CreateGroup(c) ==
    /\ slot[c].at = "createGroup"
    /\ group' = [group EXCEPT ![slot[c].q.g] = IF @ = "unborn" THEN "here" ELSE @]
    /\ Answer(c)
    /\ UNCHANGED <<user, member, rights, wire, seq, mishaps, todo, left>>

\* The group goes first; its members and grants follow in statements whose errors nobody reads.
DeleteGroup(c) ==
    LET g == slot[c].q.g IN
    /\ slot[c].at = "deleteGroup"
    /\ group' = [group EXCEPT ![g] = IF @ = "here" THEN "gone" ELSE @]
    /\ IF group[g] = "here" THEN To(c, "dropMembers") ELSE Answer(c)
    /\ UNCHANGED <<user, member, rights, wire, seq, mishaps, todo, left>>

Faulty == left.faults > 0 /\ left' = [left EXCEPT !.faults = @ - 1] /\ mishaps' = mishaps + 1
Works == UNCHANGED <<left, mishaps>>

DropMembers(c) ==
    /\ slot[c].at = "dropMembers"
    /\ \/ Works /\ member' = {m \in member : m[1] # slot[c].q.g}
       \/ Faulty /\ UNCHANGED member
    /\ To(c, "dropGrants")
    /\ UNCHANGED <<user, group, rights, wire, seq, todo>>

\* Mutant: the grants of the group are left where they are.
DropGrantsForgotten(c) == slot[c].at = "dropGrants" /\ Answer(c) /\ Works /\ UNCHANGED <<people, rights, wire, seq, todo>>

DropGrants(c) ==
    /\ slot[c].at = "dropGrants"
    /\ \/ Works /\ groupGrant' = [groupGrant EXCEPT ![slot[c].q.g] = [v \in Machines |-> NoRow]]
       \/ Faulty /\ UNCHANGED groupGrant
    /\ Answer(c)
    /\ UNCHANGED <<people, grant, request, wire, seq, todo>>

\* A write that names a group nobody can find any more.
Astray(g) == mishaps' = mishaps + (IF group[g] = "gone" THEN 1 ELSE 0)

FindGroup(c) ==
    LET q == slot[c].q IN
    /\ slot[c].at = "setMembers"
    /\ IF group[q.g] = "here" /\ \A u \in q.who : user[u].here THEN To(c, "replace") ELSE Answer(c)
    /\ UNCHANGED <<people, rights, wire, seq, mishaps, todo, left>>

ReplaceMembers(c) ==
    LET q == slot[c].q IN
    /\ slot[c].at = "replace"
    /\ member' = {m \in member : m[1] # q.g} \union ({q.g} \X q.who)
    /\ Astray(q.g) /\ Answer(c)
    /\ UNCHANGED <<user, group, rights, wire, seq, todo, left>>

----------------------------------------------------------------------------
(* Grants of users and of groups: a query, then an update or an insert.     *)

RowFor(q) == IF q.op \in {"grant", "revoke"} THEN grant[q.u][q.v] ELSE groupGrant[q.g][q.v]

ReadGrant(c) ==
    LET q == slot[c].q IN
    /\ slot[c].at \in {"grant", "groupGrant"}
    /\ IF (IF q.op = "grant" THEN user[q.u].here ELSE group[q.g] = "here") /\ slot[c].left > 0
         THEN slot' = [slot EXCEPT ![c] = [@ EXCEPT !.at = "upsert", !.row = RowFor(q)]]
         ELSE Answer(c)
    /\ UNCHANGED <<people, rights, wire, seq, mishaps, todo, left>>

\* An update reaches the row that was read, an insert fails when another one came first.
Upserted(now, read, hours) ==
    IF read = NoRow
      THEN IF now = NoRow THEN [id |-> seq + 1, left |-> hours] ELSE now
      ELSE IF now.id = read.id THEN [now EXCEPT !.left = hours] ELSE now

Upsert(c) ==
    LET q == slot[c].q
        row == Upserted(RowFor(q), slot[c].row, slot[c].left)
    IN
    /\ slot[c].at = "upsert"
    /\ IF q.op = "grant"
         THEN /\ grant' = [grant EXCEPT ![q.u][q.v] = row]
              /\ UNCHANGED <<groupGrant, mishaps>>
         ELSE /\ groupGrant' = [groupGrant EXCEPT ![q.g][q.v] = row]
              /\ Astray(q.g) /\ UNCHANGED grant
    /\ seq' = IF row = RowFor(q) THEN seq ELSE seq + 1
    /\ Answer(c)
    /\ UNCHANGED <<people, request, wire, todo, left>>

Revoke(c) ==
    LET q == slot[c].q IN
    /\ slot[c].at \in {"revoke", "groupRevoke"}
    /\ IF q.op = "revoke"
         THEN grant' = [grant EXCEPT ![q.u][q.v] = NoRow] /\ UNCHANGED groupGrant
         ELSE groupGrant' = [groupGrant EXCEPT ![q.g][q.v] = NoRow] /\ UNCHANGED grant
    /\ Answer(c)
    /\ UNCHANGED <<people, request, wire, seq, mishaps, todo, left>>

----------------------------------------------------------------------------
(* Requests for a grant.                                                    *)

\* Only grants of the user's own count here.
Apply(c) ==
    LET q == slot[c].q IN
    /\ slot[c].at = "apply"
    /\ IF Live(grant[q.by][q.v]) THEN Answer(c) ELSE To(c, "pending")
    /\ UNCHANGED <<people, rights, wire, seq, mishaps, todo, left>>

CountPending(c) ==
    LET q == slot[c].q IN
    /\ slot[c].at = "pending"
    /\ IF \E i \in DOMAIN request : request[i].user = q.by /\ request[i].vm = q.v /\ request[i].status = "pending"
         THEN Answer(c) ELSE To(c, "file")
    /\ UNCHANGED <<people, rights, wire, seq, mishaps, todo, left>>

File(c) ==
    LET q == slot[c].q IN
    /\ slot[c].at = "file"
    /\ request' = Append(request, [user |-> q.by, vm |-> q.v, hours |-> q.h, status |-> "pending"])
    /\ Answer(c)
    /\ UNCHANGED <<people, grant, groupGrant, wire, seq, mishaps, todo, left>>

\* The status is read outside the transaction that decides; the end is computed before it.
ReadRequest(c) ==
    LET q == slot[c].q IN
    /\ slot[c].at \in {"approve", "reject"}
    /\ IF q.n \in DOMAIN request /\ request[q.n].status = "pending"
         THEN slot' = [slot EXCEPT ![c] = [@ EXCEPT !.at = "decide", !.left = IF q.h > 0 THEN q.h ELSE request[q.n].hours]]
         ELSE Answer(c)
    /\ UNCHANGED <<people, rights, wire, seq, mishaps, todo, left>>

\* The later end wins, but a row without one counts as having none to compare.
Extended(row, hours) ==
    IF row = NoRow THEN [id |-> seq + 1, left |-> hours]
    ELSE [row EXCEPT !.left = IF @ # Forever /\ @ > hours THEN @ ELSE hours]

Decide(c) ==
    LET q == slot[c].q
        r == request[q.n]
    IN
    /\ slot[c].at = "decide"
    /\ IF q.op = "approve"
         THEN /\ grant' = [grant EXCEPT ![r.user][r.vm] = Extended(@, slot[c].left)]
              /\ seq' = seq + 1
              /\ request' = [request EXCEPT ![q.n].status = "approved"]
         ELSE /\ request' = [request EXCEPT ![q.n].status = "rejected"]
              /\ UNCHANGED <<grant, seq>>
    /\ Answer(c)
    /\ UNCHANGED <<people, groupGrant, wire, mishaps, todo, left>>

----------------------------------------------------------------------------
(* Time.                                                                    *)

Later(n) == IF n \in 1..MaxHours THEN n - 1 ELSE n

HourPasses ==
    /\ left.hours > 0
    /\ left' = [left EXCEPT !.hours = @ - 1]
    /\ grant' = [u \in Users |-> [v \in Machines |-> [grant[u][v] EXCEPT !.left = Later(@)]]]
    /\ groupGrant' = [g \in Groups |-> [v \in Machines |-> [groupGrant[g][v] EXCEPT !.left = Later(@)]]]
    /\ slot' = [c \in Clients |-> [slot[c] EXCEPT !.left = Later(@)]]
    /\ UNCHANGED <<people, request, wire, seq, mishaps, todo>>

\* wsticket.TTL passes.
TicketAges == \E e \in ticket :
    /\ e.fresh /\ left.stale > 0
    /\ left' = [left EXCEPT !.stale = @ - 1]
    /\ ticket' = (ticket \ {e}) \union {[e EXCEPT !.fresh = FALSE]}
    /\ UNCHANGED <<people, rights, minted, open, slot, seq, mishaps, todo>>

----------------------------------------------------------------------------
Visit(c) == Auth(c) \/ Consume(c) \/ Identity(c) \/ Direct(c) \/ MyGroups(c) \/ GroupsGrants(c) \/ Issue(c) \/ Open(c)
Manage(c) ==
    \/ CreateUser(c) \/ FindUser(c) \/ SaveUser(c)
    \/ CreateGroup(c) \/ DeleteGroup(c) \/ DropMembers(c) \/ DropGrants(c) \/ FindGroup(c) \/ ReplaceMembers(c)
Entitle(c) ==
    \/ ReadGrant(c) \/ Upsert(c) \/ Revoke(c)
    \/ Apply(c) \/ CountPending(c) \/ File(c) \/ ReadRequest(c) \/ Decide(c)

AccessInit(scene) ==
    /\ user = scene.user /\ group = scene.group /\ member = scene.member
    /\ grant = [u \in Users |-> [v \in Machines |-> NoRow]]
    /\ groupGrant = [g \in Groups |-> [v \in Machines |->
                       IF <<g, v>> \in scene.granted THEN [id |-> 1, left |-> Forever] ELSE NoRow]]
    /\ request = <<>> /\ ticket = {} /\ minted = {} /\ open = <<>>
    /\ slot = [c \in Clients |-> Free]
    /\ seq = 1 /\ mishaps = 0 /\ todo = scene.todo /\ left = scene.left

AccessNext == (\E c \in Clients : Visit(c) \/ Manage(c) \/ Entitle(c)) \/ HourPasses \/ TicketAges
=============================================================================
