-------------------------------- MODULE Access ---------------------------------
(***************************************************************************)
(* Organisation units, accounts, roles and their assignments, and what an   *)
(* account may see.  Authorisations are computed anew for every request,   *)
(* from the assignments that count and the tree of active units; one       *)
(* resource is judged by a function, a list by a clause of the query.      *)
(***************************************************************************)
EXTENDS Naturals

CONSTANTS
    Unit,       \* organisation units; they are created in some order
    Root,       \* the unit that bootstrap creates
    User,       \* accounts
    Assignment, \* rows of role_assignments
    MaxBumps    \* bound: changes of an account's authz_version

ASSUME RootIsUnit == Root \in Unit /\ MaxBumps \in Nat

VARIABLES
    unit,        \* organization_units: the parent and the flags
    account,     \* user_accounts
    roleCounts,  \* the role that is assigned is active and has the permission
    assignment,  \* role_assignments of that role
    reply        \* of a request that has just been served: was the resource in the
                 \* list, could it be opened, and what did each assignment let in

administration == <<unit, account, roleCounts, assignment>>
accessVars == <<administration, reply>>

ScopeType == {"global", "own_org", "org_and_descendants", "custom_orgs", "owned", "assigned"}
Window == {"ahead", "open", "over"}  \* is it between effective_from and expires_at?
OrgScopes == {"own_org", "org_and_descendants", "custom_orgs"}

\* Faulty: any scope may carry units.
AnyForm(scope, units) == scope = "custom_orgs" => units # {}

\* DataScopeInput.validate_shape
WellFormed(scope, units) ==
    /\ scope = "custom_orgs" => units # {}
    /\ units # {} => scope \in {"custom_orgs", "org_and_descendants"}

NoUnit == "no unit"
NoUser == "no user"
NoReply == [units |-> {}]

AccessTypeOK ==
    /\ unit \in [Unit -> [made : BOOLEAN, parent : Unit \cup {NoUnit}, active : BOOLEAN]]
    /\ account \in [User -> [unit : Unit, version : 1 .. MaxBumps + 1]]
    /\ roleCounts \in BOOLEAN
    /\ assignment \in [Assignment ->
           [user : User \cup {NoUser}, scope : ScopeType, units : SUBSET Unit, active : BOOLEAN,
            window : Window]]
    /\ unit[Root].made
    /\ \A u \in Unit : unit[u].made /\ unit[u].parent # NoUnit => unit[unit[u].parent].made
    /\ \A a \in Assignment :
          assignment[a].units # {} => assignment[a].scope \in {"custom_orgs", "org_and_descendants"}
    /\ reply = NoReply \/ reply \in [listed : BOOLEAN, opened : BOOLEAN,
                                    units : [Assignment -> SUBSET Unit]]

AccessInit ==
    /\ unit = [u \in Unit |-> [made |-> u = Root, parent |-> NoUnit, active |-> TRUE]]
    /\ account = [x \in User |-> [unit |-> Root, version |-> 1]]
    /\ roleCounts = TRUE
    /\ assignment = [a \in Assignment |->
           [user |-> NoUser, scope |-> "owned", units |-> {}, active |-> FALSE,
            window |-> "ahead"]]
    /\ reply = NoReply

-------------------------------------------------------------------------------
(* What an account may see. *)

ActiveUnits == {u \in Unit : unit[u].made /\ unit[u].active}

\* Faulty: units are entered through units that are not active.
AllChildren(us) == {u \in ActiveUnits : \E p \in us : unit[u].parent = p}
                     \cup {u \in Unit : unit[u].made /\ \E p \in us : unit[u].parent = p}

\* The index of children: active units only.
ActiveChildren(us) == {u \in ActiveUnits : unit[u].parent \in us}

\* descendant_organization_ids: the search ends with the least set of units that
\* has the active ones of the roots and the active children of its members.
Descendants(roots) ==
    {u \in Unit : \A us \in SUBSET Unit :
        roots \cap ActiveUnits \subseteq us /\ ActiveChildren(us) \subseteq us => u \in us}

\* _scope_ids
ScopeUnits(a) ==
    LET row == assignment[a] IN
    CASE row.scope = "own_org" -> {account[row.user].unit}
      [] row.scope = "custom_orgs" -> row.units \cap ActiveUnits
      [] row.scope = "org_and_descendants" ->
             Descendants(IF row.units = {} THEN {account[row.user].unit} ELSE row.units)
      [] OTHER -> {}

\* load_current_user: assignments that count, for an account whose unit is active
Counts(a, x) ==
    /\ assignment[a].user = x /\ assignment[a].active /\ assignment[a].window = "open"
    /\ roleCounts
    /\ account[x].unit \in ActiveUnits

Grants(x) ==
    {[scope |-> assignment[a].scope, units |-> ScopeUnits(a)] :
        a \in {b \in Assignment : Counts(b, x)}}

\* can_access judges one resource, grant by grant.
CanAccess(x, resource) ==
    \E g \in Grants(x) :
        \/ g.scope = "global"
        \/ g.scope \in OrgScopes /\ resource.unit \in g.units
        \/ g.scope = "owned" /\ resource.owner = x
        \/ g.scope = "assigned" /\ resource.assignee = x

\* Faulty: ownership counts only inside the units of the account.
ListedInside(x, resource) ==
    LET units == UNION {g.units : g \in {h \in Grants(x) : h.scope \in OrgScopes}}
        has(scope) == \E g \in Grants(x) : g.scope = scope
    IN \/ has("global")
       \/ /\ units # {} => resource.unit \in units
          /\ \/ units # {}
             \/ has("owned") /\ resource.owner = x
             \/ has("assigned") /\ resource.assignee = x

\* data_scope_clause builds one condition for a query out of all grants.
Listed(x, resource) ==
    LET units == UNION {g.units : g \in {h \in Grants(x) : h.scope \in OrgScopes}}
        has(scope) == \E g \in Grants(x) : g.scope = scope
    IN \/ has("global")
       \/ resource.unit \in units
       \/ has("owned") /\ resource.owner = x
       \/ has("assigned") /\ resource.assignee = x

Resource == [unit : Unit, owner : User \cup {NoUser}, assignee : User \cup {NoUser}]

\* A request of x for a list, and for one resource of it.
AskFor(x, resource) ==
    /\ reply' = [listed |-> Listed(x, resource), opened |-> CanAccess(x, resource),
                 units |-> [a \in Assignment |->
                     IF Counts(a, x) THEN ScopeUnits(a) ELSE {}]]
    /\ UNCHANGED administration

-------------------------------------------------------------------------------
(* Administration. *)

\* create_organization: below an active unit, or as another root
CreateUnit(u, parent) ==
    /\ ~unit[u].made /\ parent \in ActiveUnits \cup {NoUnit}
    /\ unit' = [unit EXCEPT ![u] = [made |-> TRUE, parent |-> parent, active |-> TRUE]]
    /\ UNCHANGED <<account, roleCounts, assignment>>

\* update_organization
SwitchUnit(u) ==
    /\ unit[u].made
    /\ unit' = [unit EXCEPT ![u].active = ~@]
    /\ UNCHANGED <<account, roleCounts, assignment>>

\* Every change of what an account may do is counted in its authz_version.
Bumped(row) == [row EXCEPT !.version = @ + 1]

\* create_role_assignment; an equal one that is active is refused, even if it is over.
\* Who administers everything may name any units, others only active ones.
Grant(a, x, scope, units, window) ==
    /\ assignment[a].user = NoUser /\ roleCounts /\ account[x].version <= MaxBumps
    /\ WellFormed(scope, units)
    /\ \A b \in Assignment : assignment[b].active =>
          <<assignment[b].user, assignment[b].scope, assignment[b].units>> # <<x, scope, units>>
    /\ assignment' = [assignment EXCEPT ![a] =
           [user |-> x, scope |-> scope, units |-> units, active |-> TRUE, window |-> window]]
    /\ account' = [account EXCEPT ![x] = Bumped(@)]
    /\ UNCHANGED <<unit, roleCounts>>

\* The time comes at which an assignment takes effect or expires, which nobody counts.
\* (That of a revoked one changes nothing.)
PassWindow(a) ==
    /\ assignment[a].active /\ assignment[a].window # "over"
    /\ assignment' = [assignment EXCEPT
           ![a].window = IF assignment[a].window = "ahead" THEN "open" ELSE "over"]
    /\ UNCHANGED <<unit, account, roleCounts>>

\* revoke_role_assignment
Revoke(a) ==
    /\ assignment[a].active /\ account[assignment[a].user].version <= MaxBumps
    /\ assignment' = [assignment EXCEPT ![a].active = FALSE]
    /\ account' = [account EXCEPT ![assignment[a].user] = Bumped(@)]
    /\ UNCHANGED <<unit, roleCounts>>

\* update_user: the account moves to another unit.
MoveUser(x, u) ==
    /\ u \in ActiveUnits /\ account[x].version <= MaxBumps
    /\ account' = [account EXCEPT ![x] = Bumped([@ EXCEPT !.unit = u])]
    /\ UNCHANGED <<unit, roleCounts, assignment>>

Holders == {x \in User : \E a \in Assignment : assignment[a].user = x /\ assignment[a].active}

\* update_role: the role is switched, or its permission taken or given.
UpdateRole ==
    /\ \A x \in Holders : account[x].version <= MaxBumps
    /\ roleCounts' = ~roleCounts
    /\ account' = [x \in User |-> IF x \in Holders THEN Bumped(account[x]) ELSE account[x]]
    /\ UNCHANGED <<unit, assignment>>

Administer ==
    \/ \E u \in Unit, p \in Unit \cup {NoUnit} : CreateUnit(u, p)
    \/ \E u \in Unit : SwitchUnit(u)
    \/ UpdateRole
    \/ \E x \in User, u \in Unit : MoveUser(x, u)
    \/ \E a \in Assignment : Revoke(a) \/ PassWindow(a)
    \/ \E a \in Assignment, x \in User, scope \in ScopeType, units \in SUBSET Unit,
         window \in Window : Grant(a, x, scope, units, window)

AccessNext ==
    \/ Administer /\ reply' = NoReply
    \/ \E x \in User, resource \in Resource : AskFor(x, resource)

AccessSpec == AccessInit /\ [][AccessNext]_accessVars

-------------------------------------------------------------------------------
(* Properties. *)

\* A list shows a resource exactly when opening it is allowed, for every combination
\* of scopes and every state of the tree.
ListShowsWhatOpens == reply # NoReply => (reply.listed <=> reply.opened)

\* Whoever is let into units through the tree is let into them by a path of active
\* units: a unit that is switched off takes what is below it along.
ReachedThroughActive ==
    [][reply' # NoReply =>
          \A a \in Assignment : assignment[a].scope = "org_and_descendants" =>
              \A u \in reply'.units[a] :
                  /\ unit[u].active
                  /\ \/ u \in assignment[a].units
                     \/ assignment[a].units = {} /\ u = account[assignment[a].user].unit
                     \/ unit[u].parent \in reply'.units[a]]_accessVars

\* What an account may do is judged alike for one resource and for lists, and reaches
\* down the tree through active units only.
AccessHolds == []AccessTypeOK /\ []ListShowsWhatOpens /\ ReachedThroughActive
===============================================================================
