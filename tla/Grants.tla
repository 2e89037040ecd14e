------------------------------- MODULE Grants -------------------------------
(* The roles of one account: granted and narrowed by administrators, and      *)
(* reconciled with what a directory, a RADIUS server or an identity provider  *)
(* says of the person at each sign-in, and what of an asset, its finding and  *)
(* the ticket about it those roles show (api/v1/auth.py                       *)
(* _sync_directory_roles, api/v1/admin.py, security/scope.py).                *)
EXTENDS Naturals, FiniteSets

CONSTANTS
  Roles,      \* role slugs of the tenant, built-in ones included
  Defaults,   \* default_role_slugs of the directory's configuration
  Teams,
  Estate      \* team_id NULL: the whole estate

ASSUME GrantsAssumption == Defaults \subseteq Roles /\ Estate \notin Teams

VARIABLES
  grant,      \* rows of user_roles
  exists,     \* the account was created
  byHand,     \* roles a person granted, or re-pointed at teams
  justified,  \* what the last synchronisation was told
  team,       \* the teams of an asset, of its finding and of the ticket
  unownedVisible  \* settings["team_scope"]["unowned_visible"]

grantVars == <<grant, exists, byHand, justified, team, unownedVisible>>
estateVars == <<team, unownedVisible>>

Owned == {"asset", "finding", "ticket"}
Nobody == Estate   \* team_id NULL as well

UserRole == [role : Roles, team : Teams \cup {Estate}, origin : {"manual", "directory"}]

GrantsTypeOK ==
  /\ grant \subseteq UserRole /\ exists \in BOOLEAN
  /\ byHand \subseteq Roles /\ justified \subseteq Roles
  /\ team \in [Owned -> Teams \cup {Nobody}] /\ unownedVisible \in BOOLEAN

GrantsInit ==
  /\ grant = {} /\ exists = FALSE /\ byHand = {} /\ justified = {}
  /\ team = [x \in Owned |-> Nobody] /\ unownedVisible \in BOOLEAN

RolesOf(rows) == {g.role : g \in rows}
FromDirectory == {g \in grant : g.origin = "directory"}
Manual == grant \ FromDirectory

\* A caller without role:admin grants no role beyond its own permissions.
MayGrant(roles, caller) == roles \subseteq caller

\* One manual grant per role and team, or one for the estate.
AssignRoles(roles, teams) ==
  [role : roles, team : IF teams = {} THEN {Estate} ELSE teams, origin : {"manual"}]

\* Rows the directory justifies no more go, roles it brings are added for the
\* estate, and manual grants stay, also of roles the directory brings.
SyncDirectoryRoles(wanted) ==
  Manual \cup {g \in FromDirectory : g.role \in wanted}
    \cup [role : wanted \ RolesOf(grant), team : {Estate}, origin : {"directory"}]

\* What the groups of a person map to, and the defaults.
RolesFor(mapped) == mapped \cup Defaults

CreateUser(roles, teams, caller) ==
  /\ ~exists /\ MayGrant(roles, caller)
  /\ exists' = TRUE /\ grant' = AssignRoles(roles, teams) /\ byHand' = roles
  /\ UNCHANGED <<justified, estateVars>>

ProvisionFromDirectory(mapped) ==
  /\ ~exists /\ exists' = TRUE
  /\ grant' = SyncDirectoryRoles(RolesFor(mapped)) /\ justified' = RolesFor(mapped)
  /\ UNCHANGED <<byHand, estateVars>>

\* A sign-in that the directory vouched for, with sync_roles_on_login.
ApplyIdentity(mapped) ==
  /\ exists
  /\ grant' = SyncDirectoryRoles(RolesFor(mapped)) /\ justified' = RolesFor(mapped)
  /\ UNCHANGED <<exists, byHand, estateVars>>

\* One a RADIUS server or an identity provider vouched for, with a mapping.
ApplyAttributes(mapped) ==
  /\ exists
  /\ grant' = SyncDirectoryRoles(mapped) /\ justified' = mapped
  /\ UNCHANGED <<exists, byHand, estateVars>>

\* PATCH /users: the manual grants are replaced.
UpdateUserRoles(roles, caller) ==
  /\ exists /\ MayGrant(roles, caller)
  /\ grant' = FromDirectory \cup AssignRoles(roles, {})
  /\ byHand' = roles
  /\ UNCHANGED <<exists, justified, estateVars>>

\* PUT /users/scope: every role is granted anew, for the teams or the estate.
SetUserScope(teams) ==
  /\ exists /\ grant # {}
  /\ grant' = AssignRoles(RolesOf(grant), teams) /\ byHand' = RolesOf(grant)
  /\ UNCHANGED <<exists, justified, estateVars>>

-----------------------------------------------------------------------------
(* What the roles show.                                                       *)

\* The principal is restricted when every grant names a team; to nothing when it
\* has no grants.
Scope ==
  LET teams == {g.team : g \in grant}
  IN  [restricted |-> Estate \notin teams, teams |-> teams,
       unowned |-> teams # {} /\ unownedVisible]

\* `column IN teams`, and the unowned when the tenant says so; nothing at all for
\* a scope without teams.
Members(owner, scope) ==
  ~scope.restricted \/ (scope.teams # {} /\ (owner \in scope.teams \/ (scope.unowned /\ owner = Nobody)))

Coalesce(first, second) == IF first # Nobody THEN first ELSE second

OwningTeam == Coalesce(team["finding"], team["asset"])
OwningTeamForTicket == Coalesce(team["ticket"], OwningTeam)

\* Does the list of its kind show the row?
Listed(x) ==
  CASE x = "asset" -> Members(team["asset"], Scope)
    [] x = "finding" -> Members(OwningTeam, Scope)
    [] x = "ticket" -> Members(OwningTeamForTicket, Scope)

AssetVisible(scope) ==
  ~scope.restricted
    \/ (IF team["asset"] = Nobody THEN scope.unowned ELSE team["asset"] \in scope.teams)

Bug_FindingVisible(scope) ==
  ~scope.restricted
    \/ (IF team["finding"] = Nobody THEN scope.unowned ELSE team["finding"] \in scope.teams)

FindingVisible(scope) ==
  ~scope.restricted
    \/ (IF team["finding"] # Nobody THEN team["finding"] \in scope.teams ELSE AssetVisible(scope))

TicketVisible(scope) ==
  ~scope.restricted
    \/ (IF team["ticket"] # Nobody THEN team["ticket"] \in scope.teams ELSE FindingVisible(scope))

\* Is the row itself served?
Visible(x) ==
  CASE x = "asset" -> AssetVisible(Scope)
    [] x = "finding" -> FindingVisible(Scope)
    [] x = "ticket" -> TicketVisible(Scope)

\* An asset is given to a team, a finding or a ticket is assigned.
Assign(x, t) ==
  /\ team' = [team EXCEPT ![x] = t]
  /\ UNCHANGED <<grant, exists, byHand, justified, unownedVisible>>

GrantsNext ==
  \/ \E x \in Owned, t \in Teams \cup {Nobody} : Assign(x, t)
  \/ \E roles, caller \in SUBSET Roles, teams \in SUBSET Teams : CreateUser(roles, teams, caller)
  \/ \E mapped \in SUBSET Roles :
       ProvisionFromDirectory(mapped) \/ ApplyIdentity(mapped) \/ ApplyAttributes(mapped)
  \/ \E roles, caller \in SUBSET Roles : UpdateUserRoles(roles, caller)
  \/ \E teams \in SUBSET Teams : SetUserScope(teams)

GrantsSpec == GrantsInit /\ [][GrantsNext]_grantVars

-----------------------------------------------------------------------------
\* Every role somebody holds is accounted for: a person granted it and nobody
\* took it back, or the last synchronisation justified it; and what the
\* directory brought is never narrower than the estate.
RolesAreAccounted ==
  /\ RolesOf(Manual) \subseteq byHand
  /\ RolesOf(FromDirectory) \subseteq justified
  /\ \A g \in FromDirectory : g.team = Estate

\* A list shows a row exactly if the row itself is served, whoever owns the asset,
\* the finding and the ticket and however the account was narrowed ("visible while
\* its finding is not (or the reverse) is a segregation hole").
ListsShowWhatIsServed == \A x \in Owned : Listed(x) = Visible(x)

\* Nobody holds a role nobody gave, and nobody is listed what is not served (the two above).
GrantsAreServed == RolesAreAccounted /\ ListsShowWhatIsServed
=============================================================================
