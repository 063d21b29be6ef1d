---- MODULE Access ----
(***************************************************************************)
(* Who may do what to one repository, as the services decide it, each with *)
(* code of its own: the docker token service (web/src/lib/access.ts,       *)
(* web/src/app/api/registry/token/route.ts), the REST API                  *)
(* (web/src/lib/api/access.ts), and the pages (web/src/lib/repo-access.ts, *)
(* web/src/lib/viewer.ts, web/src/lib/session.ts).                         *)
(*                                                                         *)
(* A situation is everything the three look up about a caller and a        *)
(* repository.  A credential's repository list is told apart by whether    *)
(* the repository is on it.                                                *)
(***************************************************************************)
EXTENDS Naturals

VARIABLE situation

Permissions == {"pull", "push", "admin"}
Verbs == {"pull", "push", "delete"}
OrgRoles == {"owner", "admin", "member", "viewer"}
Lists == {"all", "listed", "unlisted"}

Strangers == [kind : {"anonymous"}]
Sessions == [kind : {"user"}, isAdmin : BOOLEAN, patScope : {"none"}, limitedTo : {"any"}, list : {"all"}]
AccessTokens == [kind : {"user"}, isAdmin : BOOLEAN, patScope : {"read", "write"},
                 limitedTo : {"any", "here", "elsewhere"}, list : Lists]
ServiceAccounts == [kind : {"sa"}, ours : BOOLEAN, permission : Permissions, list : Lists]

\* Unrestricted tokens have no list (normalizeRestriction), a list holds only
\* repositories of the credential's own organization, which exist.  Somebody who
\* is no member may still have grants: not every way out removes them.
Consistent(s) ==
    /\ s.caller.kind = "user" => (s.caller.limitedTo = "any" => s.caller.list = "all")
    /\ s.caller.kind = "user" => (s.caller.limitedTo = "elsewhere" => s.caller.list # "listed")
    /\ s.caller.kind = "sa" => (~s.caller.ours => s.caller.list # "listed")
    /\ s.caller.kind \in {"user", "sa"} => (~s.exists => s.caller.list # "listed")
    /\ s.caller.kind # "user" => s.role = "none" /\ s.grant = "none" /\ s.teamGrant = "none"
    /\ ~s.exists => s.grant = "none" /\ s.teamGrant = "none"

Situations ==
    {s \in [caller : Strangers \cup Sessions \cup AccessTokens \cup ServiceAccounts,
            role : OrgRoles \cup {"none"}, grant : Permissions \cup {"none"}, teamGrant : Permissions \cup {"none"},
            proxy : BOOLEAN, exists : BOOLEAN, visibility : {"public", "private"}, moved : BOOLEAN] : Consistent(s)}

----------------------------------------------------------------------------
(* What the three share. *)

RANK == [none |-> 0, pull |-> 1, push |-> 2, admin |-> 3]
maxPermission(a, b) == IF RANK[a] >= RANK[b] THEN a ELSE b

permissionFromRole(role) ==
    CASE role \in {"owner", "admin"} -> "admin"
      [] role = "member" -> "push"
      [] role = "viewer" -> "pull"
      [] role = "none" -> "none"

grantedPermission(s) == maxPermission(s.grant, s.teamGrant)
ROLE_REGISTRY_ACTIONS(role) ==
    CASE role \in {"owner", "admin"} -> Verbs
      [] role = "member" -> {"pull", "push"}
      [] role = "viewer" -> {"pull"}
      [] role = "none" -> {}

restrictionAllows(s) ==
    \/ s.caller.limitedTo = "any"
    \/ s.caller.limitedTo = "here" /\ s.caller.list \in {"all", "listed"}

----------------------------------------------------------------------------
(* The docker token service. *)

OfPermission == [pull |-> {"pull"}, push |-> {"pull", "push"}, admin |-> Verbs]
IfPublic(s) == IF s.visibility = "public" /\ (s.exists \/ s.proxy) THEN {"pull"} ELSE {}

\* A member's role, raised by the grants; a grant "pull" raises nothing.
AsMember(s) ==
    LET base == ROLE_REGISTRY_ACTIONS(s.role)
    IN  CASE s.role = "none" -> {}
          [] s.role # "none" /\ s.exists /\ grantedPermission(s) = "admin" -> Verbs
          [] s.role # "none" /\ s.exists /\ grantedPermission(s) = "push" -> base \cup {"pull", "push"}
          [] OTHER -> base

AsUser(s) ==
    LET may == IF s.caller.isAdmin THEN Verbs
               ELSE IF AsMember(s) = {} THEN IfPublic(s) ELSE AsMember(s)
        scoped == IF s.caller.patScope = "read" THEN may \cap {"pull"} ELSE may
    IN  IF restrictionAllows(s) THEN scoped ELSE {}

AsServiceAccount(s) ==
    IF ~s.caller.ours THEN IfPublic(s)
    ELSE IF s.caller.list = "unlisted" \/ (s.caller.list = "listed" /\ ~s.exists) THEN {}
    ELSE OfPermission[s.caller.permission]

\* allowedRepositoryActions that takes no notice of the scope of a token.
allowedRepositoryActions_NoScope(s, requested) ==
    LET allowed == CASE s.caller.kind = "anonymous" -> IfPublic(s)
                     [] s.caller.kind = "user" -> AsUser([s EXCEPT !.caller.patScope = "none"])
                     [] s.caller.kind = "sa" -> AsServiceAccount(s)
    IN  requested \cap (IF s.proxy THEN allowed \cap {"pull"} ELSE allowed)

allowedRepositoryActions(s, requested) ==
    LET allowed == CASE s.caller.kind = "anonymous" -> IfPublic(s)
                     [] s.caller.kind = "user" -> AsUser(s)
                     [] s.caller.kind = "sa" -> AsServiceAccount(s)
    IN  requested \cap (IF s.proxy THEN allowed \cap {"pull"} ELSE allowed)

\* GET: a former name grants pulls of its target only; a pull token of
\* somebody who may push says so.
Grants(s, requested) ==
    IF s.moved THEN allowedRepositoryActions(s, requested \cap {"pull"})
    ELSE LET granted == allowedRepositoryActions(s, requested)
         IN  granted \cup (IF "pull" \in granted /\ "push" \notin requested
                           THEN allowedRepositoryActions(s, {"push"}) ELSE {})

----------------------------------------------------------------------------
(* The REST API. *)

Admin(s) == s.caller.kind = "user" /\ s.caller.isAdmin
orgRole(s) == IF Admin(s) THEN "owner" ELSE IF s.caller.kind = "user" THEN s.role ELSE "none"

visibleRepositoriesFilter(s) ==
    \/ s.visibility = "public"
    \/ s.caller.kind = "user" /\ (s.caller.isAdmin \/ s.role # "none")

repoFilter(s) ==
    CASE s.caller.kind = "anonymous" -> s.visibility = "public"
      [] s.caller.kind = "sa" -> s.visibility = "public" \/ (s.caller.ours /\ s.caller.list # "unlisted")
      [] s.caller.kind = "user" -> visibleRepositoriesFilter(s) /\ restrictionAllows(s)

\* loadRepo: what may be done to a repository that is seen.
loadRepo(s) ==
    LET inScope == s.caller.kind = "user" /\ s.caller.patScope # "read" /\ restrictionAllows(s)
        role == orgRole(s)
        granted == IF role # "none" /\ ~Admin(s) THEN grantedPermission(s) ELSE "none"
        own == s.caller.kind = "sa" /\ s.caller.ours /\ s.caller.list # "unlisted"
        manage == inScope /\ (role \in {"owner", "admin"} \/ granted = "admin")
    IN  [manage |-> manage,
         delete |-> manage \/ (own /\ s.caller.permission = "admin"),
         write |-> /\ ~s.proxy
                   /\ \/ inScope /\ (role \in {"owner", "admin", "member"} \/ granted \in {"push", "admin"})
                      \/ own /\ s.caller.permission # "pull"]

----------------------------------------------------------------------------
(* The pages. *)

effectivePermission(s) ==
    CASE Admin(s) -> "admin"
      [] ~Admin(s) /\ s.role = "none" -> "none"
      [] OTHER -> maxPermission(permissionFromRole(s.role), grantedPermission(s))

getRepoContext(s) ==
    [manage |-> effectivePermission(s) = "admin",
     write |-> effectivePermission(s) \in {"push", "admin"},
     delete |-> effectivePermission(s) = "admin"]

----------------------------------------------------------------------------

AccessInit == situation \in Situations

\* What the services say of one situation.
Agreement(s) ==
    LET docker == allowedRepositoryActions(s, Verbs)
        api == loadRepo(s)
        page == getRepoContext(s)
        ListedOut == s.caller.kind = "sa" /\ s.caller.ours /\ s.caller.list = "unlisted"
    IN  /\ "pull" \in docker <=> repoFilter(s) /\ ~ListedOut
        /\ "push" \in docker <=> repoFilter(s) /\ api.write
        /\ ~s.proxy => ("delete" \in docker <=> repoFilter(s) /\ api.delete)
        /\ s.caller.kind = "user" /\ s.caller.patScope = "none" =>
               /\ page.manage <=> api.manage
               /\ page.delete <=> api.delete
               /\ ~s.proxy => (page.write <=> api.write)

\* lib/api/access.ts and lib/viewer.ts say that they mirror the token service.
\* They do for every repository that exists: what can be pulled is seen and
\* the other way round, pushing and deleting go together, and a session may
\* the same by page as by API.  What differs is listed: a service account's
\* list keeps it from pulling public repositories of its own organization
\* that it still sees; a proxy cache takes deletions by the API but not from
\* docker; the pages leave pushing to a proxy cache to be refused later.
ServicesAgree == situation.exists => Agreement(situation)

\* GET of the token endpoint: whatever scope a client asks for, a token
\* carries nothing that was not asked for but "push" next to a pull, nothing
\* the caller may not do, and under a former name nothing but pulls.
TokensCarryNoMore ==
    LET s == situation
    IN  \A requested \in SUBSET Verbs :
            LET granted == Grants(s, requested)
            IN  /\ granted \subseteq requested \cup (IF "pull" \in requested THEN {"push"} ELSE {})
                /\ granted \subseteq allowedRepositoryActions(s, Verbs)
                /\ s.moved => granted \subseteq {"pull"}
====
