------------------------------ MODULE Redirects ------------------------------
(***************************************************************************)
(* Names of repositories and what becomes of them: renames, transfers and  *)
(* organization renames of the web app (web/src/lib/redirects.ts,          *)
(* lib/repo-move.ts, app/actions/repo-tools.ts) leave rows in two redirect *)
(* tables; registryd (internal/store/redirects.go, internal/api/           *)
(* redirects.go) serves pulls of a former name through them and refuses    *)
(* pushes.  It reads them through a snapshot of up to thirty seconds,      *)
(* which is taken to be fresh here.                                        *)
(*                                                                         *)
(* A request reads first what it checks and what it goes by, and writes     *)
(* afterwards, in as many steps as the code has transactions and statements *)
(* that stand alone; other requests may come between any two of them, and   *)
(* the process may die there.  What a request reads before it writes counts *)
(* as one read: how old it has become shows when it writes.  Permission and *)
(* quota checks, which only refuse, are left out, and so is the deletion of *)
(* organizations.                                                           *)
(***************************************************************************)
EXTENDS Naturals, FiniteSets

CONSTANTS
    Orgs,     \* organization ids
    Slugs,    \* organization slugs
    Names,    \* repository names
    Repos,    \* repository ids
    Requests, \* requests that may be under way at a time
    Nowhere,     \* no row, no answer, no request
    MaxRenames  \* bound on the requests that rename or move something

\* What a request has read and has still to do.
Creations == [kind : {"create", "push"}, org : Orgs, slug : Slugs, name : Names]
Clearings == [kind : {"clear"}, org : Orgs, slug : Slugs, name : Names, repo : Repos]
Changes == [kind : {"rename", "move"}, repo : Repos, org : Orgs, slug : Slugs, old : Names,
            target : Orgs, targetSlug : Slugs, name : Names]
OrgCreations == [kind : {"orgInsert", "orgFree"}, slug : Slugs]
OrgRenames == [kind : {"orgUpdate", "orgClear", "orgAdd"}, org : Orgs, from : Slugs, to : Slugs]
Work == Creations \cup Clearings \cup Changes \cup OrgCreations \cup OrgRenames

ASSUME ConstantsAssumption ==
    /\ Nowhere \notin Orgs \cup Slugs \cup Repos \cup (Orgs \X Names)
    /\ Nowhere \notin Work
    /\ MaxRenames \in Nat

VARIABLES
    slug,     \* organization.slug
    home,     \* repositories: organization and name
    orgRed,   \* organization_redirects: former slug to organization
    repoRed,  \* repository_redirects: former slug and name to repository
    req,      \* the requests between their statements
    owners,   \* history: the organizations that have had a slug
    called,   \* history: the repositories that have had a name in an
              \* organization, and the last of them if it still exists
    known,    \* history: the repositories so far; ids are never used again
    renames,  \* how many requests to rename or move something there were
    torn      \* history: the organizations in which a request wrote what no
              \* longer fitted, because others had come between or it died

names == <<slug, home>>
tables == <<orgRed, repoRed>>
history == <<owners, called, known, renames, torn>>
namesVars == <<names, tables, req, history>>

NamesInit ==
    /\ slug = [o \in Orgs |-> Nowhere]
    /\ home = [r \in Repos |-> Nowhere]
    /\ orgRed = [s \in Slugs |-> Nowhere]
    /\ repoRed = [k \in Slugs \X Names |-> Nowhere]
    /\ req = [q \in Requests |-> Nowhere]
    /\ owners = [s \in Slugs |-> {}]
    /\ called = [k \in Orgs \X Names |-> [last |-> Nowhere, ever |-> {}]]
    /\ known = {}
    /\ renames = 0
    /\ torn = {}

\* GetRepository: the repositories (one at most) with this slug and name.
At(s, n) == {r \in Repos : home[r] # Nowhere /\ slug[home[r][1]] = s /\ home[r][2] = n}

OrgIDBySlug(s) == {o \in Orgs : slug[o] = s}

NoneAt(o, n) == \A r \in Repos : home[r] # <<o, n>>

-----------------------------------------------------------------------------
(* Finding a name *)

\* Repo and GetRepositoryByID: the repository that a row of the name points at.
Target(u, n) == {r \in Repos : repoRed[<<u, n>>] = r /\ home[r] # Nowhere}

\* Mutant: the former slugs of every organization are searched.
ResolveMoved_AnyOrg(s, n) ==
    LET moved == orgRed[s] # Nowhere
        there == IF moved THEN At(slug[orgRed[s]], n) ELSE {}
    IN  IF there # {} THEN there
        ELSE IF Target(s, n) # {} THEN Target(s, n)
        ELSE UNION {Target(u, n) : u \in {v \in Slugs : orgRed[v] # Nowhere}}

\* ResolveMoved: through the organization's redirect to its present slug,
\* then by the redirect rows under the slug asked for, the present slug and
\* the former slugs of the organization; these come in any order.  The
\* answers it may give, none for an unknown name.
ResolveMoved(s, n) ==
    LET moved == orgRed[s] # Nowhere
        there == IF moved THEN At(slug[orgRed[s]], n) ELSE {}
        orgs == IF moved THEN {orgRed[s]} ELSE OrgIDBySlug(s)
        formers == UNION {Target(u, n) : u \in {v \in Slugs : orgRed[v] \in orgs}}
    IN  IF there # {} THEN there
        ELSE IF Target(s, n) # {} THEN Target(s, n)
        ELSE IF moved /\ Target(slug[orgRed[s]], n) # {} THEN Target(slug[orgRed[s]], n)
        ELSE formers

\* lookupRepoRead: the exact name first.
Lookup(s, n) == IF At(s, n) # {} THEN At(s, n) ELSE ResolveMoved(s, n)

-----------------------------------------------------------------------------
(* Writing the tables *)

\* Mutant: redirects under former slugs of the organization survive.
Cleared_Present(red, o, s, n) ==
    [k \in Slugs \X Names |-> IF k = <<s, n>> THEN Nowhere ELSE red[k]]

\* clearRepositoryRedirects: a repository takes n in o, known as s.
Cleared(red, o, s, n) ==
    [k \in Slugs \X Names |->
        IF k[2] = n /\ (k[1] = s \/ orgRed[k[1]] = o) THEN Nowhere ELSE red[k]]

\* addRepositoryRedirect.
Added(red, s, n, r) == [red EXCEPT ![<<s, n>>] = r]

\* A repository gets a name (history).
Settle(o, n, r) ==
    called' = [called EXCEPT ![<<o, n>>] = [last |-> r, ever |-> @.ever \cup {r}]]

\* A request begins with what it has read, goes on, or ends.
Starts(q, work) == req[q] = Nowhere /\ req' = [req EXCEPT ![q] = work]
Does(q, kind) == req[q] # Nowhere /\ req[q].kind = kind
Goes(q, work) == req' = [req EXCEPT ![q] = work]
Ends(q) == Goes(q, Nowhere)

StartsRename(q, work) ==
    /\ renames < MaxRenames /\ renames' = renames + 1
    /\ Starts(q, work)
    /\ UNCHANGED <<names, tables, owners, called, known, torn>>

\* Renames of organizations that have changed the slug and not the table yet.
Renaming(o) == \E q \in Requests : (Does(q, "orgClear") \/ Does(q, "orgAdd")) /\ req[q].org = o

\* A request has written a part of what belongs together.
HalfWritten(o) == Renaming(o) \/ \E q \in Requests : Does(q, "clear") /\ req[q].org = o

\* A request writes in these organizations: while one of them is renamed, or on
\* reads of which something no longer holds, they are torn (history).
Touch(orgs, holds) ==
    torn' = torn \cup {o \in orgs : Renaming(o) \/ ~holds}

-----------------------------------------------------------------------------
(* Repositories *)

\* createRepository of the pages and of the API, and copies of images into a
\* repository that is not there: the checks, the row, and in a statement of
\* its own the redirects that pointed the name elsewhere.
CreateRepository(q, o, n) ==
    /\ slug[o] # Nowhere /\ NoneAt(o, n)
    /\ Starts(q, [kind |-> "create", org |-> o, slug |-> slug[o], name |-> n])
    /\ UNCHANGED <<names, tables, history>>

InsertRepository(q, r) ==
    /\ Does(q, "create")
    /\ LET o == req[q].org  n == req[q].name IN
       /\ r \notin known /\ NoneAt(o, n)
       /\ home' = [home EXCEPT ![r] = <<o, n>>]
       /\ Settle(o, n, r)
       /\ Touch({o}, TRUE)
       /\ Goes(q, [kind |-> "clear", org |-> o, slug |-> req[q].slug, name |-> n, repo |-> r])
    /\ known' = known \cup {r}
    /\ UNCHANGED <<slug, tables, renames, owners>>

ClearRedirects(q) ==
    /\ Does(q, "clear")
    /\ LET o == req[q].org  n == req[q].name IN
       /\ repoRed' = Cleared(repoRed, o, req[q].slug, n)
       /\ Touch({o}, home[req[q].repo] = <<o, n>> /\ slug[o] = req[q].slug)
    /\ Ends(q)
    /\ UNCHANGED <<names, orgRed, renames, owners, called, known>>

\* renameRepository: the checks, and the transaction.  By then the repository
\* may have another name, or be in another organization.
RenameRepository(q, r, n) ==
    /\ home[r] # Nowhere
    /\ LET o == home[r][1] IN
       /\ NoneAt(o, n)
       /\ StartsRename(q, [kind |-> "rename", repo |-> r, org |-> o, slug |-> slug[o], old |-> home[r][2],
                           target |-> o, targetSlug |-> slug[o], name |-> n])

\* moveRepositoryToOrganization: the plan, and the transaction.
MoveRepository(q, r, o) ==
    /\ home[r] # Nowhere /\ slug[o] # Nowhere
    /\ LET n == home[r][2]  from == home[r][1] IN
       /\ o # from /\ NoneAt(o, n)
       /\ StartsRename(q, [kind |-> "move", repo |-> r, org |-> from, slug |-> slug[from], old |-> n,
                           target |-> o, targetSlug |-> slug[o], name |-> n])

\* The transaction of either, which fails if the repository is gone or the name
\* taken: the column that the request changes, then redirects by what it read.
Change(q, kind, o, n) ==
    /\ Does(q, kind)
    /\ LET w == req[q]  r == w.repo IN
       /\ home[r] # Nowhere
       /\ \A x \in Repos : home[x] = <<o, n>> => x = r
       /\ home' = [home EXCEPT ![r] = <<o, n>>]
       /\ repoRed' = Added(Cleared(repoRed, w.target, w.targetSlug, w.name), w.slug, w.old, r)
       /\ Settle(o, n, r)
       /\ Touch({home[r][1], o, w.org, w.target},
                home[r] = <<w.org, w.old>> /\ slug[w.org] = w.slug /\ slug[w.target] = w.targetSlug)
    /\ Ends(q)
    /\ UNCHANGED <<slug, orgRed, renames, owners, known>>

UpdateName(q) == Does(q, "rename") /\ home[req[q].repo] # Nowhere /\ Change(q, "rename", home[req[q].repo][1], req[q].name)
UpdateOrganization(q) == Does(q, "move") /\ home[req[q].repo] # Nowhere /\ Change(q, "move", req[q].target, home[req[q].repo][2])

\* deleteRepository: the redirects to it go with it.
DeleteRepository(r) ==
    /\ home[r] # Nowhere
    /\ home' = [home EXCEPT ![r] = Nowhere]
    /\ repoRed' = [k \in Slugs \X Names |-> IF repoRed[k] = r THEN Nowhere ELSE repoRed[k]]
    /\ called' = [k \in Orgs \X Names |->
                    [last |-> IF called[k].last = r THEN Nowhere ELSE called[k].last,
                     ever |-> called[k].ever \ {r}]]
    /\ UNCHANGED <<slug, orgRed, req, renames, owners, known, torn>>

-----------------------------------------------------------------------------
(* Organizations *)

\* The slug is unique; to take the one it has changes nothing.
Take(o, s) ==
    /\ OrgIDBySlug(s) \subseteq {o}
    /\ slug' = [slug EXCEPT ![o] = s]
    /\ owners' = [owners EXCEPT ![s] = @ \cup {o}]

\* clearOrganizationRedirect for a new organization.  Whoever had the slug loses
\* a redirect, for an organization that may not come to be or have moved on.
FreesSlug(s) ==
    /\ orgRed' = [orgRed EXCEPT ![s] = Nowhere]
    /\ torn' = torn \cup ({orgRed[s]} \ {Nowhere})

\* The API creates an organization, and ends the redirect of its slug then ...
CreateOrganization(q, o, s) ==
    /\ slug[o] = Nowhere
    /\ Take(o, s)
    /\ Starts(q, [kind |-> "orgFree", slug |-> s])
    /\ UNCHANGED <<home, tables, renames, called, known, torn>>

FreeSlug(q) ==
    /\ Does(q, "orgFree")
    /\ FreesSlug(req[q].slug)
    /\ Ends(q)
    /\ UNCHANGED <<names, repoRed, owners, called, known, renames>>

\* ... and the pages end it first, and may then not come to create it.
BeforeCreateOrganization(q, s) ==
    /\ Starts(q, [kind |-> "orgInsert", slug |-> s])
    /\ FreesSlug(s)
    /\ UNCHANGED <<names, repoRed, owners, called, known, renames>>

InsertOrganization(q, o) ==
    /\ Does(q, "orgInsert") /\ slug[o] = Nowhere
    /\ Take(o, req[q].slug)
    /\ Ends(q)
    /\ UNCHANGED <<home, tables, renames, called, known, torn>>

\* renameOrganization: the checks, the new slug, and then the tables: the new
\* slug redirects no longer and the old one does.
RenameOrganization(q, o, s) ==
    /\ slug[o] # Nowhere /\ OrgIDBySlug(s) = {}
    /\ StartsRename(q, [kind |-> "orgUpdate", org |-> o, from |-> slug[o], to |-> s])

UpdateSlug(q) ==
    /\ Does(q, "orgUpdate")
    /\ Take(req[q].org, req[q].to)
    /\ Touch({req[q].org}, slug[req[q].org] = req[q].from)
    /\ Goes(q, [req[q] EXCEPT !.kind = "orgClear"])
    /\ UNCHANGED <<home, tables, renames, called, known>>

ClearOrganizationRedirect(q) ==
    /\ Does(q, "orgClear")
    /\ orgRed' = [orgRed EXCEPT ![req[q].to] = Nowhere]
    /\ Goes(q, [req[q] EXCEPT !.kind = "orgAdd"])
    /\ UNCHANGED <<names, repoRed, history>>

AddOrganizationRedirect(q) ==
    /\ Does(q, "orgAdd")
    /\ orgRed' = [orgRed EXCEPT ![req[q].from] = req[q].org]
    /\ Ends(q)
    /\ UNCHANGED <<names, repoRed, history>>

\* The process dies, or a statement fails or meets a row with the name: what
\* the request has done so far stays.
RequestDies(q) ==
    /\ req[q] # Nowhere
    /\ torn' = IF req[q].kind \in {"clear", "orgClear", "orgAdd"} THEN torn \cup {req[q].org} ELSE torn
    /\ Ends(q)
    /\ UNCHANGED <<names, tables, owners, called, known, renames>>

-----------------------------------------------------------------------------
(* registryd *)

\* resolveRepoForWrite: a push to an unknown name creates it unless it is a
\* former one.  The token of the push may be older than the redirect.
Push(q, s, n) ==
    /\ At(s, n) = {} /\ ResolveMoved(s, n) = {}
    /\ \E o \in OrgIDBySlug(s) : Starts(q, [kind |-> "push", org |-> o, slug |-> s, name |-> n])
    /\ UNCHANGED <<names, tables, history>>

\* EnsureRepository: the row and the redirects of its name, in a transaction;
\* a repository that has come to have the name meanwhile is taken as it is.
EnsureRepository(q, r) ==
    /\ Does(q, "push")
    /\ LET o == req[q].org  n == req[q].name IN
       /\ \/ /\ NoneAt(o, n) /\ r \notin known
             /\ home' = [home EXCEPT ![r] = <<o, n>>]
             /\ Settle(o, n, r)
             /\ known' = known \cup {r}
          \/ ~NoneAt(o, n) /\ UNCHANGED <<home, called, known>>
       /\ repoRed' = Cleared(repoRed, o, req[q].slug, n)
       /\ Touch({o}, slug[o] = req[q].slug)
    /\ Ends(q)
    /\ UNCHANGED <<slug, orgRed, renames, owners>>

-----------------------------------------------------------------------------
NamesNext ==
    \/ \E q \in Requests, o \in Orgs, n \in Names : CreateRepository(q, o, n)
    \/ \E q \in Requests, r \in Repos, n \in Names : RenameRepository(q, r, n)
    \/ \E q \in Requests, r \in Repos, o \in Orgs : MoveRepository(q, r, o)
    \/ \E q \in Requests, r \in Repos : InsertRepository(q, r) \/ EnsureRepository(q, r)
    \/ \E q \in Requests : ClearRedirects(q) \/ UpdateName(q) \/ UpdateOrganization(q)
    \/ \E r \in Repos : DeleteRepository(r)
    \/ \E q \in Requests, o \in Orgs, s \in Slugs : CreateOrganization(q, o, s) \/ RenameOrganization(q, o, s)
    \/ \E q \in Requests, s \in Slugs : BeforeCreateOrganization(q, s)
    \/ \E q \in Requests, o \in Orgs : InsertOrganization(q, o)
    \/ \E q \in Requests : FreeSlug(q) \/ UpdateSlug(q) \/ ClearOrganizationRedirect(q) \/ AddOrganizationRedirect(q)
    \/ \E q \in Requests : RequestDies(q)
    \/ \E q \in Requests, s \in Slugs, n \in Names : Push(q, s, n)

NamesSpec == NamesInit /\ [][NamesNext]_namesVars

-----------------------------------------------------------------------------
(* Properties *)

\* The shape of the state; slugs and names within an organization are unique
\* and the redirect tables only point at what exists.
NamesTypeOK ==
    /\ slug \in [Orgs -> Slugs \cup {Nowhere}]
    /\ home \in [Repos -> (Orgs \X Names) \cup {Nowhere}]
    /\ orgRed \in [Slugs -> Orgs \cup {Nowhere}]
    /\ repoRed \in [Slugs \X Names -> Repos \cup {Nowhere}]
    /\ known \subseteq Repos
    /\ req \in [Requests -> Work \cup {Nowhere}]
    /\ torn \subseteq Orgs
    /\ renames \in 0 .. MaxRenames
    /\ owners \in [Slugs -> SUBSET Orgs]
    /\ called \in [Orgs \X Names -> [last : Repos \cup {Nowhere}, ever : SUBSET Repos]]
    /\ \A o, p \in Orgs : slug[o] = slug[p] /\ slug[o] # Nowhere => o = p
    /\ \A r, q \in Repos : home[r] = home[q] /\ home[r] # Nowhere => r = q
    /\ \A r \in Repos : home[r] # Nowhere => slug[home[r][1]] # Nowhere
    /\ \A s \in Slugs : orgRed[s] # Nowhere => slug[orgRed[s]] # Nowhere
    /\ \A k \in Slugs \X Names : repoRed[k] # Nowhere => home[repoRed[k]] # Nowhere

\* No slug of the organization was ever another one's.
Unshared(o) == \A s \in Slugs : o \in owners[s] => owners[s] = {o}

\* "the old name keeps working for pulls" (README.md:1372): a name is looked
\* up to the repository that was the last to have it in the organization the
\* slug belongs to, under whatever name and wherever that repository is now;
\* and a name that never was leads nowhere.  This is promised of
\* organizations that keep their slugs to themselves, in which no request is
\* half way or has died there, written on reads that others had outdated meanwhile, or
\* written while the organization was being renamed, and whose slugs were not
\* claimed for another organization.
NamesResolve ==
    \A s \in Slugs, n \in Names :
      (\A o \in owners[s] : Unshared(o) /\ o \notin torn /\ ~HalfWritten(o))
      => Lookup(s, n) =
           {r \in Repos : \E o \in owners[s] : called[<<o, n>>].last = r}

\* "somebody creates a repository (or organization) with it through the web
\* UI; that ends the redirect" (README.md:1457): a pull never gets a
\* repository that has not had the name in an organization of that slug,
\* however requests overlap, overtake each other and die, as long as
\* organizations keep their slugs to themselves.
NoStrangers ==
    \A s \in Slugs, n \in Names :
      (\A o \in owners[s] : Unshared(o))
      => \A r \in Lookup(s, n) : \E o \in owners[s] : r \in called[<<o, n>>].ever
=============================================================================
