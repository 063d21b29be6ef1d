---- MODULE Membership ----
(***************************************************************************)
(* The people of one organization: member rows with their roles, the seats *)
(* in its teams and the grants on its repositories, and every way in and   *)
(* out: invitations and better-auth's own member routes with the hooks of  *)
(* web/src/lib/auth.ts, the REST API                                       *)
(* (web/src/app/api/v1/orgs/[org]/members/[userId]/route.ts), the group    *)
(* bindings applied at sign-in (web/src/lib/group-bindings.ts), and the    *)
(* deletion of an account (web/src/app/actions/admin-users.ts).            *)
(*                                                                         *)
(* A request looks first and writes later; requests of other people come   *)
(* in between.  The member table has no unique key over organization and   *)
(* person, so a person may have several rows.                              *)
(***************************************************************************)
EXTENDS Naturals, FiniteSets

CONSTANTS
    People,     \* accounts
    Rows,       \* ids of member rows
    MemberRoles,
    Calls,      \* requests in progress
    MaxMembers, \* organization_limits.max_members
    Absent

ASSUME MembershipAssumption ==
    /\ IsFiniteSet(Rows) /\ Rows # {} /\ IsFiniteSet(Calls) /\ MaxMembers \in Nat \ {0}
    /\ Absent \notin [person : People, role : MemberRoles]
    /\ "owner" \in MemberRoles /\ MemberRoles \subseteq {"owner", "admin", "member", "viewer"}

VARIABLES
    rows,        \* member: [person, role] by id, or Absent
    seats,       \* team_members: who sits in a team
    grantees,    \* repository_grants to people
    call,        \* requests in progress
    overlapped,  \* not in the code: two requests that take a role away were under way at once,
                 \* or two that insert the same person
    crowded      \* not in the code: the most requests that were about to insert at once

memberVars == <<rows, seats, grantees, call, overlapped, crowded>>

Idle == [at |-> "idle"]

\* A person's row as findFirst returns it: any of them.
RowsOf(p) == {i \in Rows : rows[i] # Absent /\ rows[i].person = p}
Taken == {i \in Rows : rows[i] # Absent}
Unused == {i \in Rows \ Taken : \A c \in Calls : call[c].at \in {"role", "remove"} => call[c].row # i}
OwnerRows == {i \in Taken : rows[i].role = "owner"}
Members == {rows[i].person : i \in Taken}

MembershipTypeOK ==
    /\ rows \in [Rows -> [person : People, role : MemberRoles] \cup {Absent}]
    /\ seats \subseteq People /\ grantees \subseteq People
    /\ \A c \in Calls : call[c].at \in {"idle", "insert", "role", "remove", "drop", "account", "seat", "grant"}

MembershipInit ==
    /\ \E p \in People :
           rows = [i \in Rows |-> IF i = CHOOSE j \in Rows : TRUE THEN [person |-> p, role |-> "owner"] ELSE Absent]
    /\ seats = {} /\ grantees = {} /\ call = [c \in Calls |-> Idle] /\ overlapped = FALSE /\ crowded = 1

----------------------------------------------------------------------------

checkMemberQuota == Cardinality(Taken) < MaxMembers
checkMemberQuota_Full == Cardinality(Taken) <= MaxMembers

\* ownerCount, isLastOwner, and the queries over the sole owner.
AnotherOwner(i) == rows[i].role = "owner" => Cardinality(OwnerRows) > 1

TakesAway(r) == r.at \in {"remove", "account"} \/ (r.at = "role" /\ r.role # "owner")

Begin(c, r) ==
    /\ call[c] = Idle
    /\ call' = [call EXCEPT ![c] = r]
    /\ overlapped' = (overlapped \/ (TakesAway(r) /\ \E d \in Calls : TakesAway(call[d])))
    /\ crowded' = LET n == Cardinality({d \in Calls : call'[d].at = "insert"}) IN IF n > crowded THEN n ELSE crowded
    /\ UNCHANGED <<rows, seats, grantees>>

End(c) == call' = [call EXCEPT ![c] = Idle] /\ UNCHANGED <<overlapped, crowded>>

\* Invitations (beforeAcceptInvitation), direct additions (beforeAddMember) and
\* a sign-in whose bindings give a role to somebody who has none.
joinChecked(c, p, role) ==
    /\ RowsOf(p) = {} /\ checkMemberQuota
    /\ Begin(c, [at |-> "insert", person |-> p, role |-> role])

insertMember(c) ==
    /\ call[c].at = "insert"
    /\ Unused # {}
    /\ rows' = [rows EXCEPT ![CHOOSE i \in Unused : TRUE] = [person |-> call[c].person, role |-> call[c].role]]
    /\ call' = [call EXCEPT ![c] = Idle]
    /\ overlapped' = (overlapped \/ RowsOf(call[c].person) # {})
    /\ UNCHANGED <<seats, grantees, crowded>>

\* roleChecked that lets the last owner be demoted.
roleChecked_Any(c, i, role) ==
    /\ i \in Taken /\ rows[i].role # role
    /\ Begin(c, [at |-> "role", row |-> i, role |-> role])

\* PATCH, better-auth's role change, and syncGroupBindings: the row, then
\* whether another owner is left, then the update by the row's id.
roleChecked(c, i, role) ==
    /\ i \in Taken /\ rows[i].role # role
    /\ role = "owner" \/ AnotherOwner(i)
    /\ Begin(c, [at |-> "role", row |-> i, role |-> role])

updateRole(c) ==
    /\ call[c].at = "role"
    /\ rows' = IF rows[call[c].row] = Absent THEN rows
               ELSE [rows EXCEPT ![call[c].row].role = call[c].role]
    /\ End(c) /\ UNCHANGED <<seats, grantees>>

\* DELETE, leaving, and a binding that no longer matches.  hook: better-auth's
\* routes run afterRemoveMember, the REST route and the bindings do not.
removeChecked(c, i, hook) ==
    /\ i \in Taken /\ AnotherOwner(i)
    /\ Begin(c, [at |-> "remove", row |-> i, of |-> rows[i].person, hook |-> hook])

deleteMember(c) ==
    /\ call[c].at = "remove"
    /\ rows' = [rows EXCEPT ![call[c].row] = Absent]
    /\ call' = [call EXCEPT ![c] = IF @.hook THEN [at |-> "drop", of |-> @.of] ELSE Idle]
    /\ UNCHANGED <<seats, grantees, overlapped, crowded>>

dropOrganizationAccess(c) ==
    /\ call[c].at = "drop"
    /\ seats' = seats \ {call[c].of} /\ grantees' = grantees \ {call[c].of}
    /\ End(c) /\ UNCHANGED rows

\* refuseDeletionOfLastOwner asks for another person who owns, adminDeleteUser
\* counts rows; the rows and seats cascade, grants have no foreign key to the
\* account.
refuseDeletionOfLastOwner(c, p) ==
    /\ RowsOf(p) # {}
    /\ (\E i \in RowsOf(p) : rows[i].role = "owner") => \E j \in OwnerRows : rows[j].person # p
    /\ Begin(c, [at |-> "account", of |-> p])
adminDeleteUser(c, p) ==
    /\ RowsOf(p) # {}
    /\ \A i \in RowsOf(p) : AnotherOwner(i)
    /\ Begin(c, [at |-> "account", of |-> p])

deleteAccount(c) ==
    /\ call[c].at = "account"
    /\ rows' = [i \in Rows |-> IF i \in RowsOf(call[c].of) THEN Absent ELSE rows[i]]
    /\ seats' = seats \ {call[c].of}
    /\ End(c) /\ UNCHANGED grantees

\* addTeamMember and setRepoGrant: the membership is looked up, the row written.
accessChecked(c, p, what) == p \in Members /\ Begin(c, [at |-> what, of |-> p])

addTeamMember(c) ==
    /\ call[c].at = "seat"
    /\ seats' = seats \cup {call[c].of} /\ End(c) /\ UNCHANGED <<rows, grantees>>
setRepoGrant(c) ==
    /\ call[c].at = "grant"
    /\ grantees' = grantees \cup {call[c].of} /\ End(c) /\ UNCHANGED <<rows, seats>>

removeTeamMember(p) == p \in seats /\ seats' = seats \ {p} /\ UNCHANGED <<rows, grantees, call, overlapped, crowded>>
removeRepoGrant(p) == p \in grantees /\ grantees' = grantees \ {p} /\ UNCHANGED <<rows, seats, call, overlapped, crowded>>

MembershipNext ==
    \/ \E c \in Calls :
           \/ \E p \in People, role \in MemberRoles : joinChecked(c, p, role)
           \/ \E i \in Rows, role \in MemberRoles : roleChecked(c, i, role)
           \/ \E i \in Rows, hook \in BOOLEAN : removeChecked(c, i, hook)
           \/ \E p \in People : refuseDeletionOfLastOwner(c, p) \/ adminDeleteUser(c, p)
           \/ \E p \in People, what \in {"seat", "grant"} : accessChecked(c, p, what)
           \/ insertMember(c) \/ updateRole(c) \/ deleteMember(c) \/ dropOrganizationAccess(c)
           \/ deleteAccount(c) \/ addTeamMember(c) \/ setRepoGrant(c)
    \/ \E p \in People : removeTeamMember(p) \/ removeRepoGrant(p)

MembershipSpec == MembershipInit /\ [][MembershipNext]_memberVars

----------------------------------------------------------------------------

\* "The last owner of an organization is never removed" (group-bindings.ts, and
\* the routes' refusals): an organization keeps an owner, whatever its people,
\* their accounts and the bindings do, unless two requests that each take a
\* role away, or two that take the same person in, are under way at once: the
\* checks and the writes are no transactions.
OwnerRemains == ~overlapped => OwnerRows # {}

\* checkMemberQuota: the limit is exceeded by no more than the requests that
\* had passed the check together when they inserted.
LimitExceededByRacersOnly == Cardinality(Taken) <= MaxMembers + crowded - 1

\* repo-access.ts: "Someone who left the organization leaves its teams and
\* loses their grants".  With no request in progress, whoever holds a seat or a
\* grant is a member.
LeaversLoseAccess ==
    (\A c \in Calls : call[c] = Idle) => seats \cup grantees \subseteq Members
====
