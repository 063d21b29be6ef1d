---- MODULE Credentials ----
(***************************************************************************)
(* The life of an access token, a service account's secret and the         *)
(* credential of a CI job: web/src/app/actions/credentials.ts,             *)
(* web/src/lib/token-policy-shared.ts, web/src/lib/credential-auth.ts,     *)
(* web/src/lib/ci-auth.ts.  One credential is followed; a secret is the    *)
(* number of the rotation that made it.  Time goes by in quarters of a day:*)
(* an expiry date that is picked need not be whole days away.              *)
(***************************************************************************)
EXTENDS Naturals

CONSTANTS
    Lifetimes,  \* the lifetimes that are asked for, in quarters of a day
    Caps,       \* the administrator's caps, in days
    LastQuarter, \* bound: the clock stops here
    MaxSecrets, \* bound on rotations
    Never       \* no expiry, no cap

ASSUME CredentialsAssumption ==
    /\ Lifetimes \subseteq Nat \ {0} /\ Caps \subseteq Nat \ {0} /\ Caps # {}
    /\ LastQuarter \in Nat /\ MaxSecrets \in Nat /\ Never \notin Nat

VARIABLES
    now,
    credential, \* its row: kind, created_at, expires_at, secret; asked: the lifetime it was created with
    policy      \* maxTokenLifetimeDays, requireTokenExpiry

credVars == <<now, credential, policy>>

Day == 4
Lives == Lifetimes \cup {Never}
Policies == [cap : Caps \cup {Never}, required : BOOLEAN]
NoCredential == [kind |-> "none", created |-> 0, expires |-> Never, asked |-> Never, secret |-> 0]
Longest == CHOOSE d \in Caps : \A k \in Caps : k <= d

CredentialsTypeOK ==
    /\ now \in 0..LastQuarter /\ policy \in Policies
    /\ credential.kind \in {"none", "token", "sa"} /\ credential.secret \in 0..MaxSecrets

CredentialsInit == now = 0 /\ credential = NoCredential /\ policy \in Policies

\* resolveExpiry: what the policy does not allow is refused.
resolveExpiry(life) ==
    IF life = Never THEN ~policy.required ELSE IF policy.cap = Never THEN TRUE ELSE life <= policy.cap * Day
ExpiryOf(life) == IF life = Never THEN Never ELSE now + life

Create(kind, life) ==
    /\ credential.kind = "none" /\ resolveExpiry(life)
    /\ credential' = [kind |-> kind, created |-> now, expires |-> ExpiryOf(life), asked |-> life, secret |-> 1]
    /\ UNCHANGED <<now, policy>>

createAccessToken(life) == Create("token", life)
createServiceAccount(life) == Create("sa", life)

\* Math.max(1, Math.round(..)): a lifetime in whole days, at least one.
WholeDays(life) == LET days == (life + Day \div 2) \div Day IN IF days = 0 THEN 1 ELSE days

\* replacementExpiry: the lifetime (expires - created) in whole days, capped by
\* the policy of today; "never" stays so unless an expiry is required, and is
\* then the cap or a year (here the longest cap there is).
replacementLife ==
    LET days == IF credential.expires = Never THEN Longest ELSE WholeDays(credential.expires - credential.created)
    IN  IF credential.expires = Never /\ ~policy.required THEN Never
        ELSE Day * (IF policy.cap = Never THEN days
                    ELSE IF credential.expires = Never THEN policy.cap
                    ELSE IF days < policy.cap THEN days ELSE policy.cap)

Rotated == credential.secret < MaxSecrets /\ UNCHANGED <<now, policy>>

\* rotateAccessToken that keeps the day the token was created.
rotateAccessToken_InPlace ==
    /\ credential.kind = "token" /\ Rotated
    /\ credential' = [credential EXCEPT !.expires = ExpiryOf(replacementLife), !.secret = @ + 1]

\* A new row in place of the old one.
rotateAccessToken ==
    /\ credential.kind = "token" /\ Rotated
    /\ credential' = [credential EXCEPT !.created = now, !.expires = ExpiryOf(replacementLife), !.secret = @ + 1]

\* The same row with another secret and expiry.
rotateServiceAccount ==
    /\ credential.kind = "sa" /\ Rotated
    /\ credential' = [credential EXCEPT !.expires = ExpiryOf(replacementLife), !.secret = @ + 1]

deleteCredential == credential.kind # "none" /\ credential' = NoCredential /\ UNCHANGED <<now, policy>>

savePolicy == \E p \in Policies : policy # p /\ policy' = p /\ UNCHANGED <<now, credential>>

TimePasses == now < LastQuarter /\ now' = now + 1 /\ UNCHANGED <<credential, policy>>

CredentialsNext ==
    \/ \E life \in Lives : createAccessToken(life) \/ createServiceAccount(life)
    \/ rotateAccessToken \/ rotateServiceAccount \/ deleteCredential \/ savePolicy \/ TimePasses

CredentialsSpec == CredentialsInit /\ [][CredentialsNext]_credVars

----------------------------------------------------------------------------

\* The life a credential was asked for, or that life in whole days if it is
\* longer: the rounding of replacementExpiry may add up to half a day, and
\* makes a day of any shorter life, but only once.
MeantLife(asked) == IF WholeDays(asked) * Day > asked THEN WholeDays(asked) * Day ELSE asked
Outlives(c) == IF c.asked = Never \/ c.expires = Never THEN FALSE ELSE c.expires > now + MeantLife(c.asked)

\* replacementExpiry, "keep the original lifetime (expires - created) counted
\* from now": however often a token is rotated and the policy changed, it never
\* has longer to live than the lifetime it was created with, or than that
\* lifetime rounded to whole days.  (A token of two hours does get a day: the
\* lifetimes that a rotation gives are whole days; rounding them again, at the
\* next rotation, adds nothing.)
TokensKeepTheirLifetime == credential.kind = "token" => ~Outlives(credential)

\* rotateServiceAccount, "An expired credential gets the same lifetime it
\* originally had, counted from now": the same of a service account.
ServiceAccountsKeepTheirLifetime == credential.kind = "sa" => ~Outlives(credential)
====
