--------------------------- MODULE AccountsProofs ---------------------------
(***************************************************************************)
(* Members, sign-ins, credentials, signing keys, signatures and the images *)
(* that may not be pulled, for any number of people, requests, clients,    *)
(* keys, replicas, images and workers; and that the services decide alike  *)
(* who may do what.                                                        *)
(***************************************************************************)
EXTENDS Access, Membership, Logins, Credentials, SigningKeys, PullBlocks, FiniteSetTheorems, TLAPS

-----------------------------------------------------------------------------
(* Credentials. *)

\* What makes TokensKeepTheirLifetime inductive: a token that was asked for
\* with a lifetime has an expiry, and from the day in its row to its expiry
\* never more than that lifetime, or than its whole days.
TokenSpan ==
    LET c == credential
    IN  c.kind = "token" /\ c.asked # Never =>
            /\ c.asked \in Nat \ {0} /\ c.created \in 0..now
            /\ c.expires \in Nat /\ c.expires - c.created \in 0..MeantLife(c.asked)

CredentialsInv ==
    /\ now \in Nat
    /\ policy \in Policies
    /\ TokenSpan

\* Whole days are whole days, and rounding whole days adds nothing: no part of
\* a meant lifetime comes out longer than the meant lifetime.
LEMMA RoundingIsMonotone ==
    ASSUME NEW a \in Nat \ {0}, NEW x \in 0..MeantLife(a)
    PROVE  /\ MeantLife(a) \in Nat
           /\ WholeDays(x) \in Nat \ {0}
           /\ WholeDays(x) * Day <= MeantLife(a)
<1>1. WholeDays(a) \in Nat \ {0} /\ MeantLife(a) \in Nat /\ MeantLife(a) >= a
  BY DEF WholeDays, MeantLife, Day
<1>2. x \in Nat /\ x <= MeantLife(a)
  BY <1>1
<1>3. WholeDays(x) \in Nat \ {0}
  BY <1>2 DEF WholeDays, Day
<1>4. CASE x <= a
  <2>1. WholeDays(x) <= WholeDays(a)
    BY <1>2, <1>4 DEF WholeDays, Day
  <2> QED
    BY <2>1, <1>1, <1>2, <1>3 DEF MeantLife, Day
<1>5. CASE ~(x <= a)
  <2>1. x <= WholeDays(a) * 4 /\ MeantLife(a) = WholeDays(a) * 4
    BY <1>1, <1>2, <1>5 DEF MeantLife, Day
  <2>2. ASSUME NEW d \in Nat \ {0}, x <= d * 4 PROVE WholeDays(x) <= d
    BY <2>2, <1>2 DEF WholeDays, Day
  <2>3. WholeDays(x) <= WholeDays(a)
    BY <2>1, <2>2, <1>1
  <2> QED
    BY <2>1, <2>3, <1>1, <1>3 DEF Day
<1> QED
  BY <1>1, <1>3, <1>4, <1>5

\* A replacement for a token that was asked for with a lifetime: some number of
\* days, and no more than what was meant.
LEMMA ReplacementFits ==
    ASSUME CredentialsInv, credential.kind = "token", credential.asked # Never
    PROVE  /\ replacementLife \in 0..MeantLife(credential.asked)
           /\ ExpiryOf(replacementLife) = now + replacementLife
<1> DEFINE a == credential.asked
           x == credential.expires - credential.created
           days == WholeDays(x)
<1>1. a \in Nat \ {0} /\ x \in 0..MeantLife(a) /\ credential.expires # Never
  BY CredentialsAssumption DEF CredentialsInv, TokenSpan
<1>2. MeantLife(a) \in Nat /\ days \in Nat \ {0} /\ days * Day <= MeantLife(a)
  BY <1>1, RoundingIsMonotone
<1>3. policy.cap = Never \/ policy.cap \in Nat
  BY CredentialsAssumption DEF CredentialsInv, Policies
<1>4. replacementLife = Day * (IF policy.cap = Never THEN days ELSE IF days < policy.cap THEN days ELSE policy.cap)
  BY <1>1 DEF replacementLife
<1> HIDE DEF a, x, days
<1>5. replacementLife \in 0..MeantLife(a)
  BY <1>2, <1>3, <1>4 DEF Day
<1>6. replacementLife # Never
  BY <1>2, <1>5, CredentialsAssumption
<1> QED
  BY <1>5, <1>6 DEF a, ExpiryOf

\* The inductive invariant holds in every behaviour of Credentials.
LEMMA CredentialsInvHolds == CredentialsSpec => []CredentialsInv
<1> USE CredentialsAssumption
<1>1. CredentialsInit => CredentialsInv
  BY DEF CredentialsInit, CredentialsInv, TokenSpan, NoCredential
<1>2. CredentialsInv /\ [CredentialsNext]_credVars => CredentialsInv'
  <2> SUFFICES ASSUME CredentialsInv, [CredentialsNext]_credVars PROVE CredentialsInv'
    OBVIOUS
  <2> USE DEF CredentialsInv
  <2>1. CASE UNCHANGED credVars
    BY <2>1 DEF credVars, TokenSpan
  <2>2. ASSUME NEW l \in Lives, createAccessToken(l) PROVE CredentialsInv'
    <3>1. /\ credential' = [kind |-> "token", created |-> now, expires |-> ExpiryOf(l), asked |-> l, secret |-> 1]
          /\ UNCHANGED <<now, policy>>
      BY <2>2 DEF createAccessToken, Create
    <3>2. ASSUME l # Never PROVE l \in Nat \ {0} /\ ExpiryOf(l) = now + l /\ l <= MeantLife(l) /\ MeantLife(l) \in Nat
      <4>1. l \in Nat \ {0} /\ ExpiryOf(l) = now + l
        BY <3>2 DEF Lives, ExpiryOf
      <4>2. l <= MeantLife(l) /\ MeantLife(l) \in Nat
        BY <4>1 DEF MeantLife, WholeDays, Day
      <4> QED
        BY <4>1, <4>2
    <3>3. TokenSpan'
      <4> SUFFICES ASSUME l # Never
                   PROVE  /\ l \in Nat \ {0} /\ now \in 0..now
                          /\ ExpiryOf(l) \in Nat /\ ExpiryOf(l) - now \in 0..MeantLife(l)
        BY <3>1 DEF TokenSpan, MeantLife
      <4> QED
        BY <3>2
    <3> QED
      BY <3>1, <3>3
  <2>3. ASSUME NEW l \in Lives, createServiceAccount(l) PROVE CredentialsInv'
    BY <2>3 DEF createServiceAccount, Create, TokenSpan
  <2>4. CASE rotateAccessToken
    <3>1. /\ credential' = [credential EXCEPT !.created = now, !.expires = ExpiryOf(replacementLife), !.secret = @ + 1]
          /\ UNCHANGED <<now, policy>> /\ credential.kind = "token"
      BY <2>4 DEF rotateAccessToken, Rotated
    <3>2. credential'.asked = credential.asked /\ credential'.kind = credential.kind
      BY <3>1
    <3>3. TokenSpan'
      <4> SUFFICES ASSUME credential.asked # Never
                   PROVE  /\ credential'.asked \in Nat \ {0} /\ credential'.created \in 0..now'
                          /\ credential'.expires \in Nat
                          /\ credential'.expires - credential'.created \in 0..MeantLife(credential'.asked)
        BY <3>2 DEF TokenSpan, MeantLife
      <4>1. replacementLife \in 0..MeantLife(credential.asked) /\ ExpiryOf(replacementLife) = now + replacementLife
        BY <3>1, ReplacementFits
      <4>2. credential.asked \in Nat \ {0} /\ MeantLife(credential.asked) \in Nat
        <5>1. credential.asked \in Nat \ {0}
          BY <3>1 DEF TokenSpan
        <5> QED
          BY <5>1 DEF MeantLife, WholeDays, Day
      <4>3. credential'.created = now /\ credential'.expires = now + replacementLife
        BY <3>1, <4>1 DEF TokenSpan
      <4> QED
        BY <4>1, <4>2, <4>3, <3>1, <3>2
    <3> QED
      BY <3>1, <3>3
  <2>5. CASE rotateServiceAccount
    BY <2>5 DEF rotateServiceAccount, Rotated, TokenSpan
  <2>6. CASE deleteCredential
    BY <2>6 DEF deleteCredential, NoCredential, TokenSpan
  <2>7. CASE savePolicy
    BY <2>7 DEF savePolicy, TokenSpan
  <2>8. CASE TimePasses
    BY <2>8 DEF TimePasses, TokenSpan
  <2> QED
    BY <2>1, <2>2, <2>3, <2>4, <2>5, <2>6, <2>7, <2>8 DEF CredentialsNext
<1> QED
  BY <1>1, <1>2, PTL DEF CredentialsSpec

\* However often a token is rotated, whatever the policy becomes, it never has
\* longer to live than the lifetime it was created with, or than that lifetime
\* in whole days (replacementExpiry).
THEOREM LifetimesKept == CredentialsSpec => []TokensKeepTheirLifetime
<1>1. CredentialsInv => TokensKeepTheirLifetime
  <2> SUFFICES ASSUME CredentialsInv, credential.kind = "token", credential.asked # Never
               PROVE  ~(credential.expires > now + MeantLife(credential.asked))
    BY DEF TokensKeepTheirLifetime, Outlives
  <2> DEFINE m == MeantLife(credential.asked)
  <2>1. credential.asked \in Nat \ {0} /\ credential.created \in 0..now /\ credential.expires \in Nat
        /\ credential.expires - credential.created \in 0..m /\ now \in Nat
    BY DEF CredentialsInv, TokenSpan
  <2>2. m \in Nat
    BY <2>1 DEF MeantLife, WholeDays, Day
  <2> HIDE DEF m
  <2>3. ~(credential.expires > now + m)
    BY <2>1, <2>2
  <2> QED
    BY <2>3 DEF m
<1> QED
  BY <1>1, CredentialsInvHolds, PTL

-----------------------------------------------------------------------------
(* Sign-ins. *)

InState(x) == {c \in Clients : login[c] = x}

\* A client that moves from one state to another: one less there, one more
\* here, and elsewhere as many as before.
LEMMA AdvanceCounts ==
    ASSUME login \in [Clients -> LoginStates],
           NEW c \in Clients, NEW from \in LoginStates, NEW to \in LoginStates, from # to,
           Advance(c, from, to), NEW x
    PROVE  /\ login' \in [Clients -> LoginStates]
           /\ Cardinality(InState(x)) \in Nat /\ Cardinality(InState(x)') \in Nat
           /\ x = from => Cardinality(InState(x)') = Cardinality(InState(x)) - 1
           /\ x = to => Cardinality(InState(x)') = Cardinality(InState(x)) + 1
           /\ x \notin {from, to} => InState(x)' = InState(x)
<1>1. login' = [login EXCEPT ![c] = to] /\ login[c] = from
  BY DEF Advance
<1>2. IsFiniteSet(InState(x)) /\ IsFiniteSet(InState(x)')
  BY LoginsAssumption, FS_Subset DEF InState
<1>3. CASE x = from
  <2>1. InState(x)' = InState(x) \ {c} /\ c \in InState(x)
    BY <1>1, <1>3 DEF InState
  <2> QED
    BY <1>1, <1>2, <1>3, <2>1, FS_RemoveElement, FS_CardinalityType
<1>4. CASE x = to
  <2>1. InState(x)' = InState(x) \cup {c} /\ c \notin InState(x)
    BY <1>1, <1>4 DEF InState
  <2> QED
    BY <1>1, <1>2, <1>4, <2>1, FS_AddElement, FS_CardinalityType
<1>5. CASE x \notin {from, to}
  <2>1. InState(x)' = InState(x)
    BY <1>1, <1>5 DEF InState
  <2> QED
    BY <1>1, <1>2, <1>5, <2>1, FS_CardinalityType
<1> QED
  BY <1>3, <1>4, <1>5

\* What makes GuessingStops inductive.  Under a lock, the guesses verified so
\* far and the requests that may still verify one are together fewer than the
\* clients: the request that locked is neither.
LoginsInv ==
    /\ attempts \in [failures : 0..MaxFailures, age : 0..LockTicks + 1, locked : 0..LockTicks]
    /\ login \in [Clients -> LoginStates]
    /\ late \in Nat
    /\ late <= Cardinality(Clients) - 1
    /\ attempts.locked > 0 => late + Cardinality(InState("checked")) <= Cardinality(Clients) - 1

\* The inductive invariant holds in every behaviour of Logins.
LEMMA LoginsInvHolds == LoginsSpec => []LoginsInv
<1> USE LoginsAssumption
<1> DEFINE N == Cardinality(Clients)
<1>0. N \in Nat /\ N > 0
  BY FS_CardinalityType, FS_EmptySet
<1>1. LoginsInit => LoginsInv
  <2> SUFFICES ASSUME LoginsInit PROVE LoginsInv
    OBVIOUS
  <2>1. InState("checked") = {}
    BY DEF LoginsInit, InState
  <2> QED
    BY <1>0, <2>1, FS_EmptySet DEF LoginsInit, LoginsInv, NoAttempts, LoginStates
<1>2. LoginsInv /\ [LoginsNext]_loginVars => LoginsInv'
  <2> SUFFICES ASSUME LoginsInv, [LoginsNext]_loginVars PROVE LoginsInv'
    OBVIOUS
  <2> DEFINE K == Cardinality(InState("checked"))
  <2>0. K \in Nat
    BY FS_Subset, FS_CardinalityType DEF InState
  <2>s. {"idle", "checked", "blind", "wrong", "lock"} = LoginStates
    BY DEF LoginStates
  <2>a. ASSUME NEW c \in Clients, NEW from \in LoginStates, NEW to \in LoginStates, from # to, to # "checked",
               Advance(c, from, to)
        PROVE  /\ K' \in Nat /\ K' <= K /\ login' \in [Clients -> LoginStates]
               /\ from = "checked" => K' = K - 1
    <3>1. from # "checked" => K' = K
      <4> SUFFICES ASSUME from # "checked" PROVE K' = K
        OBVIOUS
      <4>1. InState("checked")' = InState("checked")
        BY <2>a, AdvanceCounts DEF LoginsInv
      <4> QED
        BY <4>1
    <3>2. from = "checked" => K' = K - 1
      BY <2>a, AdvanceCounts DEF LoginsInv
    <3>3. K' \in Nat /\ login' \in [Clients -> LoginStates]
      BY <2>a, AdvanceCounts DEF LoginsInv
    <3> QED
      BY <2>0, <3>1, <3>2, <3>3
  <2> HIDE DEF K
  <2>b. ASSUME UNCHANGED <<attempts, late>>, K' \in Nat, K' <= K, login' \in [Clients -> LoginStates]
        PROVE  LoginsInv'
    BY <1>0, <2>0, <2>b DEF LoginsInv, K
  <2>1. CASE UNCHANGED loginVars
    BY <2>1 DEF loginVars, LoginsInv, InState
  <2>2. ASSUME NEW c \in Clients, loginLock(c) PROVE LoginsInv'
    <3>1. attempts.locked = 0 /\ UNCHANGED <<attempts, late>> /\ Advance(c, "idle", "checked")
      BY <2>2 DEF loginLock
    <3>2. login' \in [Clients -> LoginStates]
      BY <2>s, <3>1, AdvanceCounts DEF LoginsInv
    <3> QED
      BY <1>0, <2>0, <3>1, <3>2 DEF LoginsInv
  <2>3. ASSUME NEW c \in Clients, loginLockFails(c) PROVE LoginsInv'
    <3>1. UNCHANGED <<attempts, late>> /\ Advance(c, "idle", "blind")
      BY <2>3 DEF loginLockFails
    <3> QED
      BY <2>s, <2>a, <2>b, <3>1
  <2>4. ASSUME NEW c \in Clients, clearLoginFailures(c) PROVE LoginsInv'
    <3>1. PICK from \in {"checked", "blind"} : Advance(c, from, "idle")
      BY <2>4 DEF clearLoginFailures
    <3>2. K' \in Nat /\ K' <= K /\ login' \in [Clients -> LoginStates]
      BY <2>s, <2>a, <3>1
    <3>3. CASE attempts' = NoAttempts /\ late' = 0
      BY <1>0, <3>2, <3>3 DEF LoginsInv, NoAttempts
    <3>4. CASE UNCHANGED <<attempts, late>>
      BY <2>b, <3>2, <3>4
    <3> QED
      BY <2>4, <3>3, <3>4 DEF clearLoginFailures
  <2>5. ASSUME NEW c \in Clients, identify(c) PROVE LoginsInv'
    <3>1. CASE Advance(c, "checked", "wrong") /\ late' = (IF attempts.locked > 0 THEN late + 1 ELSE late)
      <4>1. K' = K - 1 /\ K' \in Nat /\ login' \in [Clients -> LoginStates]
        BY <2>s, <2>a, <3>1
      <4> QED
        BY <1>0, <2>0, <2>5, <3>1, <4>1 DEF LoginsInv, identify, K
    <3>2. CASE Advance(c, "blind", "wrong") /\ UNCHANGED late
      BY <2>s, <2>a, <2>b, <2>5, <3>2 DEF identify
    <3>3. CASE (\E from \in {"checked", "blind"} : Advance(c, from, "idle")) /\ UNCHANGED late
      BY <2>s, <2>a, <2>b, <2>5, <3>3 DEF identify
    <3> QED
      BY <2>5, <3>1, <3>2, <3>3 DEF identify
  <2>6. ASSUME NEW c \in Clients, recordLoginFailure(c) PROVE LoginsInv'
    <3> DEFINE over == attempts.age > LockTicks
               failures == IF over THEN 1 ELSE IF attempts.failures < MaxFailures THEN attempts.failures + 1 ELSE MaxFailures
               to == IF failures >= MaxFailures THEN "lock" ELSE "idle"
    <3>1. /\ Advance(c, "wrong", to) /\ late' = late
          /\ attempts' = [attempts EXCEPT !.failures = failures, !.age = IF over THEN 0 ELSE @]
      BY <2>6 DEF recordLoginFailure
    <3>2. failures \in 0..MaxFailures /\ to \in LoginStates /\ to # "wrong" /\ to # "checked"
      BY <2>s DEF LoginsInv
    <3> HIDE DEF failures, to
    <3>3. /\ attempts' \in [failures : 0..MaxFailures, age : 0..LockTicks + 1, locked : 0..LockTicks]
          /\ attempts'.locked = attempts.locked
      <4>1. (IF over THEN 0 ELSE attempts.age) \in 0..LockTicks + 1
        BY DEF LoginsInv
      <4> QED
        BY <3>1, <3>2, <4>1 DEF LoginsInv
    <3>4. K' \in Nat /\ K' <= K /\ login' \in [Clients -> LoginStates]
      BY <2>s, <2>a, <3>1, <3>2
    <3> QED
      BY <1>0, <2>0, <3>1, <3>3, <3>4 DEF LoginsInv, K
  <2>7. ASSUME NEW c \in Clients, lock(c) PROVE LoginsInv'
    <3>1. /\ Advance(c, "lock", "idle") /\ attempts' = [failures |-> 0, age |-> 0, locked |-> LockTicks]
          /\ late' = IF attempts.locked > 0 THEN late ELSE 0
      BY <2>7 DEF lock
    <3>2. K' \in Nat /\ K' <= K /\ login' \in [Clients -> LoginStates]
      BY <2>s, <2>a, <3>1
    <3>3. K <= N - 1
      <4>1. InState("checked") \subseteq Clients \ {c}
        BY <3>1 DEF InState, Advance
      <4>2. IsFiniteSet(Clients \ {c}) /\ Cardinality(Clients \ {c}) = N - 1
        BY FS_RemoveElement
      <4> QED
        BY <4>1, <4>2, FS_Subset DEF K
    <3> QED
      BY <1>0, <2>0, <3>1, <3>2, <3>3 DEF LoginsInv, K
  <2>8. ASSUME NEW c \in Clients, recordingFails(c) PROVE LoginsInv'
    BY <2>s, <2>a, <2>b, <2>8 DEF recordingFails
  <2>9. CASE Minute
    <3>1. InState("checked")' = InState("checked")
      BY <2>9 DEF Minute, InState
    <3>2. /\ attempts' \in [failures : 0..MaxFailures, age : 0..LockTicks + 1, locked : 0..LockTicks]
          /\ attempts'.locked <= attempts.locked
          /\ UNCHANGED <<login, late>>
      <4> DEFINE age == IF attempts.age > LockTicks THEN attempts.age ELSE attempts.age + 1
                 locked == IF attempts.locked > 0 THEN attempts.locked - 1 ELSE 0
      <4>1. age \in 0..LockTicks + 1 /\ locked \in 0..LockTicks /\ locked <= attempts.locked
        BY DEF LoginsInv
      <4>2. attempts' = [attempts EXCEPT !.age = age, !.locked = locked] /\ UNCHANGED <<login, late>>
        BY <2>9 DEF Minute
      <4> HIDE DEF age, locked
      <4> QED
        BY <4>1, <4>2 DEF LoginsInv
    <3> QED
      BY <1>0, <2>0, <3>1, <3>2 DEF LoginsInv, K
  <2> QED
    BY <2>1, <2>2, <2>3, <2>4, <2>5, <2>6, <2>7, <2>8, <2>9 DEF LoginsNext
<1> QED
  BY <1>1, <1>2, PTL DEF LoginsSpec

\* "Guessing cannot continue while the lock lasts" (identify), for any number
\* of clients: under one lock no more guesses are verified than there are other
\* requests besides the one that locked, those not counted whose lookup failed.
THEOREM GuessingIsBounded == LoginsSpec => []GuessingStops
<1>1. LoginsInv => GuessingStops
  BY DEF LoginsInv, GuessingStops
<1> QED
  BY <1>1, LoginsInvHolds, PTL

\* The counters stay in their ranges, whatever fails (recordLoginFailure).
THEOREM LoginsTypeCorrect == LoginsSpec => []LoginsTypeOK
<1>1. LoginsInv => LoginsTypeOK
  BY LoginsAssumption DEF LoginsInv, LoginsTypeOK
<1> QED
  BY <1>1, LoginsInvHolds, PTL

-----------------------------------------------------------------------------
(* Members. *)

Entries == [person : People, role : MemberRoles]

CallStates ==
    {Idle} \cup [at : {"insert"}, person : People, role : MemberRoles]
           \cup [at : {"role"}, row : Rows, role : MemberRoles]
           \cup [at : {"remove"}, row : Rows, of : People, hook : BOOLEAN]
           \cup [at : {"drop", "account", "seat", "grant"}, of : People]

MembersTyped ==
    /\ rows \in [Rows -> Entries \cup {Absent}]
    /\ call \in [Calls -> CallStates]
    /\ overlapped \in BOOLEAN

\* Nobody has two rows.
OneRowEach == \A i, j \in Taken : rows[i].person = rows[j].person => i = j

\* At most one request that takes a role away is past its checks.
TakersAlone == \A c, d \in Calls : TakesAway(call[c]) /\ TakesAway(call[d]) => c = d

\* What a request that takes a role away will leave: an owner in another row,
\* or, when a whole account goes, another person who owns.
OwnerStays(r) ==
    \E j \in OwnerRows : IF r.at = "account" THEN rows[j].person # r.of ELSE j # r.row

\* What makes OwnerRemains inductive: the checks of the one request that takes
\* a role away still hold when it writes, as all others only add owners.
MembersInv ==
    /\ MembersTyped
    /\ ~overlapped => /\ OwnerRows # {} /\ OneRowEach /\ TakersAlone
                      /\ \A c \in Calls : TakesAway(call[c]) => OwnerStays(call[c])

\* What a request in progress carries, by where it is.
LEMMA CallFields ==
    ASSUME NEW r \in CallStates
    PROVE  /\ r.at = "insert" => r.person \in People /\ r.role \in MemberRoles
           /\ r.at = "role" => r.row \in Rows /\ r.role \in MemberRoles
           /\ r.at = "remove" => r.row \in Rows /\ r.of \in People /\ r.hook \in BOOLEAN
           /\ r.at \in {"drop", "account", "seat", "grant"} => r.of \in People
           /\ ~TakesAway(Idle)
BY DEF CallStates, Idle, TakesAway

\* A row for which AnotherOwner holds is not the only owner's row.
LEMMA AnotherOwnerStays ==
    ASSUME rows \in [Rows -> Entries \cup {Absent}], NEW i \in Taken, AnotherOwner(i), OwnerRows # {}
    PROVE  \E j \in OwnerRows : j # i
<1>1. CASE rows[i].role # "owner"
  BY <1>1 DEF OwnerRows
<1>2. CASE rows[i].role = "owner"
  <2>1. SUFFICES ASSUME \A j \in OwnerRows : j = i PROVE FALSE
    OBVIOUS
  <2>2. OwnerRows = {i}
    BY <1>2, <2>1 DEF OwnerRows
  <2> QED
    BY <1>2, <2>2, FS_Singleton DEF AnotherOwner
<1> QED
  BY <1>1, <1>2

\* A request that has passed its checks: what it promises holds when it starts,
\* and if it takes a role away it is alone or the overlap is recorded.
LEMMA BeginKeepsInv ==
    ASSUME MembersInv, NEW c \in Calls, NEW STATE r, r \in CallStates, Begin(c, r),
           ~overlapped /\ TakesAway(r) => OwnerStays(r)
    PROVE  MembersInv'
<1>1. /\ call' = [call EXCEPT ![c] = r] /\ rows' = rows
      /\ overlapped' = (overlapped \/ (TakesAway(r) /\ \E d \in Calls : TakesAway(call[d])))
  BY DEF Begin
<1>2. MembersTyped'
  BY <1>1 DEF MembersInv, MembersTyped
<1>3. \A d \in Calls : call'[d] = IF d = c THEN r ELSE call[d]
  BY <1>1 DEF MembersInv, MembersTyped
<1>4. ASSUME ~overlapped'
      PROVE  /\ (OwnerRows # {})' /\ OneRowEach' /\ TakersAlone'
             /\ (\A d \in Calls : TakesAway(call[d]) => OwnerStays(call[d]))'
  <2>1. ~overlapped /\ (TakesAway(r) => \A d \in Calls : ~TakesAway(call[d]))
    BY <1>1, <1>4
  <2>2. OwnerRows' = OwnerRows /\ Taken' = Taken
    BY <1>1 DEF OwnerRows, Taken
  <2>3. OwnerRows' # {} /\ OneRowEach'
    BY <1>1, <2>1, <2>2 DEF MembersInv, OneRowEach
  <2>4. TakersAlone'
    <3>1. SUFFICES ASSUME NEW d \in Calls, NEW e \in Calls, TakesAway(call'[d]), TakesAway(call'[e])
                   PROVE  d = e
      BY DEF TakersAlone, TakesAway
    <3> QED
      BY <1>3, <2>1, <3>1 DEF MembersInv, TakersAlone
  <2>5. ASSUME NEW d \in Calls, TakesAway(call[d])' PROVE OwnerStays(call[d])'
    <3>1. TakesAway(call'[d])
      BY <2>5 DEF TakesAway
    <3>2. OwnerStays(call'[d])
      BY <1>3, <2>1, <3>1 DEF MembersInv
    <3> QED
      BY <1>1, <2>2, <3>2 DEF OwnerStays
  <2> QED
    BY <2>3, <2>4, <2>5
<1> QED
  BY <1>2, <1>4 DEF MembersInv

\* A request that writes and goes on to take nothing away: it was the one that
\* takes a role away, or every owner is still one.
LEMMA WriteKeepsInv ==
    ASSUME MembersInv, NEW c \in Calls, NEW STATE r, r \in CallStates, ~TakesAway(r),
           call' = [call EXCEPT ![c] = r], rows' \in [Rows -> Entries \cup {Absent}], overlapped' \in BOOLEAN,
           ~overlapped' => /\ ~overlapped /\ OwnerRows' # {} /\ OneRowEach'
                           /\ \/ TakesAway(call[c])
                              \/ \A j \in OwnerRows : j \in OwnerRows' /\ rows'[j].person = rows[j].person
    PROVE  MembersInv'
<1>1. MembersTyped'
  BY DEF MembersInv, MembersTyped
<1>2. \A d \in Calls : call'[d] = IF d = c THEN r ELSE call[d]
  BY DEF MembersInv, MembersTyped
<1>3. ASSUME ~overlapped'
      PROVE  /\ TakersAlone'
             /\ (\A d \in Calls : TakesAway(call[d]) => OwnerStays(call[d]))'
  <2>1. ASSUME NEW d \in Calls, TakesAway(call'[d]) PROVE d # c /\ call'[d] = call[d] /\ TakesAway(call[d])
    BY <1>2, <2>1
  <2>2. TakersAlone'
    <3>1. SUFFICES ASSUME NEW d \in Calls, NEW e \in Calls, TakesAway(call'[d]), TakesAway(call'[e])
                   PROVE  d = e
      BY DEF TakersAlone, TakesAway
    <3> QED
      BY <1>3, <2>1, <3>1 DEF MembersInv, TakersAlone
  <2>3. ASSUME NEW d \in Calls, TakesAway(call[d])' PROVE OwnerStays(call[d])'
    <3>1. TakesAway(call'[d])
      BY <2>3 DEF TakesAway
    <3>2. OwnerStays(call[d]) /\ d # c /\ TakesAway(call[d]) /\ call'[d] = call[d]
      BY <1>3, <2>1, <3>1 DEF MembersInv
    <3>3. \A j \in OwnerRows : j \in OwnerRows' /\ rows'[j].person = rows[j].person
      BY <1>3, <3>2 DEF MembersInv, TakersAlone
    <3> QED
      BY <3>2, <3>3 DEF OwnerStays
  <2> QED
    BY <2>2, <2>3
<1> QED
  BY <1>1, <1>3 DEF MembersInv

\* An organization begins with one row, its owner's.
LEMMA MembersInvInit == MembershipInit => MembersInv
<1> USE MembershipAssumption DEF MembershipInit
<1> SUFFICES ASSUME MembershipInit PROVE MembersInv
  OBVIOUS
<1> DEFINE first == CHOOSE j \in Rows : TRUE
<1>1. first \in Rows
  OBVIOUS
<1>2. PICK p \in People : rows = [i \in Rows |-> IF i = first THEN [person |-> p, role |-> "owner"] ELSE Absent]
  OBVIOUS
<1> HIDE DEF first
<1>3. [person |-> p, role |-> "owner"] \in Entries
  BY DEF Entries
<1>4. MembersTyped
  BY <1>2, <1>3 DEF MembersTyped, CallStates
<1>5. Taken = {first} /\ OwnerRows = {first}
  BY <1>1, <1>2, <1>3 DEF Taken, OwnerRows, Entries
<1>6. \A c \in Calls : ~TakesAway(call[c])
  BY DEF TakesAway, Idle
<1> QED
  BY <1>4, <1>5, <1>6 DEF MembersInv, OneRowEach, TakersAlone

\* Every step of every request keeps the invariant.
LEMMA MembersInvStep == MembersInv /\ [MembershipNext]_memberVars => MembersInv'
<1> SUFFICES ASSUME MembersInv, [MembershipNext]_memberVars PROVE MembersInv'
  OBVIOUS
<1> USE MembershipAssumption
<1>a. /\ rows \in [Rows -> Entries \cup {Absent}] /\ call \in [Calls -> CallStates] /\ overlapped \in BOOLEAN
      /\ Absent \notin Entries
  BY DEF MembersInv, MembersTyped, Entries
<1>b. Idle \in CallStates /\ ~TakesAway(Idle)
  BY DEF CallStates, TakesAway, Idle
<1>1. CASE UNCHANGED <<rows, call, overlapped>>
  BY <1>1 DEF MembersInv, MembersTyped, OwnerRows, Taken, OneRowEach, TakersAlone, TakesAway, OwnerStays
<1>2. ASSUME NEW c \in Calls, NEW p \in People, NEW role \in MemberRoles, joinChecked(c, p, role) PROVE MembersInv'
  <2> DEFINE r == [at |-> "insert", person |-> p, role |-> role]
  <2>1. r \in CallStates /\ ~TakesAway(r)
    BY DEF CallStates, TakesAway
  <2>2. Begin(c, r)
    BY <1>2 DEF joinChecked
  <2> QED
    BY <2>1, <2>2, BeginKeepsInv
<1>3. ASSUME NEW c \in Calls, NEW i \in Rows, NEW role \in MemberRoles, roleChecked(c, i, role) PROVE MembersInv'
  <2> DEFINE r == [at |-> "role", row |-> i, role |-> role]
  <2>1. r \in CallStates
    BY DEF CallStates
  <2>2. Begin(c, r) /\ i \in Taken /\ (role = "owner" \/ AnotherOwner(i))
    BY <1>3 DEF roleChecked
  <2>3. ASSUME ~overlapped, TakesAway(r) PROVE OwnerStays(r)
    <3>1. AnotherOwner(i)
      BY <2>2, <2>3 DEF TakesAway
    <3> QED
      BY <1>a, <2>2, <2>3, <3>1, AnotherOwnerStays DEF OwnerStays, MembersInv
  <2> QED
    BY <2>1, <2>2, <2>3, BeginKeepsInv
<1>4. ASSUME NEW c \in Calls, NEW i \in Rows, NEW hook \in BOOLEAN, removeChecked(c, i, hook) PROVE MembersInv'
  <2> DEFINE r == [at |-> "remove", row |-> i, of |-> rows[i].person, hook |-> hook]
  <2>1. Begin(c, r) /\ i \in Taken /\ AnotherOwner(i)
    BY <1>4 DEF removeChecked
  <2>2. rows[i].person \in People
    BY <1>a, <2>1 DEF Taken, Entries
  <2>3. r \in CallStates
    BY <2>2 DEF CallStates
  <2>4. ASSUME ~overlapped PROVE OwnerStays(r)
    BY <1>a, <2>1, <2>4, AnotherOwnerStays DEF OwnerStays, MembersInv
  <2> QED
    BY <2>1, <2>3, <2>4, BeginKeepsInv
<1>5. ASSUME NEW c \in Calls, NEW p \in People, refuseDeletionOfLastOwner(c, p) PROVE MembersInv'
  <2> DEFINE r == [at |-> "account", of |-> p]
  <2>1. r \in CallStates
    BY DEF CallStates
  <2>2. Begin(c, r) /\ ((\E i \in RowsOf(p) : rows[i].role = "owner") => \E j \in OwnerRows : rows[j].person # p)
    BY <1>5 DEF refuseDeletionOfLastOwner
  <2>3. ASSUME ~overlapped PROVE \E j \in OwnerRows : rows[j].person # p
    <3>1. PICK j \in OwnerRows : TRUE
      BY <2>3 DEF MembersInv
    <3>2. rows[j].person = p => j \in RowsOf(p) /\ rows[j].role = "owner"
      BY DEF OwnerRows, Taken, RowsOf
    <3> QED
      BY <2>2, <3>2
  <2> QED
    BY <2>1, <2>2, <2>3, BeginKeepsInv DEF OwnerStays
<1>6. ASSUME NEW c \in Calls, NEW p \in People, adminDeleteUser(c, p) PROVE MembersInv'
  <2> DEFINE r == [at |-> "account", of |-> p]
  <2>1. r \in CallStates
    BY DEF CallStates
  <2>2. Begin(c, r) /\ \A i \in RowsOf(p) : AnotherOwner(i)
    BY <1>6 DEF adminDeleteUser
  <2>3. ASSUME ~overlapped PROVE \E j \in OwnerRows : rows[j].person # p
    <3>1. PICK i \in OwnerRows : TRUE
      BY <2>3 DEF MembersInv
    <3>2. CASE rows[i].person # p
      BY <3>2
    <3>3. CASE rows[i].person = p
      <4>1. i \in Taken /\ AnotherOwner(i)
        BY <2>2, <3>3 DEF OwnerRows, Taken, RowsOf
      <4>2. PICK j \in OwnerRows : j # i
        BY <1>a, <2>3, <4>1, AnotherOwnerStays DEF MembersInv
      <4>3. j \in Taken
        BY DEF OwnerRows
      <4> QED
        BY <2>3, <3>3, <4>1, <4>2, <4>3 DEF MembersInv, OneRowEach
    <3> QED
      BY <3>2, <3>3
  <2> QED
    BY <2>1, <2>2, <2>3, BeginKeepsInv DEF OwnerStays
<1>7. ASSUME NEW c \in Calls, NEW p \in People, NEW what \in {"seat", "grant"}, accessChecked(c, p, what)
      PROVE  MembersInv'
  <2> DEFINE r == [at |-> what, of |-> p]
  <2>1. r \in CallStates /\ ~TakesAway(r)
    BY DEF CallStates, TakesAway
  <2> QED
    BY <1>7, <2>1, BeginKeepsInv DEF accessChecked
<1>8. ASSUME NEW c \in Calls, insertMember(c) PROVE MembersInv'
  <2> DEFINE new == CHOOSE i \in Unused : TRUE
             entry == [person |-> call[c].person, role |-> call[c].role]
  <2>1. new \in Rows \ Taken /\ rows' = [rows EXCEPT ![new] = entry] /\ call' = [call EXCEPT ![c] = Idle]
    <3>1. new \in Unused
      BY <1>8 DEF insertMember
    <3> QED
      BY <1>8, <3>1 DEF insertMember, Unused
  <2>2. overlapped' = (overlapped \/ RowsOf(call[c].person) # {})
    BY <1>8 DEF insertMember
  <2>3. entry \in Entries
    BY <1>8, <1>a, CallFields DEF insertMember, Entries
  <2> HIDE DEF new, entry
  <2>4. rows' \in [Rows -> Entries \cup {Absent}] /\ overlapped' \in BOOLEAN
    BY <1>a, <2>1, <2>2, <2>3
  <2>5. Taken' = Taken \cup {new} /\ rows'[new] = entry /\ \A j \in Taken : rows'[j] = rows[j]
    BY <1>a, <2>1, <2>3 DEF Taken
  <2>6. \A j \in OwnerRows : j \in OwnerRows' /\ rows'[j].person = rows[j].person
    BY <2>5 DEF OwnerRows
  <2>7. ASSUME ~overlapped' PROVE ~overlapped /\ OwnerRows' # {} /\ OneRowEach'
    <3>1. ~overlapped /\ \A j \in Taken : rows[j].person # entry.person
      BY <2>2, <2>7 DEF RowsOf, Taken, entry
    <3> QED
      BY <2>5, <2>6, <3>1 DEF MembersInv, OneRowEach
  <2> QED
    BY <1>b, <2>1, <2>4, <2>6, <2>7, WriteKeepsInv
<1>9. ASSUME NEW c \in Calls, updateRole(c) PROVE MembersInv'
  <2> DEFINE i == call[c].row
  <2>1. /\ call[c].at = "role" /\ call' = [call EXCEPT ![c] = Idle] /\ overlapped' = overlapped
        /\ rows' = IF rows[i] = Absent THEN rows ELSE [rows EXCEPT ![i].role = call[c].role]
    BY <1>9 DEF updateRole, End
  <2>2. i \in Rows /\ call[c].role \in MemberRoles
    BY <1>a, <2>1, CallFields
  <2>3. /\ rows' \in [Rows -> Entries \cup {Absent}] /\ Taken' = Taken
        /\ \A j \in Taken : rows'[j].person = rows[j].person
        /\ \A j \in Taken : rows'[j].role = IF j = i THEN call[c].role ELSE rows[j].role
    <3>1. CASE rows[i] = Absent
      BY <1>a, <2>1, <3>1 DEF Taken
    <3>2. CASE rows[i] # Absent
      BY <1>a, <2>1, <2>2, <3>2 DEF Taken, Entries
    <3> QED
      BY <3>1, <3>2
  <2>4. ASSUME ~overlapped' PROVE OwnerRows' # {} /\ OneRowEach'
    <3>1. ~overlapped
      BY <2>1, <2>4
    <3>2. OneRowEach'
      BY <2>3, <3>1 DEF MembersInv, OneRowEach
    <3>3. CASE call[c].role = "owner"
      <4>1. PICK j \in OwnerRows : TRUE
        BY <3>1 DEF MembersInv
      <4>2. j \in OwnerRows'
        BY <2>3, <3>3, <4>1 DEF OwnerRows
      <4> QED
        BY <3>2, <4>2
    <3>4. CASE call[c].role # "owner"
      <4>1. OwnerStays(call[c])
        BY <2>1, <3>1, <3>4 DEF MembersInv, TakesAway
      <4> QED
        BY <2>1, <2>3, <3>2, <4>1 DEF OwnerStays, OwnerRows
    <3> QED
      BY <3>2, <3>3, <3>4
  <2>5. ~TakesAway(call[c]) => \A j \in OwnerRows : j \in OwnerRows' /\ rows'[j].person = rows[j].person
    BY <2>1, <2>3 DEF TakesAway, OwnerRows
  <2> QED
    BY <1>a, <1>b, <2>1, <2>3, <2>4, <2>5, WriteKeepsInv
<1>10. ASSUME NEW c \in Calls, deleteMember(c) PROVE MembersInv'
  <2> DEFINE i == call[c].row
             r == IF call[c].hook THEN [at |-> "drop", of |-> call[c].of] ELSE Idle
  <2>1. /\ call[c].at = "remove" /\ call' = [call EXCEPT ![c] = r] /\ overlapped' = overlapped
        /\ rows' = [rows EXCEPT ![i] = Absent]
    BY <1>10, <1>a DEF deleteMember
  <2>2. r \in CallStates /\ ~TakesAway(r)
    BY <1>a, <1>b, <2>1, CallFields DEF CallStates, TakesAway
  <2> HIDE DEF r
  <2>3. /\ rows' \in [Rows -> Entries \cup {Absent}] /\ Taken' = Taken \ {i}
        /\ \A j \in Taken \ {i} : rows'[j] = rows[j]
    BY <1>a, <2>1 DEF Taken
  <2>4. TakesAway(call[c])
    BY <2>1 DEF TakesAway
  <2>5. ASSUME ~overlapped' PROVE OwnerRows' # {} /\ OneRowEach'
    <3>1. OwnerStays(call[c]) /\ OneRowEach
      BY <2>1, <2>4, <2>5 DEF MembersInv
    <3> QED
      BY <2>1, <2>3, <3>1 DEF OwnerStays, OwnerRows, OneRowEach
  <2> QED
    BY <1>a, <2>1, <2>2, <2>3, <2>4, <2>5, WriteKeepsInv
<1>11. ASSUME NEW c \in Calls, dropOrganizationAccess(c) \/ addTeamMember(c) \/ setRepoGrant(c) PROVE MembersInv'
  <2>1. call' = [call EXCEPT ![c] = Idle] /\ UNCHANGED <<rows, overlapped>>
    BY <1>11 DEF dropOrganizationAccess, addTeamMember, setRepoGrant, End
  <2>2. OwnerRows' = OwnerRows /\ (OneRowEach => OneRowEach')
    BY <2>1 DEF OwnerRows, Taken, OneRowEach
  <2> QED
    BY <1>a, <1>b, <2>1, <2>2, WriteKeepsInv DEF MembersInv
<1>12. ASSUME NEW c \in Calls, deleteAccount(c) PROVE MembersInv'
  <2>1. /\ call[c].at = "account" /\ call' = [call EXCEPT ![c] = Idle] /\ overlapped' = overlapped
        /\ rows' = [i \in Rows |-> IF i \in RowsOf(call[c].of) THEN Absent ELSE rows[i]]
    BY <1>12 DEF deleteAccount, End
  <2>2. /\ rows' \in [Rows -> Entries \cup {Absent}]
        /\ Taken' = {j \in Taken : rows[j].person # call[c].of} /\ \A j \in Taken' : rows'[j] = rows[j]
    BY <1>a, <2>1 DEF Taken, RowsOf
  <2>3. TakesAway(call[c])
    BY <2>1 DEF TakesAway
  <2>4. ASSUME ~overlapped' PROVE OwnerRows' # {} /\ OneRowEach'
    <3>1. OwnerStays(call[c]) /\ OneRowEach
      BY <2>1, <2>3, <2>4 DEF MembersInv
    <3> QED
      <4>1. PICK j \in OwnerRows : rows[j].person # call[c].of
        BY <2>1, <3>1 DEF OwnerStays
      <4>2. j \in OwnerRows'
        BY <2>2, <4>1 DEF OwnerRows
      <4>3. OneRowEach'
        BY <2>2, <3>1 DEF OneRowEach
      <4> QED
        BY <4>2, <4>3
  <2> QED
    BY <1>a, <1>b, <2>1, <2>2, <2>3, <2>4, WriteKeepsInv
<1>13. ASSUME NEW p \in People, removeTeamMember(p) \/ removeRepoGrant(p) PROVE MembersInv'
  BY <1>1, <1>13 DEF removeTeamMember, removeRepoGrant
<1>14. CASE UNCHANGED memberVars
  BY <1>1, <1>14 DEF memberVars
<1> QED
  BY <1>2, <1>3, <1>4, <1>5, <1>6, <1>7, <1>8, <1>9, <1>10, <1>11, <1>12, <1>13, <1>14 DEF MembershipNext

\* "The last owner of an organization is never removed" (group-bindings.ts),
\* with any number of people and requests: unless two requests that take a role
\* away, or two that take the same person in, overlap, an owner remains.
THEOREM AnOwnerRemains == MembershipSpec => []OwnerRemains
<1>1. MembersInv => OwnerRemains
  BY DEF MembersInv, OwnerRemains
<1> QED
  BY <1>1, MembersInvInit, MembersInvStep, PTL DEF MembershipSpec

\* Rows, seats and grants are those of people, whatever requests overlap.
THEOREM MembersTypeCorrect == MembershipSpec => []MembershipTypeOK
<1> DEFINE Given == seats \subseteq People /\ grantees \subseteq People
<1>1. MembershipInit => Given
  BY DEF MembershipInit
<1>2. MembersInv /\ Given /\ [MembershipNext]_memberVars => Given'
  <2> SUFFICES ASSUME MembersInv, Given, [MembershipNext]_memberVars PROVE Given'
    OBVIOUS
  <2>1. ASSUME NEW c \in Calls, addTeamMember(c) \/ setRepoGrant(c) PROVE Given'
    <3>1. call[c] \in CallStates /\ call[c].at \in {"seat", "grant"}
      BY <2>1 DEF MembersInv, MembersTyped, addTeamMember, setRepoGrant
    <3>2. call[c].of \in People
      BY <3>1, CallFields
    <3> QED
      BY <2>1, <3>2 DEF addTeamMember, setRepoGrant
  <2>2. ASSUME ~\E c \in Calls : addTeamMember(c) \/ setRepoGrant(c) PROVE Given'
    BY <2>2 DEF MembershipNext, memberVars, joinChecked, roleChecked, removeChecked, refuseDeletionOfLastOwner,
           adminDeleteUser, accessChecked, insertMember, updateRole, deleteMember, dropOrganizationAccess,
           deleteAccount, removeTeamMember, removeRepoGrant, Begin
  <2> QED
    BY <2>1, <2>2
<1>3. MembersInv /\ Given => MembershipTypeOK
  <2> SUFFICES ASSUME MembersInv, Given PROVE MembershipTypeOK
    OBVIOUS
  <2>1. rows \in [Rows -> [person : People, role : MemberRoles] \cup {Absent}]
    BY DEF MembersInv, MembersTyped, Entries
  <2>2. ASSUME NEW c \in Calls
        PROVE  call[c].at \in {"idle", "insert", "role", "remove", "drop", "account", "seat", "grant"}
    <3>1. call[c] \in CallStates
      BY DEF MembersInv, MembersTyped
    <3> QED
      BY <3>1 DEF CallStates, Idle
  <2> QED
    BY <2>1, <2>2 DEF MembershipTypeOK
<1> QED
  BY <1>1, <1>2, <1>3, MembersInvInit, MembersInvStep, PTL DEF MembershipSpec

Inserting == {c \in Calls : call[c].at = "insert"}

\* What makes LimitExceededByRacersOnly inductive: the rows there are and the
\* rows about to be inserted, together.
SeatsInv ==
    crowded \in Nat /\ Cardinality(Taken) + Cardinality(Inserting) <= MaxMembers + crowded - 1

\* Rows and pending insertions are finitely many.
LEMMA SeatsFinite ==
    /\ IsFiniteSet(Taken) /\ Cardinality(Taken) \in Nat
    /\ IsFiniteSet(Inserting) /\ Cardinality(Inserting) \in Nat
BY MembershipAssumption, FS_Subset, FS_CardinalityType DEF Taken, Inserting

\* A request that passes its checks, and asked for the quota if it inserts.
LEMMA BeginKeepsSeats ==
    ASSUME MembersInv, SeatsInv, NEW c \in Calls, NEW STATE r, r \in CallStates, Begin(c, r),
           r.at = "insert" => checkMemberQuota
    PROVE  SeatsInv'
<1> DEFINE T == Cardinality(Taken)
           N == Cardinality(Inserting)
<1>1. call[c] = Idle /\ call' = [call EXCEPT ![c] = r] /\ Taken' = Taken
  BY DEF Begin, Taken
<1>2. \A d \in Calls : call'[d] = IF d = c THEN r ELSE call[d]
  BY <1>1 DEF MembersInv, MembersTyped
<1>3. T \in Nat /\ N \in Nat /\ N' \in Nat
  <2>1. N' \in Nat
    BY MembershipAssumption, FS_Subset, FS_CardinalityType DEF Inserting
  <2> QED
    BY <2>1, SeatsFinite
<1>4. crowded' = IF N' > crowded THEN N' ELSE crowded
  BY DEF Begin, Inserting
<1>5. CASE r.at = "insert"
  BY <1>1, <1>3, <1>4, <1>5, MembershipAssumption DEF SeatsInv, checkMemberQuota
<1>6. CASE r.at # "insert"
  <2>1. Inserting' = Inserting
    BY <1>1, <1>2, <1>6 DEF Inserting, Idle
  <2> QED
    BY <1>1, <1>3, <1>4, <2>1, MembershipAssumption DEF SeatsInv
<1> QED
  BY <1>5, <1>6

\* A step that adds neither a row nor a request about to insert one.
LEMMA FewerSeats ==
    ASSUME SeatsInv, Taken' \subseteq Taken, Inserting' \subseteq Inserting, crowded' = crowded
    PROVE  SeatsInv'
<1>1. /\ Cardinality(Taken') \in Nat /\ Cardinality(Taken') <= Cardinality(Taken)
      /\ Cardinality(Inserting') \in Nat /\ Cardinality(Inserting') <= Cardinality(Inserting)
  BY SeatsFinite, FS_Subset, FS_CardinalityType
<1> QED
  BY <1>1, SeatsFinite, MembershipAssumption DEF SeatsInv

\* Every request preserves the bookkeeping of seats.
LEMMA SeatsStep == MembersInv /\ SeatsInv /\ [MembershipNext]_memberVars => SeatsInv'
<1> SUFFICES ASSUME MembersInv, SeatsInv, [MembershipNext]_memberVars PROVE SeatsInv'
  OBVIOUS
<1> USE MembershipAssumption
<1>a. rows \in [Rows -> Entries \cup {Absent}] /\ call \in [Calls -> CallStates] /\ Absent \notin Entries
  BY DEF MembersInv, MembersTyped, Entries
<1>1. CASE UNCHANGED <<rows, call, crowded>>
  BY <1>1, FewerSeats DEF Taken, Inserting
<1>2. ASSUME NEW c \in Calls, NEW p \in People, NEW role \in MemberRoles, joinChecked(c, p, role) PROVE SeatsInv'
  <2>1. [at |-> "insert", person |-> p, role |-> role] \in CallStates
    BY DEF CallStates
  <2> QED
    BY <1>2, <2>1, BeginKeepsSeats DEF joinChecked
<1>3. ASSUME NEW c \in Calls, NEW i \in Rows, NEW role \in MemberRoles, roleChecked(c, i, role) PROVE SeatsInv'
  <2>1. [at |-> "role", row |-> i, role |-> role] \in CallStates
    BY DEF CallStates
  <2> QED
    BY <1>3, <2>1, BeginKeepsSeats DEF roleChecked
<1>4. ASSUME NEW c \in Calls, NEW i \in Rows, NEW hook \in BOOLEAN, removeChecked(c, i, hook) PROVE SeatsInv'
  <2> DEFINE r == [at |-> "remove", row |-> i, of |-> rows[i].person, hook |-> hook]
  <2>1. Begin(c, r) /\ rows[i].person \in People
    BY <1>4, <1>a DEF removeChecked, Taken, Entries
  <2>2. r \in CallStates /\ r.at # "insert"
    BY <2>1 DEF CallStates
  <2> HIDE DEF r
  <2> QED
    BY <2>1, <2>2, BeginKeepsSeats
<1>5. ASSUME NEW c \in Calls, NEW p \in People, refuseDeletionOfLastOwner(c, p) \/ adminDeleteUser(c, p) PROVE SeatsInv'
  <2>1. [at |-> "account", of |-> p] \in CallStates
    BY DEF CallStates
  <2> QED
    BY <1>5, <2>1, BeginKeepsSeats DEF refuseDeletionOfLastOwner, adminDeleteUser
<1>6. ASSUME NEW c \in Calls, NEW p \in People, NEW what \in {"seat", "grant"}, accessChecked(c, p, what) PROVE SeatsInv'
  <2>1. [at |-> what, of |-> p] \in CallStates /\ what # "insert"
    BY DEF CallStates
  <2> QED
    BY <1>6, <2>1, BeginKeepsSeats DEF accessChecked
<1>7. ASSUME NEW c \in Calls, insertMember(c) PROVE SeatsInv'
  <2> DEFINE new == CHOOSE i \in Unused : TRUE
             entry == [person |-> call[c].person, role |-> call[c].role]
  <2>1. new \in Unused
    BY <1>7 DEF insertMember
  <2>2. new \in Rows \ Taken /\ rows' = [rows EXCEPT ![new] = entry] /\ call' = [call EXCEPT ![c] = Idle] /\ crowded' = crowded
    BY <1>7, <2>1 DEF insertMember, Unused
  <2>3. entry \in Entries
    BY <1>7, <1>a, CallFields DEF insertMember, Entries
  <2> HIDE DEF new, entry
  <2>4. Taken' = Taken \cup {new}
    BY <1>a, <2>2, <2>3 DEF Taken
  <2>5. Inserting' = Inserting \ {c} /\ c \in Inserting
    BY <1>7, <1>a, <2>2 DEF Inserting, insertMember, Idle
  <2>6. Cardinality(Taken') = Cardinality(Taken) + 1
    BY <2>2, <2>4, SeatsFinite, FS_AddElement
  <2>7. Cardinality(Inserting') = Cardinality(Inserting) - 1
    BY <2>5, SeatsFinite, FS_RemoveElement
  <2> QED
    BY <2>2, <2>6, <2>7, SeatsFinite DEF SeatsInv
<1>8. ASSUME NEW c \in Calls, updateRole(c) PROVE SeatsInv'
  <2>1. call[c].at = "role" /\ call' = [call EXCEPT ![c] = Idle] /\ crowded' = crowded
    BY <1>8 DEF updateRole, End
  <2>2. call[c].row \in Rows
    BY <1>a, <2>1, CallFields
  <2>3. rows' = IF rows[call[c].row] = Absent THEN rows ELSE [rows EXCEPT ![call[c].row].role = call[c].role]
    BY <1>8 DEF updateRole
  <2>4. Taken' \subseteq Taken
    BY <1>a, <2>2, <2>3 DEF Taken
  <2>5. Inserting' \subseteq Inserting
    BY <1>a, <2>1 DEF Inserting, Idle
  <2> QED
    BY <2>1, <2>4, <2>5, FewerSeats
<1>9. ASSUME NEW c \in Calls, deleteMember(c) PROVE SeatsInv'
  <2> DEFINE r == IF call[c].hook THEN [at |-> "drop", of |-> call[c].of] ELSE Idle
  <2>1. call' = [call EXCEPT ![c] = r] /\ crowded' = crowded /\ rows' = [rows EXCEPT ![call[c].row] = Absent]
    BY <1>9, <1>a DEF deleteMember
  <2>2. r.at # "insert"
    BY DEF Idle
  <2> HIDE DEF r
  <2>3. Taken' \subseteq Taken /\ Inserting' \subseteq Inserting
    BY <1>a, <2>1, <2>2 DEF Taken, Inserting
  <2> QED
    BY <2>1, <2>3, FewerSeats
<1>10. ASSUME NEW c \in Calls, dropOrganizationAccess(c) \/ addTeamMember(c) \/ setRepoGrant(c) PROVE SeatsInv'
  <2>1. call' = [call EXCEPT ![c] = Idle] /\ UNCHANGED <<rows, crowded>>
    BY <1>10 DEF dropOrganizationAccess, addTeamMember, setRepoGrant, End
  <2>2. Taken' \subseteq Taken /\ Inserting' \subseteq Inserting
    BY <1>a, <2>1 DEF Taken, Inserting, Idle
  <2> QED
    BY <2>1, <2>2, FewerSeats
<1>11. ASSUME NEW c \in Calls, deleteAccount(c) PROVE SeatsInv'
  <2>1. /\ call' = [call EXCEPT ![c] = Idle] /\ crowded' = crowded
        /\ rows' = [i \in Rows |-> IF i \in RowsOf(call[c].of) THEN Absent ELSE rows[i]]
    BY <1>11 DEF deleteAccount, End
  <2>2. Taken' \subseteq Taken /\ Inserting' \subseteq Inserting
    BY <1>a, <2>1 DEF Taken, Inserting, Idle
  <2> QED
    BY <2>1, <2>2, FewerSeats
<1>12. ASSUME NEW p \in People, removeTeamMember(p) \/ removeRepoGrant(p) PROVE SeatsInv'
  BY <1>1, <1>12 DEF removeTeamMember, removeRepoGrant
<1>13. CASE UNCHANGED memberVars
  BY <1>1, <1>13 DEF memberVars
<1> QED
  BY <1>2, <1>3, <1>4, <1>5, <1>6, <1>7, <1>8, <1>9, <1>10, <1>11, <1>12, <1>13 DEF MembershipNext

\* checkMemberQuota, for any limit and any number of requests: the limit is
\* exceeded by no more than the requests that had passed the check together.
THEOREM LimitHolds == MembershipSpec => []LimitExceededByRacersOnly
<1>1. MembershipInit => SeatsInv
  <2> SUFFICES ASSUME MembershipInit PROVE SeatsInv
    OBVIOUS
  <2> DEFINE first == CHOOSE j \in Rows : TRUE
  <2>1. Taken \subseteq {first} /\ Inserting = {} /\ crowded = 1
    BY DEF MembershipInit, Taken, Inserting, Idle
  <2>2. Cardinality(Taken) <= 1 /\ Cardinality(Inserting) = 0
    <3>1. IsFiniteSet({first}) /\ Cardinality({first}) = 1
      BY FS_Singleton
    <3>2. Cardinality(Taken) <= Cardinality({first})
      BY <2>1, <3>1, FS_Subset
    <3> QED
      BY <2>1, <3>1, <3>2, FS_EmptySet
  <2> QED
    BY <2>1, <2>2, SeatsFinite, MembershipAssumption DEF SeatsInv
<1>2. SeatsInv => LimitExceededByRacersOnly
  BY SeatsFinite, MembershipAssumption DEF SeatsInv, LimitExceededByRacersOnly
<1> QED
  BY <1>1, <1>2, MembersInvInit, MembersInvStep, SeatsStep, PTL DEF MembershipSpec

-----------------------------------------------------------------------------
(* Signing keys. *)

\* A key that is retired leaves its tokens, and the requests that looked it up
\* before, no more than what is left of TTL from the retirement.
TokensEndInTime ==
    /\ \A k \in Keys : life[k] > 0 => k \in Born /\ gone[k] + life[k] <= TTL
    /\ \A w \in Signers : signing[w].kid \in Keys =>
           signing[w].kid \in Born /\ (signing[w].left > 0 => gone[signing[w].kid] + signing[w].left <= TTL)

\* What a replica was told: every key there was at the time, but for those
\* retired longer ago than the window, and of the ones it takes for active
\* none that had been retired by then.
SnapshotOK(s) ==
    /\ s.upto <= Len(born)
    /\ \A i \in 1..s.upto : born[i] \in s.kids \/ gone[born[i]] > Window
    /\ \A k \in s.kids \ s.dead : gone[k] <= s.since

\* What makes RotationKeepsTokens and RetiredKeysAreDropped inductive.
KeysInv ==
    /\ KeysTypeOK /\ TokensEndInTime
    /\ \A v \in Verifiers : SnapshotOK(loaded[v])
    /\ \A x \in Verifiers \X Refreshes : reading[x] # NoKey => SnapshotOK(reading[x])

\* Rows that were read stay true while keys are added and grow old.
LEMMA SnapshotsStay ==
    ASSUME KeysTypeOK, NEW s \in Snapshots, SnapshotOK(s),
           NEW t \in Snapshots, t.kids = s.kids, t.dead = s.dead, t.upto = s.upto,
           born' \in Seq(Keys), Len(born) <= Len(born'), \A i \in 1..Len(born) : born'[i] = born[i],
           \A k \in Keys : (gone[k] > Window => gone'[k] > Window) /\ (gone[k] <= s.since => gone'[k] <= t.since)
    PROVE  /\ t.upto <= Len(born')
           /\ \A i \in 1..t.upto : born'[i] \in t.kids \/ gone'[born'[i]] > Window
           /\ \A k \in t.kids \ t.dead : gone'[k] <= t.since
<1>1. /\ Len(born) \in Nat /\ Len(born') \in Nat /\ s.upto \in Nat /\ s.kids \subseteq Keys
      /\ \A i \in 1..Len(born) : born[i] \in Keys
  BY DEF KeysTypeOK, Snapshots
<1> QED
  BY <1>1 DEF SnapshotOK

\* The newest active key is one of the keys, and not retired.
LEMMA NewestIsActive ==
    ASSUME KeysTypeOK, newestActiveKey # NoKey
    PROVE  newestActiveKey \in Keys /\ newestActiveKey \in Born /\ gone[newestActiveKey] = -1
<1> DEFINE newest == {i \in DOMAIN born : /\ gone[born[i]] = -1
                                          /\ \A j \in DOMAIN born : j > i => gone[born[j]] # -1}
           n == CHOOSE i \in newest : TRUE
<1>1. newest # {} /\ newestActiveKey = born[n]
  BY DEF newestActiveKey
<1>2. n \in newest
  BY <1>1
<1>3. n \in DOMAIN born /\ gone[born[n]] = -1
  BY <1>2
<1> HIDE DEF n
<1>4. born[n] \in Keys /\ born[n] \in Born
  BY <1>3 DEF KeysTypeOK, Born, Range
<1> QED
  BY <1>1, <1>3, <1>4

\* The inductive invariant holds of a database without keys.
LEMMA KeysInvInit == KeysInit => KeysInv
<1> SUFFICES ASSUME KeysInit PROVE KeysInv
  OBVIOUS
<1> USE KeysAssumption DEF KeysInit
<1>1. LongAgo \in Nat /\ NoRows \in Snapshots
  BY DEF LongAgo, NoRows, Snapshots
<1>2. KeysTypeOK
  BY <1>1 DEF KeysTypeOK
<1>3. TokensEndInTime
  BY DEF TokensEndInTime
<1>4. SnapshotOK(NoRows)
  BY DEF SnapshotOK, NoRows
<1> QED
  BY <1>2, <1>3, <1>4 DEF KeysInv

\* Every step of an application or of a registry preserves it.
LEMMA KeysInvStep == KeysInv /\ [KeysNext]_keyVars => KeysInv'
<1> SUFFICES ASSUME KeysInv, [KeysNext]_keyVars PROVE KeysInv'
  OBVIOUS
<1> USE KeysAssumption
<1>a. /\ KeysTypeOK /\ TokensEndInTime
      /\ \A v \in Verifiers : loaded[v] \in Snapshots /\ SnapshotOK(loaded[v])
      /\ \A x \in Verifiers \X Refreshes : reading[x] # NoKey => reading[x] \in Snapshots /\ SnapshotOK(reading[x])
  BY DEF KeysInv, KeysTypeOK
<1>b. LongAgo \in Nat /\ LongAgo = Window + 1 /\ 0 \in 0..LongAgo
  BY DEF LongAgo
<1>c. \A n \in -1..LongAgo : Older(n) \in 0..LongAgo /\ (n < LongAgo => Older(n) = n + 1) /\ (n = LongAgo => Older(n) = LongAgo)
  BY <1>b DEF Older
<1>e. gone \in [Keys -> -1..LongAgo] /\ \A k \in Keys : gone[k] \in -1..LongAgo
  BY <1>a DEF KeysTypeOK
<1>d. ASSUME born' = born, gone' = gone, loaded' = loaded, reading' = reading, KeysTypeOK', TokensEndInTime' PROVE KeysInv'
  BY <1>a, <1>d DEF KeysInv, SnapshotOK
<1>1. CASE UNCHANGED keyVars
  <2>1. KeysTypeOK' /\ TokensEndInTime'
    BY <1>1, <1>a DEF keyVars, KeysTypeOK, TokensEndInTime, Born
  <2> QED
    BY <1>1, <1>d, <2>1 DEF keyVars
<1>2. ASSUME NEW k \in Keys, generateSigningKey(k) PROVE KeysInv'
  <2>1. born' = Append(born, k) /\ UNCHANGED <<gone, life, signing, retiring, loaded, reading>>
    BY <1>2 DEF generateSigningKey
  <2>2. KeysTypeOK'
    BY <1>a, <2>1 DEF KeysTypeOK
  <2>3. Len(born) <= Len(born') /\ \A i \in 1..Len(born) : born'[i] = born[i]
    BY <1>a, <2>1 DEF KeysTypeOK
  <2>4. Born \subseteq Born'
    <3> SUFFICES ASSUME NEW i \in DOMAIN born PROVE born[i] \in Born'
      BY DEF Born, Range
    <3>1. born \in Seq(Keys) /\ born' \in Seq(Keys)
      BY <1>a, <2>2 DEF KeysTypeOK
    <3>2. i \in 1..Len(born) /\ i \in 1..Len(born')
      BY <2>3, <3>1
    <3>3. born'[i] \in Born'
      BY <3>1, <3>2 DEF Born, Range
    <3> QED
      BY <2>3, <3>2, <3>3
  <2>5. TokensEndInTime'
    BY <1>a, <2>1, <2>4 DEF TokensEndInTime
  <2>6. ASSUME NEW s \in Snapshots, SnapshotOK(s) PROVE SnapshotOK(s)'
    BY <1>a, <2>1, <2>2, <2>3, <2>6, SnapshotsStay DEF SnapshotOK, KeysTypeOK
  <2> QED
    BY <1>a, <2>1, <2>2, <2>5, <2>6 DEF KeysInv
<1>3. ASSUME NEW k \in Keys, RetireCheck(k) PROVE KeysInv'
  <2>1. KeysTypeOK' /\ TokensEndInTime'
    BY <1>3, <1>a DEF RetireCheck, KeysTypeOK, TokensEndInTime, Born
  <2> QED
    BY <1>3, <1>d, <2>1 DEF RetireCheck
<1>4. CASE RetireWrite
  <2>1. /\ retiring \in Keys /\ UNCHANGED <<born, life, signing, loaded, reading>> /\ retiring' = NoKey
        /\ gone' = [gone EXCEPT ![retiring] = IF gone[retiring] = -1 THEN 0 ELSE gone[retiring]]
    BY <1>4, <1>a DEF RetireWrite, KeysTypeOK
  <2>2. gone' \in [Keys -> -1..LongAgo] /\ \A k \in Keys : gone'[k] = gone[k] \/ (gone[k] = -1 /\ gone'[k] = 0)
    <3> DEFINE g == IF gone[retiring] = -1 THEN 0 ELSE gone[retiring]
    <3>1. g \in -1..LongAgo /\ (g = gone[retiring] \/ (gone[retiring] = -1 /\ g = 0))
      BY <1>b, <1>e, <2>1
    <3> HIDE DEF g
    <3>2. gone' = [gone EXCEPT ![retiring] = g] /\ retiring \in Keys
      BY <2>1 DEF g
    <3> QED
      BY <1>e, <3>1, <3>2
  <2>3. KeysTypeOK'
    BY <1>a, <2>1, <2>2 DEF KeysTypeOK
  <2>4. TokensEndInTime'
    BY <1>a, <2>1, <2>2 DEF TokensEndInTime, KeysTypeOK, Born
  <2>5. ASSUME NEW s \in Snapshots, SnapshotOK(s) PROVE SnapshotOK(s)'
    <3>1. s.since \in Nat /\ \A k \in Keys : gone[k] \in Int
      BY <1>b, <1>e DEF Snapshots
    <3>2. \A k \in Keys : (gone[k] > Window => gone'[k] > Window) /\ (gone[k] <= s.since => gone'[k] <= s.since)
      BY <2>2, <3>1
    <3> QED
      BY <1>a, <2>1, <2>5, <3>2, SnapshotsStay DEF SnapshotOK, KeysTypeOK
  <2> QED
    BY <1>a, <2>1, <2>3, <2>4, <2>5 DEF KeysInv
<1>5. ASSUME NEW w \in Signers, activeSigner(w) PROVE KeysInv'
  <2>1. PICK k \in {newestActiveKey, FileKey} \ {NoKey} : signing' = [signing EXCEPT ![w] = [kid |-> k, left |-> TTL]]
    BY <1>5 DEF activeSigner
  <2>2. UNCHANGED <<born, gone, life, retiring, loaded, reading>>
    BY <1>5 DEF activeSigner
  <2>3. k = FileKey \/ (k \in Keys /\ k \in Born /\ gone[k] = -1)
    BY <1>a, NewestIsActive
  <2>4. KeysTypeOK'
    BY <1>a, <2>1, <2>2, <2>3 DEF KeysTypeOK
  <2>5. TokensEndInTime'
    BY <1>a, <2>1, <2>2, <2>3 DEF TokensEndInTime, KeysTypeOK, Born
  <2> QED
    BY <1>d, <2>2, <2>4, <2>5
<1>6. ASSUME NEW w \in Signers, signRegistryToken(w) PROVE KeysInv'
  <2> DEFINE k == signing[w].kid
             l == signing[w].left
  <2>1. /\ k # NoKey /\ signing' = [signing EXCEPT ![w] = [kid |-> NoKey, left |-> 0]]
        /\ life' = IF k = FileKey THEN life ELSE [life EXCEPT ![k] = IF life[k] > l THEN life[k] ELSE l]
        /\ UNCHANGED <<born, gone, retiring, loaded, reading>>
    BY <1>6, <1>a DEF signRegistryToken
  <2>2. k \in Keys \cup {FileKey} /\ l \in 0..TTL
    BY <1>a, <2>1 DEF KeysTypeOK
  <2>3. k \in Keys => k \in Born /\ (l > 0 => gone[k] + l <= TTL)
    BY <1>a DEF TokensEndInTime
  <2> HIDE DEF k, l
  <2>4. signing' \in [Signers -> [kid : Keys \cup {FileKey, NoKey}, left : 0..TTL]]
    BY <1>a, <2>1 DEF KeysTypeOK
  <2>5. life' \in [Keys -> 0..TTL] /\ \A j \in Keys : life'[j] = life[j] \/ (j = k /\ life'[j] = l)
    BY <1>a, <2>1, <2>2 DEF KeysTypeOK
  <2>6. KeysTypeOK'
    BY <1>a, <2>1, <2>4, <2>5 DEF KeysTypeOK
  <2>7. TokensEndInTime'
    <3>1. \A j \in Keys : life'[j] > 0 => j \in Born /\ gone[j] + life'[j] <= TTL
      BY <1>a, <2>3, <2>5 DEF TokensEndInTime
    <3>2. \A v \in Signers : signing'[v] = signing[v] \/ signing'[v].kid = NoKey
      BY <1>a, <2>1 DEF KeysTypeOK
    <3> QED
      BY <1>a, <2>1, <3>1, <3>2 DEF TokensEndInTime, Born
  <2> QED
    BY <1>d, <2>1, <2>6, <2>7
<1>7. ASSUME NEW v \in Verifiers, NEW f \in Refreshes, RefreshRead(v, f) PROVE KeysInv'
  <2> DEFINE s == [kids |-> SigningKeysQuery, dead |-> {k \in SigningKeysQuery : gone[k] # -1}, since |-> 0, upto |-> Len(born)]
  <2>1. reading' = [reading EXCEPT ![<<v, f>>] = s] /\ UNCHANGED <<born, gone, life, signing, retiring, loaded>>
    BY <1>7 DEF RefreshRead
  <2>2. SigningKeysQuery \subseteq Keys /\ \A i \in 1..Len(born) : born[i] \in SigningKeysQuery \/ gone[born[i]] > Window
    BY <1>a, <1>b, SMTT(30) DEF SigningKeysQuery, Born, Range, KeysTypeOK
  <2>3. s \in Snapshots
    BY <1>a, <1>b, <2>2 DEF Snapshots, KeysTypeOK
  <2>4. SnapshotOK(s)
    BY <1>a, <2>2 DEF SnapshotOK, KeysTypeOK
  <2> HIDE DEF s
  <2>5. KeysTypeOK' /\ TokensEndInTime'
    BY <1>a, <2>1, <2>3 DEF KeysTypeOK, TokensEndInTime, Born
  <2>6. \A x \in Verifiers \X Refreshes : reading'[x] = reading[x] \/ reading'[x] = s
    BY <1>a, <2>1 DEF KeysTypeOK
  <2> QED
    BY <1>a, <2>1, <2>4, <2>5, <2>6 DEF KeysInv, SnapshotOK
<1>8. ASSUME NEW v \in Verifiers, NEW f \in Refreshes, RefreshEnds(v, f) PROVE KeysInv'
  <2>1. /\ reading[<<v, f>>] # NoKey /\ loaded' \in {loaded, [loaded EXCEPT ![v] = reading[<<v, f>>]]}
        /\ reading' = [reading EXCEPT ![<<v, f>>] = NoKey] /\ UNCHANGED <<born, gone, life, signing, retiring>>
    BY <1>8 DEF RefreshEnds
  <2>2. reading[<<v, f>>] \in Snapshots /\ SnapshotOK(reading[<<v, f>>])
    BY <1>a, <2>1
  <2>3. KeysTypeOK' /\ TokensEndInTime'
    BY <1>a, <2>1, <2>2 DEF KeysTypeOK, TokensEndInTime, Born
  <2>4. \A u \in Verifiers : loaded'[u] = loaded[u] \/ loaded'[u] = reading[<<v, f>>]
    BY <1>a, <2>1 DEF KeysTypeOK
  <2>5. \A x \in Verifiers \X Refreshes : reading'[x] = reading[x] \/ reading'[x] = NoKey
    BY <1>a, <2>1 DEF KeysTypeOK
  <2> QED
    BY <1>a, <2>1, <2>2, <2>3, <2>4, <2>5 DEF KeysInv, SnapshotOK
<1>9. CASE KeysTick
  <2>1. /\ gone' = [k \in Keys |-> IF gone[k] = -1 THEN -1 ELSE Older(gone[k])]
        /\ life' = [k \in Keys |-> IF life[k] = 0 THEN 0 ELSE life[k] - 1]
        /\ signing' = [w \in Signers |-> [signing[w] EXCEPT !.left = IF signing[w].left = 0 THEN 0 ELSE signing[w].left - 1]]
        /\ UNCHANGED <<born, retiring>>
    BY <1>9 DEF KeysTick
  <2>2. /\ loaded' = [v \in Verifiers |-> [loaded[v] EXCEPT !.since = Older(loaded[v].since)]]
        /\ reading' = [x \in Verifiers \X Refreshes |->
               IF reading[x] = NoKey THEN NoKey ELSE [reading[x] EXCEPT !.since = Older(reading[x].since)]]
    BY <1>9, <1>a DEF KeysTick, KeysTypeOK
  <2>0. \A k \in Keys : gone'[k] = IF gone[k] = -1 THEN -1 ELSE Older(gone[k])
    BY <2>1
  <2>3. \A s \in Snapshots : [s EXCEPT !.since = Older(s.since)] \in Snapshots
    BY <1>b, <1>c DEF Snapshots
  <2>4. gone' \in [Keys -> -1..LongAgo] /\ life' \in [Keys -> 0..TTL]
    BY <1>a, <1>c, <2>1, SMTT(30) DEF KeysTypeOK
  <2>5. signing' \in [Signers -> [kid : Keys \cup {FileKey, NoKey}, left : 0..TTL]]
    <3> SUFFICES ASSUME NEW w \in Signers
                 PROVE  [signing[w] EXCEPT !.left = IF signing[w].left = 0 THEN 0 ELSE signing[w].left - 1]
                            \in [kid : Keys \cup {FileKey, NoKey}, left : 0..TTL]
      BY <2>1
    <3>1. signing[w] \in [kid : Keys \cup {FileKey, NoKey}, left : 0..TTL]
      BY <1>a DEF KeysTypeOK
    <3>2. (IF signing[w].left = 0 THEN 0 ELSE signing[w].left - 1) \in 0..TTL
      BY <3>1
    <3> QED
      BY <3>1, <3>2
  <2>6. loaded' \in [Verifiers -> Snapshots] /\ reading' \in [Verifiers \X Refreshes -> Snapshots \cup {NoKey}]
    BY <1>a, <2>2, <2>3 DEF KeysTypeOK
  <2>7. KeysTypeOK'
    BY <1>a, <2>1, <2>4, <2>5, <2>6 DEF KeysTypeOK
  <2>8. TokensEndInTime'
    <3>1. ASSUME NEW k \in Keys, NEW l \in 1..TTL, gone[k] + l <= TTL PROVE gone'[k] + (l - 1) <= TTL
      BY <1>b, <1>c, <1>e, <2>0, <3>1
    <3>2. \A k \in Keys : life'[k] > 0 => life[k] \in 1..TTL /\ life'[k] = life[k] - 1
      BY <1>a, <2>1 DEF KeysTypeOK
    <3>3. \A w \in Signers : /\ signing'[w].kid = signing[w].kid
                             /\ signing'[w].left > 0 => signing[w].left \in 1..TTL /\ signing'[w].left = signing[w].left - 1
      BY <1>a, <2>1 DEF KeysTypeOK
    <3>4. \A k \in Keys : life'[k] > 0 => k \in Born /\ gone'[k] + life'[k] <= TTL
      BY <1>a, <3>1, <3>2 DEF TokensEndInTime
    <3>5. \A w \in Signers : signing'[w].kid \in Keys =>
              signing'[w].kid \in Born /\ (signing'[w].left > 0 => gone'[signing'[w].kid] + signing'[w].left <= TTL)
      BY <1>a, <3>1, <3>3 DEF TokensEndInTime
    <3> QED
      BY <2>1, <3>4, <3>5 DEF TokensEndInTime, Born
  <2>9. ASSUME NEW s \in Snapshots, NEW t \in Snapshots, SnapshotOK(s), t = [s EXCEPT !.since = Older(s.since)]
        PROVE  SnapshotOK(t)'
    <3>1. t.kids = s.kids /\ t.dead = s.dead /\ t.upto = s.upto /\ t.since = Older(s.since) /\ s.since \in 0..LongAgo
      BY <2>9 DEF Snapshots
    <3>2. \A k \in Keys : (gone[k] > Window => gone'[k] > Window) /\ (gone[k] <= s.since => gone'[k] <= t.since)
      BY <1>b, <1>c, <1>e, <2>0, <3>1
    <3>3. born' \in Seq(Keys) /\ Len(born) <= Len(born') /\ \A i \in 1..Len(born) : born'[i] = born[i]
      BY <1>a, <2>1 DEF KeysTypeOK
    <3> QED
      BY <1>a, <2>9, <3>1, <3>2, <3>3, SnapshotsStay DEF SnapshotOK
  <2>10. \A v \in Verifiers : SnapshotOK(loaded[v])'
    BY <1>a, <2>2, <2>6, <2>9 DEF SnapshotOK
  <2>11. \A x \in Verifiers \X Refreshes : reading'[x] # NoKey => SnapshotOK(reading[x])'
    BY <1>a, <2>2, <2>6, <2>9 DEF SnapshotOK
  <2> QED
    BY <2>7, <2>8, <2>10, <2>11 DEF KeysInv
<1> QED
  BY <1>1, <1>2, <1>3, <1>4, <1>5, <1>6, <1>7, <1>8, <1>9 DEF KeysNext

\* Keys, tokens and what replicas have read of them, for any number of each.
THEOREM KeysTypeCorrect == KeysSpec => []KeysTypeOK
<1>1. KeysInv => KeysTypeOK
  BY DEF KeysInv
<1> QED
  BY <1>1, KeysInvInit, KeysInvStep, PTL DEF KeysSpec

\* "Rotation never breaks clients" (signing-keys.ts), with any number of keys,
\* replicas and requests: a token that has not expired is refused only by a
\* replica whose rows are older than its key.
THEOREM RotationIsSafe == KeysSpec => []RotationKeepsTokens
<1>1. KeysInv => RotationKeepsTokens
  <2> SUFFICES ASSUME KeysInv, NEW k \in Keys, life[k] > 0
               PROVE  /\ k \in SigningKeysQuery
                      /\ \A v \in Verifiers : keyFor(v, k) \/ \A i \in 1..loaded[v].upto : born[i] # k
    BY DEF RotationKeepsTokens
  <2>1. k \in Born /\ gone[k] <= Window /\ ~(gone[k] > Window)
    BY KeysAssumption DEF KeysInv, TokensEndInTime, KeysTypeOK
  <2> QED
    BY <2>1 DEF KeysInv, SnapshotOK, SigningKeysQuery, keyFor
<1> QED
  BY <1>1, KeysInvInit, KeysInvStep, PTL DEF KeysSpec

\* A key retired longer ago than the window is accepted by no replica that has
\* read the keys since (Verifier.keyFor), however refreshes overtake each other.
THEOREM RetirementTakesEffect == KeysSpec => []RetiredKeysAreDropped
<1>1. KeysInv => RetiredKeysAreDropped
  <2> SUFFICES ASSUME KeysInv, NEW v \in Verifiers, NEW k \in Keys, gone[k] > Window, loaded[v].since <= Window
               PROVE  ~keyFor(v, k)
    BY DEF RetiredKeysAreDropped
  <2>1. gone[k] \in Int /\ loaded[v].since \in Int
    BY KeysAssumption DEF KeysInv, KeysTypeOK, Snapshots, LongAgo
  <2>2. k \in loaded[v].kids => k \in loaded[v].dead
    BY <2>1, KeysAssumption DEF KeysInv, SnapshotOK
  <2> QED
    BY <2>2, KeysAssumption DEF keyFor
<1> QED
  BY <1>1, KeysInvInit, KeysInvStep, PTL DEF KeysSpec

-----------------------------------------------------------------------------
(* Signatures. *)

\* What one signature is worth, format by format.  A cosign signature counts
\* exactly if its payload names this image, by digest and by reference, and a
\* trusted key or the certificate of a trusted identity made it.
LEMMA LegacyVouched ==
    ASSUME NEW layer \in Layers, NEW keys \in SUBSET SignKeys, NEW ids \in SUBSET Identities
    PROVE  checkLegacy(layer, keys, ids) = "verified" <=>
             /\ layer.blob = "simplesigning" /\ layer.digest = "this" /\ layer.reference = "this"
             /\ layer.signer \in keys \/ (layer.signer = "certificate" /\ layer.certificate \in ids)
BY SignaturesAssumption DEF checkLegacy, applyKeyless, matchKeys, ChainVerified, Bundled, Layers

\* A bundle counts exactly if a trusted key signed this digest, or a trusted
\* identity signed; a statement in it is not compared with the image then.
LEMMA BundleVouched ==
    ASSUME NEW layer \in Layers, NEW keys \in SUBSET SignKeys, NEW ids \in SUBSET Identities
    PROVE  checkBundle(layer, keys, ids) = "verified" <=>
             /\ layer.blob \in {"bundle-envelope", "bundle-message"}
             /\ \/ layer.digest = "this" /\ layer.signer \in keys
                \/ /\ layer.signer = "certificate" /\ layer.certificate \in ids
                   /\ layer.blob = "bundle-message" => layer.digest = "this"
BY SignaturesAssumption DEF checkBundle, verifyDsse, HoldsStatement, applyKeyless, matchKeys, ChainVerified, Bundled, Layers

\* The same for an envelope on its own.
LEMMA DsseVouched ==
    ASSUME NEW layer \in Layers, NEW keys \in SUBSET SignKeys, NEW ids \in SUBSET Identities
    PROVE  checkDsse(layer, keys, ids) = "verified" <=>
             /\ layer.blob = "envelope"
             /\ \/ layer.digest = "this" /\ layer.signer \in keys
                \/ layer.signer = "certificate" /\ layer.certificate \in ids
BY SignaturesAssumption DEF checkDsse, verifyDsse, HoldsStatement, applyKeyless, matchKeys, ChainVerified, Bundled, Layers

\* A notation signature counts exactly if it is a JWS over this digest that its
\* first certificate made and that has not expired, and a certificate of its
\* list is trusted.
LEMMA NotationVouched ==
    ASSUME NEW layer \in Layers, NEW keys \in SUBSET SignKeys
    PROVE  checkNotation(layer, keys) = "verified" <=>
             /\ layer.blob = "jws" /\ layer.digest = "this" /\ ~layer.expired /\ layer.signer \notin {"none", "broken"}
             /\ layer.signer \in keys \/ layer.beside \intersect keys # {}
BY SignaturesAssumption DEF checkNotation, Layers

\* An artifact counts as verified if one of the signatures looked at does.
LEMMA StatusOfChecks ==
    ASSUME NEW E, NEW L, NEW K, NEW D
    PROVE  /\ Format(E) \in {"in-toto", "raw", "unknown"} => checkArtifactSignatures(E, L, K, D).status = "none"
           /\ Format(E) \notin {"in-toto", "raw", "unknown"} =>
                (checkArtifactSignatures(E, L, K, D).status = "verified" <=> "verified" \in Checks(E, L, K, D))
BY DEF checkArtifactSignatures

\* Which formats there are.
LEMMA Formats ==
    ASSUME NEW E
    PROVE  Format(E) \in {"notation", "sigstore-bundle", "cosign-legacy", "in-toto", "dsse", "raw", "unknown"}
BY DEF Format

\* checkArtifactSignatures: VerifiedMeansVouched for every artifact, with any
\* number of layers and any evidence of its format, and for every scope of
\* trusted keys and identities.
THEOREM SignaturesAreSound ==
    ASSUME artifact \in [evidence : SUBSET Evidence, layers : Seq({layer \in Layers : Sensible(layer)})],
           scope \in [keys : SUBSET SignKeys, identities : SUBSET Identities]
    PROVE  VerifiedMeansVouched
<1> DEFINE E == artifact.evidence
           L == artifact.layers
           K == scope.keys
           D == scope.identities
           status == checkArtifactSignatures(E, L, K, D).status
           Told(layer) == /\ Attached(layer) /\ Vouched(layer) /\ layer.digest = "this" /\ ~layer.expired
                          /\ layer.signer \notin {"none", "broken"}
                          /\ (layer.blob = "simplesigning" => layer.reference = "this")
<1>1. K \in SUBSET SignKeys /\ D \in SUBSET Identities
  OBVIOUS
<1>2. \A n \in DOMAIN L : L[n] \in Layers /\ Sensible(L[n])
  OBVIOUS
<1>3. L # <<>> <=> 1 \in DOMAIN L
  OBVIOUS
<1>4. SUFFICES /\ status = "verified" => \E n \in DOMAIN L : Attached(L[n]) /\ Vouched(L[n])
               /\ (\E n \in DOMAIN L : Told(L[n])) => status = "verified"
  BY DEF VerifiedMeansVouched
<1> DEFINE checks == Checks(E, L, K, D)
<1>5. CASE Format(E) = "notation"
  <2> DEFINE By(layer) == layer.signer \in K \/ layer.beside \intersect K # {}
             Whole(layer) == layer.digest = "this" /\ ~layer.expired /\ layer.signer \notin {"none", "broken"}
  <2>1. status = "verified" <=> \E n \in DOMAIN L : checkNotation(L[n], K) = "verified"
    BY <1>5, StatusOfChecks DEF Checks
  <2>2. \A n \in DOMAIN L : checkNotation(L[n], K) = "verified" <=> L[n].blob = "jws" /\ Whole(L[n]) /\ By(L[n])
    BY <1>1, <1>2, NotationVouched
  <2>3. \A n \in DOMAIN L : Attached(L[n]) <=> L[n].blob = "jws"
    BY <1>5 DEF Attached
  <2>4. \A n \in DOMAIN L : L[n].blob = "jws" => L[n].certificate = "none"
    BY <1>2 DEF Sensible, Plain
  <2>5. ASSUME NEW n \in DOMAIN L, Attached(L[n]), Vouched(L[n]) PROVE By(L[n])
    BY <1>1, <2>3, <2>4, <2>5, SignaturesAssumption DEF Vouched
  <2>6. ASSUME NEW n \in DOMAIN L, By(L[n]), L[n].digest = "this", L[n].blob = "jws" PROVE Vouched(L[n])
    BY <2>6 DEF Vouched
  <2>7. \A n \in DOMAIN L : Told(L[n]) => Attached(L[n]) /\ Vouched(L[n]) /\ Whole(L[n])
    OBVIOUS
  <2>8. \A n \in DOMAIN L : Whole(L[n]) => L[n].digest = "this"
    OBVIOUS
  <2> HIDE DEF status, E, L, K, D, By, Whole, Told
  <2> QED
    BY <2>1, <2>2, <2>3, <2>5, <2>6, <2>7, <2>8
<1>6. CASE Format(E) = "cosign-legacy"
  <2>1. status = "verified" <=> \E n \in DOMAIN L : checkLegacy(L[n], K, D) = "verified"
    BY <1>6, StatusOfChecks DEF Checks
  <2>2. \A n \in DOMAIN L : checkLegacy(L[n], K, D) = "verified" <=>
          /\ L[n].blob = "simplesigning" /\ L[n].digest = "this" /\ L[n].reference = "this"
          /\ L[n].signer \in K \/ (L[n].signer = "certificate" /\ L[n].certificate \in D)
    BY <1>1, <1>2, LegacyVouched
  <2>3. \A n \in DOMAIN L : Attached(L[n]) <=> L[n].blob = "simplesigning"
    BY <1>6 DEF Attached
  <2> QED
    BY <2>1, <2>2, <2>3 DEF Vouched
<1>7. CASE Format(E) = "sigstore-bundle"
  <2>1. status = "verified" <=> 1 \in DOMAIN L /\ checkBundle(L[1], K, D) = "verified"
    BY <1>3, <1>7, StatusOfChecks DEF Checks
  <2>2. ASSUME NEW n \in DOMAIN L
        PROVE  checkBundle(L[n], K, D) = "verified" <=>
                 /\ L[n].blob \in {"bundle-envelope", "bundle-message"}
                 /\ \/ L[n].digest = "this" /\ L[n].signer \in K
                    \/ /\ L[n].signer = "certificate" /\ L[n].certificate \in D
                       /\ L[n].blob = "bundle-message" => L[n].digest = "this"
    <3>1. L[n] \in Layers
      BY <1>2
    <3> HIDE DEF K, D, L
    <3> QED
      BY <1>1, <3>1, BundleVouched
  <2>3. \A n \in DOMAIN L : Attached(L[n]) <=> L[n].blob \in {"bundle-envelope", "bundle-message"} /\ L[n] = L[1]
    BY <1>7 DEF Attached
  <2>4. \A n \in DOMAIN L : 1 \in DOMAIN L
    BY <1>3
  <2>5. ASSUME status = "verified" PROVE Attached(L[1]) /\ Vouched(L[1]) /\ 1 \in DOMAIN L
    BY <2>1, <2>2, <2>3, <2>5 DEF Vouched
  <2>6. ASSUME NEW n \in DOMAIN L, Told(L[n]) PROVE status = "verified"
    <3>1. 1 \in DOMAIN L /\ L[n] = L[1] /\ L[1].blob \in {"bundle-envelope", "bundle-message"}
      BY <2>3, <2>4, <2>6
    <3>2. Vouched(L[1]) /\ L[1].digest = "this"
      BY <2>6, <3>1
    <3> QED
      BY <2>1, <2>2, <3>1, <3>2 DEF Vouched
  <2> HIDE DEF status, E, L, K, D, Told
  <2> QED
    BY <2>5, <2>6
<1>8. CASE Format(E) = "dsse"
  <2>1. status = "verified" <=> \E n \in DOMAIN L : checkDsse(L[n], K, D) = "verified"
    BY <1>8, StatusOfChecks DEF Checks
  <2>2. \A n \in DOMAIN L : checkDsse(L[n], K, D) = "verified" <=>
          /\ L[n].blob = "envelope"
          /\ \/ L[n].digest = "this" /\ L[n].signer \in K
             \/ L[n].signer = "certificate" /\ L[n].certificate \in D
    BY <1>1, <1>2, DsseVouched
  <2>3. \A n \in DOMAIN L : Attached(L[n]) <=> L[n].blob = "envelope"
    BY <1>8 DEF Attached
  <2> QED
    BY <2>1, <2>2, <2>3 DEF Vouched
<1>9. CASE Format(E) \in {"in-toto", "raw", "unknown"}
  BY <1>9, StatusOfChecks DEF Attached
<1> QED
  BY <1>5, <1>6, <1>7, <1>8, <1>9, Formats

-----------------------------------------------------------------------------
(* Pull blocks. *)

\* What the variables of PullBlocks may be.
Reasons == {"scan", "signature"}
Statuses == {"none", "verified", "keyless", "invalid", "untrusted"}
Dues == {<<>>} \union [Images -> SUBSET Reasons]
Tasks == [pc : {"idle", "keys", "verify", "refresh", "write", "scan"}, todo : SUBSET Images,
          next : {"nothing", "refresh", "policy"}, keys : SUBSET SignKeys,
          due : Dues, left : SUBSET Images, all : BOOLEAN, scan : SUBSET Images]

Trusts == [keys : SUBSET SignKeys, personal : SUBSET SignKeys, writers : SUBSET SignKeys, members : BOOLEAN]

\* The type invariant: a worker that writes has computed a row for every image.
BlocksTypeOK ==
    /\ images \subseteq Images
    /\ signer \in [Images -> SignKeys \union {"none"}]
    /\ verdict \in [Images -> Statuses]
    /\ blocks \in [Images -> SUBSET Reasons]
    /\ found \in [Images -> {"none", "clean", "High"}]
    /\ trust \in Trusts
    /\ policies \in [orgLevel : {"none", "high"}, orgSigned : BOOLEAN, repoLevel : {"inherit", "none", "high"},
                     repoSigned : {"inherit", "off", "on"}]
    /\ exception \in {"none", "active", "expired"}
    /\ events \subseteq Images \X {"image", "signature"}
    /\ scans \subseteq Images
    /\ worker \in [Workers -> Tasks]
    /\ \A w \in Workers : worker[w].pc = "write" => worker[w].due \in [Images -> SUBSET Reasons]

Busy(w) == worker[w].pc # "idle"

\* Two workers are busy at a time only after an overlap was noted.
OverlapNoted == \A v, w \in Workers : v # w /\ Busy(v) /\ Busy(w) => "overlap" \in stale /\ "overlap" \in unrefreshed

\* An index has no layers: nothing ever scans it (processRegistryEvent, finishScan).
IndexUnscanned ==
    /\ found[Index] # "High" /\ Index \notin scans
    /\ \A w \in Workers : Index \notin worker[w].scan

\* A worker that is idle has dropped what it had to scan.
IdleHasNoScan == \A w \in Workers : ~Busy(w) => worker[w].scan = {}

\* No verdict "verified" without a signature manifest.
UnsignedNotVerified == \A i \in Images : signer[i] = "none" => verdict[i] # "verified"

\* A verdict is what the keys of the moment say, or something is on its way
\* that looks at the signature again: a push nobody has handled, or a worker
\* that has not reached the image.
Current(i) == verdict[i] = "verified" <=> signer[i] \in effectiveVerificationKeys
Looks(w, i) == (worker[w].pc = "keys" /\ (worker[w].all \/ i \in worker[w].todo)) \/ (worker[w].pc = "verify" /\ i \in worker[w].todo)
Awaited(i) == <<i, "image">> \in events \/ <<i, "signature">> \in events \/ \E w \in Workers : Looks(w, i)
VerdictsFollow == stale = {} => \A i \in images : Current(i) \/ Awaited(i)

\* A worker verifies with the keys of the moment, or a change of keys was noted.
KeysAreRead == stale = {} => \A w \in Workers : worker[w].pc = "verify" => worker[w].keys = effectiveVerificationKeys

\* A page view stores verdicts without computing the blocks; it is noted.
ViewsAreNoted == \A w \in Workers : worker[w].pc \in {"keys", "verify"} /\ worker[w].next = "nothing" => unrefreshed # {}

\* Blocks are deleted with their image.
GoneHasNoRow == \A i \in Images : i \notin images => blocks[i] = {}

\* The row of an image is what the scans, exceptions, verdicts and policies
\* say, unless a worker is about to compute it or holds rows it has computed.
\* An image whose push nobody has handled may still lack its signature's
\* reason, and a finding whose scan nobody has reported may still lack its.
HeadsForRefresh(w) ==
    \/ worker[w].pc \in {"refresh", "write"}
    \/ worker[w].pc \in {"keys", "verify"} /\ AfterVerify(worker[w].next) = "refresh"
HighAwaited == \E i \in images : found[i] = "High" /\ (<<i, "image">> \in events \/ \E w \in Workers : i \in worker[w].scan)
Unsigned(i) == effectiveSignaturePolicy /\ \A j \in images : (j = i \/ j = Index) => verdict[j] # "verified"
Fits(row, i) ==
    /\ HighAwaited \/ ("scan" \in row <=> Vulnerable(i))
    /\ "signature" \in row => Unsigned(i)
    /\ Unsigned(i) => "signature" \in row \/ <<i, "image">> \in events
RowsFollow ==
    unrefreshed = {} /\ (\A w \in Workers : ~HeadsForRefresh(w)) => \A i \in images : Fits(blocks[i], i)
WritersFollow ==
    unrefreshed = {} => \A w \in Workers : worker[w].pc = "write" =>
        \A i \in Images : /\ i \in images => Fits(worker[w].due[i], i)
                          /\ i \notin images => worker[w].due[i] = {}
                          /\ i \notin worker[w].left => blocks[i] = worker[w].due[i]

\* effectiveVerificationKeys is a set of keys.
LEMMA KeysTyped == ASSUME BlocksTypeOK PROVE effectiveVerificationKeys \in SUBSET SignKeys
BY DEF BlocksTypeOK, Trusts, effectiveVerificationKeys, listMemberKeys

\* A signature is judged with one of the statuses.
LEMMA JudgedStatus == ASSUME NEW i, NEW keys PROVE judged(i, keys) \in Statuses
BY DEF judged, checkArtifactSignatures, Statuses

\* A signature as cosign attaches it counts exactly if its key is among the keys.
LEMMA JudgedVerified ==
    ASSUME BlocksTypeOK, NEW i \in Images, NEW keys \in SUBSET SignKeys
    PROVE  judged(i, keys) = "verified" <=> signer[i] \in keys
<1> DEFINE layer == [Plain EXCEPT !.blob = "simplesigning", !.digest = "this", !.reference = "this", !.signer = signer[i]]
           layers == <<layer>>
           E == {"simplesigning"}
<1>1. Format(E) = "cosign-legacy"
  BY DEF Format
<1>2. signer[i] \in SignKeys \union {"none"}
  BY DEF BlocksTypeOK
<1>3. layer \in Layers /\ layer.blob = "simplesigning" /\ layer.digest = "this" /\ layer.reference = "this" /\ layer.signer = signer[i]
  BY <1>2 DEF Plain, Layers, Blob
<1>4. checkLegacy(layer, keys, {}) = "verified" <=> signer[i] \in keys
  <2>1. checkLegacy(layer, keys, {}) = "verified" <=>
             /\ layer.blob = "simplesigning" /\ layer.digest = "this" /\ layer.reference = "this"
             /\ layer.signer \in keys \/ (layer.signer = "certificate" /\ layer.certificate \in {})
    <3> HIDE DEF layer
    <3> QED BY <1>3, LegacyVouched
  <2> HIDE DEF layer
  <2> QED BY <1>3, <2>1
<1>5. DOMAIN layers = {1} /\ layers[1] = layer
  BY DEF layers
<1>6. Checks(E, layers, keys, {}) = {checkLegacy(layer, keys, {})}
  <2> HIDE DEF layer
  <2> QED BY <1>1, <1>5 DEF Checks
<1>7. judged(i, keys) = checkArtifactSignatures(E, layers, keys, {}).status
  BY DEF judged
<1>8. checkArtifactSignatures(E, layers, keys, {}).status = "verified" <=> "verified" \in Checks(E, layers, keys, {})
  <2> HIDE DEF layers, E
  <2> QED BY <1>1, StatusOfChecks
<1> HIDE DEF layers, E, layer
<1> QED BY <1>4, <1>6, <1>7, <1>8

\* A step that gives one worker another task keeps the types of all.
LEMMA WorkerKept ==
    ASSUME BlocksTypeOK, NEW w \in Workers, NEW task \in Tasks, worker' = [worker EXCEPT ![w] = task],
           task.pc = "write" => task.due \in [Images -> SUBSET Reasons]
    PROVE  /\ worker' \in [Workers -> Tasks]
           /\ \A v \in Workers : worker'[v].pc = "write" => worker'[v].due \in [Images -> SUBSET Reasons]
BY DEF BlocksTypeOK

\* A worker that ends is idle, or goes on to the scan it had to do.
LEMMA EndedKept ==
    ASSUME NEW task \in Tasks
    PROVE  Ended(task) \in Tasks /\ Ended(task).pc \in {"idle", "scan"} /\ Ended(task).scan = task.scan
BY DEF Ended, Tasks, AtRest, Dues

\* What the steps of a worker make of its task is a task.
LEMMA TasksKept ==
    ASSUME NEW task \in Tasks, NEW S \in SUBSET Images, NEW K \in SUBSET SignKeys, NEW due \in [Images -> SUBSET Reasons]
    PROVE  /\ [task EXCEPT !.pc = "verify", !.keys = K, !.todo = S] \in Tasks
           /\ [task EXCEPT !.todo = S] \in Tasks
           /\ [task EXCEPT !.pc = "refresh", !.keys = {}] \in Tasks
           /\ [task EXCEPT !.pc = "write", !.due = due, !.left = S] \in Tasks
           /\ [task EXCEPT !.left = S] \in Tasks
<1>1. due \in Dues
  BY DEF Dues
<1> QED BY <1>1 DEF Tasks

\* What a worker starts with.
Task(task, pc, todo, next, all, scan) ==
    task \in Tasks /\ task.pc = pc /\ task.todo = todo /\ task.next = next /\ task.all = all /\ task.scan = scan
Begins(w, pc, todo, next, all, scan, causes, causesOfBlocks) ==
    \E task : Task(task, pc, todo, next, all, scan) /\ Starts(w, task, causes, causesOfBlocks)

\* A worker at rest has a task.
LEMMA RestIsTask == AtRest \in Tasks /\ Task(AtRest, "idle", {}, "nothing", FALSE, {})
BY DEF AtRest, Tasks, Dues, Task

\* What the callers give a worker to do is a task.
LEMMA NewTasks ==
    ASSUME NEW S \in SUBSET Images, NEW scan \in SUBSET Images
    PROVE  /\ Task([AtRest EXCEPT !.pc = "refresh"], "refresh", {}, "nothing", FALSE, {})
           /\ Task([AtRest EXCEPT !.pc = "keys", !.next = "refresh", !.all = TRUE], "keys", {}, "refresh", TRUE, {})
           /\ Task([AtRest EXCEPT !.pc = "keys", !.todo = S, !.next = "policy", !.scan = scan], "keys", S, "policy", FALSE, scan)
           /\ Task([AtRest EXCEPT !.pc = "keys", !.todo = S], "keys", S, "nothing", FALSE, {})
           /\ Task([AtRest EXCEPT !.pc = "keys", !.todo = S, !.next = "refresh"], "keys", S, "refresh", FALSE, {})
BY DEF Tasks, Dues, AtRest, Task

\* What a page view looks at, what a push scans, and what an image's button reaches.
Looked == {i \in images : signer[i] # "none" /\ verdict[i] = "none"}
Scanned(i, what) == IF what = "image" /\ i # Index THEN {i} ELSE {}
Reached(i) == IF i = Index THEN images ELSE {i}

\* Every caller begins one worker, with the task and causes listed here.
LEMMA StartForms ==
    ASSUME BlocksTypeOK, NEW w, NEW i \in Images, NEW what
    PROVE  /\ Refresh(w) => Begins(w, "refresh", {}, "nothing", FALSE, {}, {}, {})
           /\ Reverify(w) => Begins(w, "keys", {}, "refresh", TRUE, {}, {}, {})
           /\ onManifestPushed(w, i, what) => Begins(w, "keys", {i}, "policy", FALSE, Scanned(i, what), {}, {})
           /\ getAttestationView(w) => Begins(w, "keys", Looked, "nothing", FALSE, {}, {}, {"viewed"})
           /\ reverifyManifestAction(w, i) => Begins(w, "keys", Reached(i), "refresh", FALSE, {}, {}, {})
           /\ transferRepository(w) => Begins(w, "refresh", {}, "nothing", FALSE, {}, {"moved"}, {})
<1>1. {i} \in SUBSET Images /\ Scanned(i, what) \in SUBSET Images /\ Looked \in SUBSET Images /\ Reached(i) \in SUBSET Images
  BY DEF BlocksTypeOK, Scanned, Looked, Reached
<1>2. Refresh(w) => Begins(w, "refresh", {}, "nothing", FALSE, {}, {}, {})
  BY NewTasks DEF Refresh, Begins
<1>3. Reverify(w) => Begins(w, "keys", {}, "refresh", TRUE, {}, {}, {})
  BY NewTasks DEF Reverify, Begins
<1>4. onManifestPushed(w, i, what) => Begins(w, "keys", {i}, "policy", FALSE, Scanned(i, what), {}, {})
  <2>1. Task([AtRest EXCEPT !.pc = "keys", !.todo = {i}, !.next = "policy", !.scan = Scanned(i, what)], "keys", {i}, "policy", FALSE, Scanned(i, what))
    BY <1>1, NewTasks
  <2> QED BY <2>1 DEF onManifestPushed, Begins, Scanned
<1>5. getAttestationView(w) => Begins(w, "keys", Looked, "nothing", FALSE, {}, {}, {"viewed"})
  <2>1. Task([AtRest EXCEPT !.pc = "keys", !.todo = Looked], "keys", Looked, "nothing", FALSE, {})
    BY <1>1, NewTasks
  <2> QED BY <2>1 DEF getAttestationView, Begins, Looked
<1>6. reverifyManifestAction(w, i) => Begins(w, "keys", Reached(i), "refresh", FALSE, {}, {}, {})
  <2>1. Task([AtRest EXCEPT !.pc = "keys", !.todo = Reached(i), !.next = "refresh"], "keys", Reached(i), "refresh", FALSE, {})
    BY <1>1, NewTasks
  <2> QED BY <2>1 DEF reverifyManifestAction, Begins, Reached
<1>7. transferRepository(w) => Begins(w, "refresh", {}, "nothing", FALSE, {}, {"moved"}, {})
  BY NewTasks DEF transferRepository, Begins
<1> QED BY <1>2, <1>3, <1>4, <1>5, <1>6, <1>7

\* The steps of the workers, as updates of one task.
ReadsKeys(w) ==
    worker' = [worker EXCEPT ![w] = [worker[w] EXCEPT !.pc = "verify", !.keys = effectiveVerificationKeys,
                  !.todo = IF worker[w].all THEN {i \in images : signer[i] # "none"} ELSE worker[w].todo]]

\* Reading the keys changes one task.
LEMMA ReadKeysStep == ASSUME BlocksTypeOK, NEW w \in Workers, ReadKeys(w) PROVE ReadsKeys(w)
BY DEF BlocksTypeOK, ReadKeys, ReadsKeys, Tasks

\* Verifying an image takes it off the list of one worker.
LEMMA VerifyStep ==
    ASSUME BlocksTypeOK, NEW w \in Workers, NEW i \in Images, verifyManifestSignatures(w, i)
    PROVE  worker' = [worker EXCEPT ![w] = [worker[w] EXCEPT !.todo = worker[w].todo \ {i}]]
BY DEF BlocksTypeOK, verifyManifestSignatures, Tasks

\* The rows that differ from what was computed.
Rest(w) == {i \in images : blocks[i] # Computed[i]}

\* Computing the blocks changes one task, which keeps what it computed.
LEMMA RefreshStep ==
    ASSUME BlocksTypeOK, NEW w \in Workers, refreshRepositoryBlocks(w)
    PROVE  worker' = [worker EXCEPT ![w] = [worker[w] EXCEPT !.pc = "write", !.due = Computed, !.left = Rest(w)]]
BY DEF BlocksTypeOK, refreshRepositoryBlocks, Tasks, Rest

\* Writing a row changes one row and one task, or fails and ends the worker.
LEMMA WriteStep ==
    ASSUME BlocksTypeOK, NEW w \in Workers, NEW i \in Images, WriteBlock(w, i)
    PROVE  \/ /\ worker' = [worker EXCEPT ![w] = [worker[w] EXCEPT !.left = worker[w].left \ {i}]]
              /\ blocks' = [blocks EXCEPT ![i] = worker[w].due[i]] /\ (i \in images \/ worker[w].due[i] = {})
              /\ unrefreshed' = unrefreshed
           \/ /\ worker' = [worker EXCEPT ![w] = Ended(worker[w])]
              /\ blocks' = blocks /\ unrefreshed' = unrefreshed \union {"failed"}
BY DEF BlocksTypeOK, WriteBlock, Tasks

\* A row is computed for every image, and is what the policies say.
LEMMA ComputedRows == Computed \in [Images -> SUBSET Reasons]
BY DEF Computed, Reasons

\* What the actions make of the keys and members is typed.
LEMMA TrustsKept ==
    ASSUME NEW t \in Trusts, NEW S \in SUBSET SignKeys, NEW T \in SUBSET SignKeys
    PROVE  /\ [t EXCEPT !.keys = S] \in Trusts /\ [t EXCEPT !.personal = S] \in Trusts /\ [t EXCEPT !.writers = S] \in Trusts
           /\ [t EXCEPT !.members = ~t.members] \in Trusts
           /\ [t EXCEPT !.writers = T, !.personal = S] \in Trusts
BY DEF Trusts

\* Every step of PullBlocks keeps the types.
LEMMA TypesKept == ASSUME BlocksTypeOK, BlocksNext PROVE BlocksTypeOK'
<1> DEFINE WorkersOK == worker' \in [Workers -> Tasks] /\ \A v \in Workers : worker'[v].pc = "write" => worker'[v].due \in [Images -> SUBSET Reasons]
<1>a. \A w \in Workers : worker[w] \in Tasks
  BY DEF BlocksTypeOK
<1>b. ASSUME NEW w \in Workers, NEW task \in Tasks, worker' = [worker EXCEPT ![w] = task], task.pc # "write" PROVE WorkersOK
  BY <1>b, WorkerKept
<1>c. ASSUME UNCHANGED worker PROVE WorkersOK
  BY <1>c DEF BlocksTypeOK
<1>d. ASSUME NEW w \in Workers, NEW pc \in {"keys", "refresh"}, NEW S, NEW next, NEW all, NEW scan, NEW A, NEW B,
             Begins(w, pc, S, next, all, scan, A, B)
      PROVE  WorkersOK
  BY <1>d, WorkerKept DEF Starts, Begins, Task
<1>e. ASSUME NEW w \in Workers, Refresh(w) \/ Reverify(w) PROVE WorkersOK
  BY <1>d, <1>e, StartForms, BlocksAssumption
<1>f. ASSUME NEW w \in Workers, worker' = [worker EXCEPT ![w] = Ended(worker[w])] PROVE WorkersOK
  BY <1>a, <1>b, <1>f, EndedKept
<1>2. ASSUME NEW w \in Workers, ReadKeys(w) PROVE BlocksTypeOK'
  <2> DEFINE S == IF worker[w].all THEN {i \in images : signer[i] # "none"} ELSE worker[w].todo
             task == [worker[w] EXCEPT !.pc = "verify", !.keys = effectiveVerificationKeys, !.todo = S]
  <2>1. S \in SUBSET Images
    BY <1>a DEF BlocksTypeOK, Tasks
  <2>2. worker' = [worker EXCEPT ![w] = task]
    BY <1>2, ReadKeysStep DEF ReadsKeys
  <2>3. task \in Tasks /\ task.pc = "verify"
    <3> HIDE DEF S
    <3> QED BY <1>a, <2>1, KeysTyped DEF Tasks
  <2> HIDE DEF task
  <2> QED BY <1>2, <1>b, <2>2, <2>3 DEF ReadKeys, BlocksTypeOK
<1>3. ASSUME NEW w \in Workers, Verified(w) PROVE BlocksTypeOK'
  <2> DEFINE task == IF AfterVerify(worker[w].next) = "refresh" THEN [worker[w] EXCEPT !.pc = "refresh", !.keys = {}] ELSE Ended(worker[w])
  <2>3. task \in Tasks /\ task.pc # "write"
    <3>1. CASE AfterVerify(worker[w].next) = "refresh"
      BY <1>a, <3>1 DEF Tasks
    <3>2. CASE AfterVerify(worker[w].next) # "refresh"
      BY <1>a, <3>2, EndedKept
    <3> QED BY <3>1, <3>2
  <2>4. worker' = [worker EXCEPT ![w] = task]
    BY <1>3 DEF Verified
  <2> HIDE DEF task
  <2> QED BY <1>3, <1>b, <2>3, <2>4 DEF Verified, BlocksTypeOK
<1>4. ASSUME NEW w \in Workers, refreshRepositoryBlocks(w) PROVE BlocksTypeOK'
  <2> DEFINE task == [worker[w] EXCEPT !.pc = "write", !.due = Computed, !.left = Rest(w)]
  <2>1. Rest(w) \in SUBSET Images
    BY DEF BlocksTypeOK, Rest
  <2>3. task \in Tasks /\ task.due = Computed
    BY <1>a, <2>1, ComputedRows DEF Tasks, Dues
  <2>4. worker' = [worker EXCEPT ![w] = task]
    BY <1>4, RefreshStep
  <2>5. WorkersOK
    <3> HIDE DEF task
    <3> QED BY <2>3, <2>4, WorkerKept, ComputedRows
  <2> QED BY <1>4, <2>5 DEF refreshRepositoryBlocks, BlocksTypeOK
<1>5. ASSUME NEW w \in Workers, Refreshed(w) PROVE BlocksTypeOK'
  BY <1>5, <1>f DEF Refreshed, BlocksTypeOK
<1>6. ASSUME NEW w \in Workers, Fails(w) PROVE BlocksTypeOK'
  BY <1>6, <1>f DEF Fails, BlocksTypeOK
<1>7. ASSUME NEW w \in Workers, NEW i \in Images, verifyManifestSignatures(w, i) PROVE BlocksTypeOK'
  <2> DEFINE task == [worker[w] EXCEPT !.todo = worker[w].todo \ {i}]
  <2>1. verdict' \in [Images -> Statuses]
    BY <1>7, JudgedStatus DEF verifyManifestSignatures, Statuses, BlocksTypeOK
  <2>2. task \in Tasks /\ task.pc = "verify"
    BY <1>7, <1>a DEF Tasks, verifyManifestSignatures
  <2>3. worker' = [worker EXCEPT ![w] = task]
    BY <1>7, VerifyStep
  <2> HIDE DEF task
  <2> QED
    BY <1>7, <1>b, <2>1, <2>2, <2>3 DEF verifyManifestSignatures, BlocksTypeOK
<1>8. ASSUME NEW w \in Workers, NEW i \in Images, WriteBlock(w, i) PROVE BlocksTypeOK'
  <2>1. worker[w].due \in [Images -> SUBSET Reasons] /\ worker[w].due[i] \in SUBSET Reasons
    BY <1>8 DEF WriteBlock, BlocksTypeOK
  <2> DEFINE task == [worker[w] EXCEPT !.left = worker[w].left \ {i}]
  <2>2. task \in Tasks /\ task.due = worker[w].due
    BY <1>a DEF Tasks
  <2>3. WorkersOK
    <3>1. CASE worker' = [worker EXCEPT ![w] = Ended(worker[w])]
      BY <3>1, <1>f
    <3>2. CASE worker' = [worker EXCEPT ![w] = task]
      <4> HIDE DEF task
      <4> QED BY <2>1, <2>2, <3>2, WorkerKept
    <3> QED BY <1>8, <3>1, <3>2, WriteStep
  <2>4. blocks' \in [Images -> SUBSET Reasons]
    BY <1>8, <2>1, WriteStep DEF BlocksTypeOK
  <2> QED BY <1>8, <2>3, <2>4 DEF WriteBlock, BlocksTypeOK
<1>9. ASSUME NEW w \in Workers, NEW i \in Images, NEW what \in {"image", "signature"}, onManifestPushed(w, i, what) PROVE BlocksTypeOK'
  <2>1. WorkersOK
    BY <1>9, <1>d, StartForms
  <2> QED BY <1>9, <2>1 DEF onManifestPushed, BlocksTypeOK
<1>10. ASSUME NEW w \in Workers, NEW i \in Images, NEW result \in {"clean", "High", "failed"}, finishScan(w, i, result) PROVE BlocksTypeOK'
  <2>1. WorkersOK
    BY <1>10, <1>c, <1>e DEF finishScan
  <2> QED BY <1>10, <2>1 DEF finishScan, BlocksTypeOK
<1>11. ASSUME NEW w \in Workers, startScan(w) PROVE BlocksTypeOK'
  <2>1. AtRest \in Tasks /\ AtRest.pc = "idle"
    BY DEF AtRest, Tasks, Dues
  <2>2. WorkersOK
    BY <1>11, <1>b, <2>1 DEF startScan
  <2> QED BY <1>11, <2>2 DEF startScan, BlocksTypeOK
<1>12. ASSUME NEW w \in Workers, getAttestationView(w) PROVE BlocksTypeOK'
  <2>2. WorkersOK
    BY <1>12, <1>d, StartForms, BlocksAssumption
  <2> QED BY <1>12, <2>2 DEF getAttestationView, BlocksTypeOK
<1>13. ASSUME NEW w \in Workers, ChangeKeys(w) PROVE BlocksTypeOK'
  <2>1. WorkersOK
    BY <1>13, <1>c, <1>e DEF ChangeKeys
  <2>2. trust' \in Trusts
    <3>1. \/ \E k \in SignKeys : trust' = [trust EXCEPT !.keys = IF k \in trust.keys THEN trust.keys \ {k} ELSE trust.keys \union {k}]
          \/ trust' = [trust EXCEPT !.members = ~trust.members]
          \/ \E k \in SignKeys : trust' = [trust EXCEPT !.personal = IF k \in trust.personal THEN trust.personal \ {k} ELSE trust.personal \union {k}]
      BY <1>13 DEF ChangeKeys, BlocksTypeOK
    <3>2. trust \in Trusts
      BY DEF BlocksTypeOK
    <3>3. \A l \in SignKeys : \A S \in SUBSET SignKeys : S \ {l} \in SUBSET SignKeys /\ S \union {l} \in SUBSET SignKeys
      OBVIOUS
    <3>4. trust.keys \in SUBSET SignKeys /\ trust.personal \in SUBSET SignKeys /\ trust.writers \in SUBSET SignKeys
      BY <3>2 DEF Trusts
    <3>5. \A S, T \in SUBSET SignKeys :
             /\ [trust EXCEPT !.keys = S] \in Trusts /\ [trust EXCEPT !.personal = S] \in Trusts /\ [trust EXCEPT !.writers = S] \in Trusts
             /\ [trust EXCEPT !.members = ~trust.members] \in Trusts /\ [trust EXCEPT !.writers = T, !.personal = S] \in Trusts
      BY <3>2, TrustsKept
    <3> QED BY <3>1, <3>3, <3>4, <3>5
  <2> QED BY <1>13, <2>1, <2>2 DEF ChangeKeys, BlocksTypeOK
<1>14. ASSUME NEW w \in Workers, setPolicy(w) PROVE BlocksTypeOK'
  <2>1. WorkersOK
    BY <1>14, <1>e DEF setPolicy
  <2> QED BY <1>14, <2>1 DEF setPolicy, BlocksTypeOK
<1>15. ASSUME NEW w \in Workers, ChangeException(w) PROVE BlocksTypeOK'
  BY <1>15, <1>e DEF ChangeException, BlocksTypeOK
<1>16. ASSUME NEW w \in Workers, RunJob(w) PROVE BlocksTypeOK'
  BY <1>16, <1>e DEF RunJob, BlocksTypeOK
<1>17. ASSUME NEW w \in Workers, transferRepository(w) PROVE BlocksTypeOK'
  <2>1. WorkersOK
    BY <1>17, <1>d, StartForms, BlocksAssumption
  <2> QED BY <1>17, <2>1 DEF transferRepository, BlocksTypeOK, Trusts
<1>18. ASSUME NEW w \in Workers, NEW k \in SignKeys, ChangeMember(w, k) PROVE BlocksTypeOK'
  <2>1. WorkersOK
    BY <1>18, <1>c, <1>e DEF ChangeMember, reverifyAfterMembershipChange, NoWorker
  <2>2. trust' \in Trusts
    <3>1. \E W \in SUBSET SignKeys : trust' = [trust EXCEPT !.writers = W]
      <4>1. trust.writers \in SUBSET SignKeys
        BY DEF BlocksTypeOK, Trusts
      <4> QED BY <1>18, <4>1 DEF ChangeMember
    <3>2. trust \in Trusts
      BY DEF BlocksTypeOK
    <3> QED BY <3>1, <3>2, TrustsKept
  <2> QED BY <1>18, <2>1, <2>2 DEF ChangeMember, BlocksTypeOK
<1>19. ASSUME NEW w \in Workers, NEW i \in Images, reverifyManifestAction(w, i) PROVE BlocksTypeOK'
  <2>2. WorkersOK
    BY <1>19, <1>d, StartForms
  <2> QED BY <1>19, <2>2 DEF reverifyManifestAction, BlocksTypeOK
<1>20. ASSUME NEW i \in Images, PushImage(i) PROVE BlocksTypeOK'
  BY <1>20, <1>c DEF PushImage, NoWorker, BlocksTypeOK
<1>21. ASSUME NEW i \in Images, DeleteImage(i) PROVE BlocksTypeOK'
  BY <1>21, <1>c DEF DeleteImage, NoWorker, BlocksTypeOK, Statuses
<1>22. ASSUME NEW i \in Images, DeleteSignature(i) PROVE BlocksTypeOK'
  BY <1>22, <1>c DEF DeleteSignature, NoWorker, BlocksTypeOK, Statuses
<1>23. ASSUME NEW i \in Images, NEW k \in SignKeys, PushSignature(i, k) PROVE BlocksTypeOK'
  BY <1>23, <1>c DEF PushSignature, BlocksTypeOK
<1>24. ASSUME NEW k \in SignKeys, deleteUser(k) \/ Join(k) PROVE BlocksTypeOK'
  <2>2. trust' \in Trusts
    <3>1. \/ trust' = [trust EXCEPT !.writers = trust.writers \ {k}, !.personal = trust.personal \ {k}]
          \/ trust' = [trust EXCEPT !.writers = trust.writers \union {k}]
      BY <1>24 DEF deleteUser, Join, BlocksTypeOK
    <3>2. trust \in Trusts
      BY DEF BlocksTypeOK
    <3>3. \A l \in SignKeys : \A S \in SUBSET SignKeys : S \ {l} \in SUBSET SignKeys /\ S \union {l} \in SUBSET SignKeys
      OBVIOUS
    <3>4. trust.keys \in SUBSET SignKeys /\ trust.personal \in SUBSET SignKeys /\ trust.writers \in SUBSET SignKeys
      BY <3>2 DEF Trusts
    <3>5. \A S, T \in SUBSET SignKeys :
             /\ [trust EXCEPT !.keys = S] \in Trusts /\ [trust EXCEPT !.personal = S] \in Trusts /\ [trust EXCEPT !.writers = S] \in Trusts
             /\ [trust EXCEPT !.members = ~trust.members] \in Trusts /\ [trust EXCEPT !.writers = T, !.personal = S] \in Trusts
      BY <3>2, TrustsKept
    <3>6. trust.writers \ {k} \in SUBSET SignKeys /\ trust.personal \ {k} \in SUBSET SignKeys /\ trust.writers \union {k} \in SUBSET SignKeys
      BY <3>3, <3>4
    <3>7. CASE trust' = [trust EXCEPT !.writers = trust.writers \ {k}, !.personal = trust.personal \ {k}]
      <4>1. [trust EXCEPT !.writers = trust.writers \ {k}, !.personal = trust.personal \ {k}] \in Trusts
        BY <3>5, <3>6
      <4> QED BY <3>7, <4>1
    <3>8. CASE trust' = [trust EXCEPT !.writers = trust.writers \union {k}]
      BY <3>5, <3>6, <3>8
    <3> QED BY <3>1, <3>7, <3>8
  <2> QED BY <1>24, <1>c, <2>2 DEF deleteUser, Join, NoWorker, BlocksTypeOK
<1>25. CASE ExceptionExpires
  BY <1>25, <1>c DEF ExceptionExpires, NoWorker, BlocksTypeOK
<1> QED
  BY <1>2, <1>3, <1>4, <1>5, <1>6, <1>7, <1>8, <1>9, <1>10, <1>11, <1>12, <1>13, <1>14, <1>15, <1>16, <1>17, <1>18, <1>19,
     <1>20, <1>21, <1>22, <1>23, <1>24, <1>25 DEF BlocksNext

\* The parts of the invariant that say who is at work.
Orderly == OverlapNoted /\ IndexUnscanned /\ IdleHasNoScan

\* A worker that was idle begins, another goes on or ends, or none moves.
LEMMA BeginsFacts ==
    ASSUME BlocksTypeOK, NEW w \in Workers, w \in Free, NEW pc, NEW S, NEW next, NEW all, NEW scan, NEW A, NEW B,
           Begins(w, pc, S, next, all, scan, A, B)
    PROVE  /\ worker'[w].pc = pc /\ worker'[w].todo = S /\ worker'[w].next = next /\ worker'[w].all = all /\ worker'[w].scan = scan
           /\ \A v \in Workers \ {w} : worker'[v] = worker[v]
           /\ stale \union A \subseteq stale' /\ unrefreshed \union B \subseteq unrefreshed'
           /\ \A v \in Workers : Busy(v) => v # w /\ "overlap" \in stale' /\ "overlap" \in unrefreshed'
<1>1. PICK task : Task(task, pc, S, next, all, scan) /\ Starts(w, task, A, B)
  BY DEF Begins
<1>2. worker' = [worker EXCEPT ![w] = task]
  BY <1>1 DEF Starts
<1>3. (\E v \in Workers : Busy(v)) => Free # Workers
  BY DEF Free, Busy
<1>4. \A v \in Workers : Busy(v) => v # w
  BY DEF Free, Busy
<1>5. stale \union A \subseteq stale' /\ unrefreshed \union B \subseteq unrefreshed'
      /\ (Free # Workers => "overlap" \in stale' /\ "overlap" \in unrefreshed')
  BY <1>1 DEF Starts
<1> QED
  BY <1>1, <1>2, <1>3, <1>4, <1>5 DEF Task, BlocksTypeOK

\* The invariant's first part after a worker begins,
LEMMA OrderlyBegins ==
    ASSUME BlocksTypeOK, Orderly, NEW w \in Workers, w \in Free, NEW pc, NEW S, NEW next, NEW all, NEW scan, NEW A, NEW B,
           Begins(w, pc, S, next, all, scan, A, B), pc # "idle", Index \notin scan,
           found'[Index] # "High", Index \notin scans'
    PROVE  Orderly'
BY BeginsFacts DEF Orderly, OverlapNoted, IndexUnscanned, IdleHasNoScan, Busy

\* after a worker goes on or ends,
LEMMA OrderlyGoesOn ==
    ASSUME BlocksTypeOK, Orderly, NEW w \in Workers, Busy(w), NEW task, worker' = [worker EXCEPT ![w] = task],
           task.scan = worker[w].scan \/ task.scan = {}, task.pc = "idle" => task.scan = {},
           stale \subseteq stale' \/ Free = Workers \ {w}, unrefreshed \subseteq unrefreshed' \/ Free = Workers \ {w},
           found'[Index] # "High", Index \notin scans'
    PROVE  Orderly'
<1>1. worker'[w] = task /\ \A v \in Workers \ {w} : worker'[v] = worker[v]
  BY DEF BlocksTypeOK
<1>2. Free = Workers \ {w} => \A v \in Workers \ {w} : ~Busy(v)
  BY DEF Free, Busy
<1> QED
  BY <1>1, <1>2 DEF Orderly, OverlapNoted, IndexUnscanned, IdleHasNoScan, Busy

\* and after a step that leaves the workers alone.
LEMMA OrderlyStays ==
    ASSUME Orderly, UNCHANGED worker, stale \subseteq stale', unrefreshed \subseteq unrefreshed',
           found'[Index] # "High", Index \notin scans'
    PROVE  Orderly'
BY DEF Orderly, OverlapNoted, IndexUnscanned, IdleHasNoScan, Busy

\* Every step keeps the part about who is at work.
LEMMA OrderlyKept == ASSUME BlocksTypeOK, Orderly, BlocksNext PROVE Orderly'
<1>a. found[Index] # "High" /\ Index \notin scans /\ \A w \in Workers : worker[w] \in Tasks /\ Index \notin worker[w].scan
  BY DEF Orderly, IndexUnscanned, BlocksTypeOK
<1>b. ASSUME NEW w \in Workers, w \in Free, Refresh(w) \/ Reverify(w), found'[Index] # "High", Index \notin scans'
      PROVE  Orderly'
  BY <1>b, StartForms, OrderlyBegins, BlocksAssumption
<1>c. ASSUME NEW w \in Workers, Busy(w), worker' = [worker EXCEPT ![w] = Ended(worker[w])], stale \subseteq stale', unrefreshed \subseteq unrefreshed',
             UNCHANGED <<found, scans>>
      PROVE  Orderly'
  <2>1. Ended(worker[w]).scan = worker[w].scan /\ (Ended(worker[w]).pc = "idle" => worker[w].scan = {})
    BY <1>a DEF Ended, AtRest
  <2> DEFINE task == Ended(worker[w])
  <2> HIDE DEF task
  <2> QED BY <1>a, <1>c, <2>1, OrderlyGoesOn DEF task
<1>2. ASSUME NEW w \in Workers, ReadKeys(w) PROVE Orderly'
  <2> DEFINE S == IF worker[w].all THEN {i \in images : signer[i] # "none"} ELSE worker[w].todo
             task == [worker[w] EXCEPT !.pc = "verify", !.keys = effectiveVerificationKeys, !.todo = S]
  <2>1. worker' = [worker EXCEPT ![w] = task]
    BY <1>2, ReadKeysStep DEF ReadsKeys
  <2>2. task.pc = "verify" /\ task.scan = worker[w].scan
    BY <1>a DEF Tasks
  <2> HIDE DEF task
  <2> QED BY <1>a, <1>2, <2>1, <2>2, OrderlyGoesOn DEF ReadKeys, Busy
<1>3. ASSUME NEW w \in Workers, Verified(w) PROVE Orderly'
  <2>1. CASE worker' = [worker EXCEPT ![w] = Ended(worker[w])]
    BY <1>3, <1>c, <2>1 DEF Verified, Busy
  <2> DEFINE task == [worker[w] EXCEPT !.pc = "refresh", !.keys = {}]
  <2>2. CASE worker' = [worker EXCEPT ![w] = task]
    <3>1. task.pc = "refresh" /\ task.scan = worker[w].scan
      BY <1>a DEF Tasks
    <3> HIDE DEF task
    <3> QED BY <1>a, <1>3, <2>2, <3>1, OrderlyGoesOn DEF Verified, Busy
  <2> QED BY <1>3, <2>1, <2>2 DEF Verified
<1>4. ASSUME NEW w \in Workers, refreshRepositoryBlocks(w) PROVE Orderly'
  <2> DEFINE task == [worker[w] EXCEPT !.pc = "write", !.due = Computed, !.left = Rest(w)]
  <2>1. worker' = [worker EXCEPT ![w] = task]
    BY <1>4, RefreshStep
  <2>2. task.pc = "write" /\ task.scan = worker[w].scan
    BY <1>a DEF Tasks
  <2> HIDE DEF task
  <2> QED BY <1>a, <1>4, <2>1, <2>2, OrderlyGoesOn DEF refreshRepositoryBlocks, Busy
<1>5. ASSUME NEW w \in Workers, Refreshed(w) PROVE Orderly'
  BY <1>5, <1>c DEF Refreshed, Busy
<1>6. ASSUME NEW w \in Workers, Fails(w) PROVE Orderly'
  BY <1>6, <1>c DEF Fails, Busy
<1>7. ASSUME NEW w \in Workers, NEW i \in Images, verifyManifestSignatures(w, i) PROVE Orderly'
  <2> DEFINE task == [worker[w] EXCEPT !.todo = worker[w].todo \ {i}]
  <2>1. worker' = [worker EXCEPT ![w] = task]
    BY <1>7, VerifyStep
  <2>2. task.pc = "verify" /\ task.scan = worker[w].scan
    BY <1>a, <1>7 DEF Tasks, verifyManifestSignatures
  <2> HIDE DEF task
  <2> QED BY <1>a, <1>7, <2>1, <2>2, OrderlyGoesOn DEF verifyManifestSignatures, Busy
<1>8. ASSUME NEW w \in Workers, NEW i \in Images, WriteBlock(w, i) PROVE Orderly'
  <2>1. CASE worker' = [worker EXCEPT ![w] = Ended(worker[w])]
    <3>1. unrefreshed \subseteq unrefreshed'
      BY <1>8 DEF WriteBlock
    <3> QED BY <1>8, <1>c, <2>1, <3>1 DEF WriteBlock, Busy
  <2> DEFINE task == [worker[w] EXCEPT !.left = worker[w].left \ {i}]
  <2>2. CASE worker' = [worker EXCEPT ![w] = task]
    <3>1. task.pc = "write" /\ task.scan = worker[w].scan
      BY <1>a, <1>8 DEF Tasks, WriteBlock
    <3>2. unrefreshed \subseteq unrefreshed'
      BY <1>8 DEF WriteBlock
    <3> HIDE DEF task
    <3> QED BY <1>a, <1>8, <2>2, <3>1, <3>2, OrderlyGoesOn DEF WriteBlock, Busy
  <2> QED BY <1>8, <2>1, <2>2, WriteStep
<1>9. ASSUME NEW w \in Workers, NEW i \in Images, NEW what \in {"image", "signature"}, onManifestPushed(w, i, what) PROVE Orderly'
  <2>1. Index \notin Scanned(i, what) /\ Begins(w, "keys", {i}, "policy", FALSE, Scanned(i, what), {}, {})
    BY <1>9, StartForms DEF Scanned
  <2>2. w \in Free /\ found' = found /\ scans' = scans
    BY <1>9 DEF onManifestPushed
  <2> QED BY <1>a, <2>1, <2>2, OrderlyBegins
<1>10. ASSUME NEW w \in Workers, NEW i \in Images, NEW result \in {"clean", "High", "failed"}, finishScan(w, i, result) PROVE Orderly'
  <2>1. i # Index /\ Index \notin scans' /\ found'[Index] # "High"
    BY <1>10, <1>a, BlocksAssumption DEF finishScan, BlocksTypeOK
  <2> QED BY <1>10, <1>b, <2>1, OrderlyStays DEF finishScan
<1>11. ASSUME NEW w \in Workers, startScan(w) PROVE Orderly'
  <2>1. AtRest.scan = {} /\ AtRest.pc = "idle"
    BY DEF AtRest
  <2>2. Index \notin scans' /\ found'[Index] # "High" /\ unrefreshed \subseteq unrefreshed'
    BY <1>11, <1>a, BlocksAssumption DEF startScan
  <2> DEFINE task == AtRest
  <2> HIDE DEF task
  <2> QED BY <1>11, <2>1, <2>2, OrderlyGoesOn DEF startScan, Busy, task
<1>12. ASSUME NEW w \in Workers, getAttestationView(w) PROVE Orderly'
  <2>1. w \in Free /\ found' = found /\ scans' = scans
    BY <1>12 DEF getAttestationView
  <2> QED BY <1>12, <1>a, <2>1, StartForms, OrderlyBegins, BlocksAssumption
<1>13. ASSUME NEW w \in Workers, ChangeKeys(w) PROVE Orderly'
  BY <1>13, <1>a, <1>b, OrderlyStays DEF ChangeKeys
<1>14. ASSUME NEW w \in Workers, setPolicy(w) PROVE Orderly'
  BY <1>14, <1>a, <1>b DEF setPolicy
<1>15. ASSUME NEW w \in Workers, ChangeException(w) PROVE Orderly'
  BY <1>15, <1>a, <1>b DEF ChangeException
<1>16. ASSUME NEW w \in Workers, RunJob(w) PROVE Orderly'
  BY <1>16, <1>a, <1>b DEF RunJob
<1>17. ASSUME NEW w \in Workers, transferRepository(w) PROVE Orderly'
  <2>1. w \in Free /\ found' = found /\ scans' = scans
    BY <1>17 DEF transferRepository
  <2> QED BY <1>17, <1>a, <2>1, StartForms, OrderlyBegins, BlocksAssumption
<1>18. ASSUME NEW w \in Workers, NEW k \in SignKeys, ChangeMember(w, k) PROVE Orderly'
  <2>1. w \in Free /\ found' = found /\ scans' = scans
    BY <1>18 DEF ChangeMember
  <2> QED BY <1>18, <1>a, <1>b, <2>1, OrderlyStays DEF ChangeMember, reverifyAfterMembershipChange, NoWorker
<1>19. ASSUME NEW w \in Workers, NEW i \in Images, reverifyManifestAction(w, i) PROVE Orderly'
  <2>1. w \in Free /\ found' = found /\ scans' = scans
    BY <1>19 DEF reverifyManifestAction
  <2> QED BY <1>19, <1>a, <2>1, StartForms, OrderlyBegins
<1>20. ASSUME NEW i \in Images, PushImage(i) \/ DeleteImage(i) \/ DeleteSignature(i) PROVE Orderly'
  BY <1>20, <1>a, OrderlyStays DEF PushImage, DeleteImage, DeleteSignature, NoWorker
<1>23. ASSUME NEW i \in Images, NEW k \in SignKeys, PushSignature(i, k) PROVE Orderly'
  BY <1>23, <1>a, OrderlyStays DEF PushSignature
<1>24. ASSUME NEW k \in SignKeys, deleteUser(k) \/ Join(k) PROVE Orderly'
  BY <1>24, <1>a, OrderlyStays DEF deleteUser, Join, NoWorker
<1>25. CASE ExceptionExpires
  BY <1>25, <1>a, OrderlyStays DEF ExceptionExpires, NoWorker
<1> QED
  BY <1>2, <1>3, <1>4, <1>5, <1>6, <1>7, <1>8, <1>9, <1>10, <1>11, <1>12, <1>13, <1>14, <1>15, <1>16, <1>17, <1>18, <1>19,
     <1>20, <1>23, <1>24, <1>25 DEF BlocksNext

\* The parts that are about manifest_signatures.
Verdicts == UnsignedNotVerified /\ VerdictsFollow /\ KeysAreRead

\* The keys that count depend on what is trusted alone.
LEMMA SameKeys == UNCHANGED trust => effectiveVerificationKeys' = effectiveVerificationKeys
BY DEF effectiveVerificationKeys, listMemberKeys

\* Every step keeps the part about manifest_signatures.
LEMMA VerdictsKept == ASSUME BlocksTypeOK, Orderly, Verdicts, BlocksNext PROVE Verdicts'
<1> DEFINE eff == effectiveVerificationKeys
<1>a. \A w \in Workers : worker[w] \in Tasks
  BY DEF BlocksTypeOK
<1>b. UnsignedNotVerified
  BY DEF Verdicts
<1>c. ASSUME UNCHANGED <<images, signer, verdict>>, stale' = {} => stale = {} /\ effectiveVerificationKeys' = eff, events \subseteq events',
             \A w \in Workers : worker'[w].pc = "verify" =>
                 (worker[w].pc = "verify" /\ worker'[w].keys = worker[w].keys) \/ worker'[w].keys = eff,
             \A w \in Workers, i \in images : Looks(w, i) => Looks(w, i)'
      PROVE  Verdicts'
  <2>1. UnsignedNotVerified'
    BY <1>b, <1>c DEF UnsignedNotVerified
  <2>2. ASSUME stale' = {} PROVE KeysAreRead' /\ \A i \in images : Current(i)' \/ Awaited(i)'
    <3>1. stale = {} /\ effectiveVerificationKeys' = effectiveVerificationKeys
      BY <1>c, <2>2
    <3>2. \A w \in Workers : worker[w].pc = "verify" => worker[w].keys = effectiveVerificationKeys
      BY <3>1 DEF Verdicts, KeysAreRead
    <3>3. \A i \in images : Current(i) \/ Awaited(i)
      BY <3>1 DEF Verdicts, VerdictsFollow
    <3>4. \A i \in images : Current(i) => Current(i)'
      BY <3>1, <1>c DEF Current
    <3>5. \A i \in images : Awaited(i) => Awaited(i)'
      BY <1>c DEF Awaited
    <3> QED BY <1>c, <3>1, <3>2, <3>3, <3>4, <3>5 DEF KeysAreRead
  <2> QED BY <1>c, <2>1, <2>2 DEF Verdicts, VerdictsFollow, KeysAreRead
<1>d. ASSUME NEW w \in Workers, w \in Free, NEW pc \in {"keys", "refresh"}, NEW S, NEW next, NEW all, NEW scan, NEW A, NEW B, Begins(w, pc, S, next, all, scan, A, B),
             UNCHANGED <<images, signer, verdict>>, events' = events, trust' = trust \/ A # {}
      PROVE  Verdicts'
  <2>1. /\ worker'[w].pc = pc /\ worker[w].pc = "idle" /\ stale \union A \subseteq stale'
        /\ \A v \in Workers \ {w} : worker'[v] = worker[v]
    BY <1>d, BeginsFacts DEF Free
  <2>2. stale' = {} => stale = {} /\ effectiveVerificationKeys' = eff
    BY <1>d, <2>1, SameKeys
  <2> QED BY <1>c, <1>d, <2>1, <2>2 DEF Looks
<1>e. ASSUME NEW w \in Workers, w \in Free, Reverify(w), UNCHANGED <<images, signer, verdict>>
      PROVE  Verdicts'
  <2>1. Begins(w, "keys", {}, "refresh", TRUE, {}, {}, {})
    BY <1>e, StartForms, BlocksAssumption
  <2>2. /\ worker'[w].pc = "keys" /\ worker'[w].all
        /\ \A v \in Workers \ {w} : worker'[v] = worker[v]
        /\ \A v \in Workers : Busy(v) => "overlap" \in stale'
    <3> HIDE DEF eff
    <3> QED BY <1>e, <2>1, BeginsFacts
  <2>3. UnsignedNotVerified'
    BY <1>b, <1>e DEF UnsignedNotVerified
  <2>4. \A i \in images : Awaited(i)'
    BY <2>2 DEF Awaited, Looks
  <2>5. stale' = {} => \A v \in Workers : worker'[v].pc # "verify"
    BY <2>2 DEF Busy
  <2> QED BY <1>e, <2>3, <2>4, <2>5 DEF Verdicts, VerdictsFollow, KeysAreRead
<1>f. ASSUME NEW w \in Workers, w \in Free, Refresh(w), UNCHANGED <<images, signer, verdict, events, trust>>
      PROVE  Verdicts'
  <2>1. Begins(w, "refresh", {}, "nothing", FALSE, {}, {}, {})
    BY <1>f, StartForms, BlocksAssumption
  <2> QED BY <1>d, <1>f, <2>1
<1>g. ASSUME stale' # {}, UNCHANGED <<signer, verdict>> PROVE Verdicts'
  BY <1>b, <1>g DEF Verdicts, UnsignedNotVerified, VerdictsFollow, KeysAreRead
<1>h. ASSUME UNCHANGED <<images, signer, verdict, worker>>, stale' = {} => stale = {} /\ effectiveVerificationKeys' = eff, events \subseteq events'
      PROVE  Verdicts'
  BY <1>c, <1>h DEF Looks
<1>i. ASSUME NEW w \in Workers, NEW task, worker' = [worker EXCEPT ![w] = task], task.pc \notin {"keys", "verify"}, \A i \in images : ~Looks(w, i),
             UNCHANGED <<images, signer, verdict, events, trust, stale>>
      PROVE  Verdicts'
  <2>1. worker'[w] = task /\ \A v \in Workers \ {w} : worker'[v] = worker[v]
    BY <1>i DEF BlocksTypeOK
  <2> QED BY <1>c, <1>i, <2>1, SameKeys DEF Looks
<1>2. ASSUME NEW w \in Workers, ReadKeys(w) PROVE Verdicts'
  <2> DEFINE S == IF worker[w].all THEN {i \in images : signer[i] # "none"} ELSE worker[w].todo
             task == [worker[w] EXCEPT !.pc = "verify", !.keys = eff, !.todo = S]
  <2>1. worker' = [worker EXCEPT ![w] = task]
    BY <1>2, ReadKeysStep DEF ReadsKeys
  <2>2. task.pc = "verify" /\ task.keys = eff /\ task.todo = S
    BY <1>a DEF Tasks
  <2>3. worker'[w].pc = "verify" /\ worker'[w].keys = eff /\ worker'[w].todo = S /\ \A v \in Workers \ {w} : worker'[v] = worker[v]
    <3> HIDE DEF task
    <3> QED BY <2>1, <2>2 DEF BlocksTypeOK
  <2>4. UNCHANGED <<images, signer, verdict, events, trust>> /\ worker[w].pc = "keys" /\ effectiveVerificationKeys' = eff
    BY <1>2, SameKeys DEF ReadKeys
  <2>5. UnsignedNotVerified'
    BY <1>b, <2>4 DEF UnsignedNotVerified
  <2>6. CASE stale' = stale /\ stale = {} /\ ~worker[w].all
    <3>1. \A v \in Workers, i \in images : Looks(v, i) => Looks(v, i)'
      BY <2>3, <2>4, <2>6 DEF Looks
    <3>2. \A v \in Workers : worker'[v].pc = "verify" =>
             (worker[v].pc = "verify" /\ worker'[v].keys = worker[v].keys) \/ worker'[v].keys = eff
      BY <2>3
    <3> HIDE DEF eff
    <3> QED BY <1>c, <2>4, <2>6, <3>1, <3>2
  <2>7. CASE stale' = {} /\ worker[w].all /\ Free = Workers \ {w}
    <3>1. \A v \in Workers \ {w} : worker'[v].pc = "idle"
      BY <2>3, <2>7 DEF Free
    <3>2. KeysAreRead'
      BY <2>3, <2>4, <3>1 DEF KeysAreRead
    <3>3. \A i \in images : signer[i] = "none" => Current(i)'
      BY <1>b, <2>4, KeysTyped, SignaturesAssumption DEF Current, UnsignedNotVerified, BlocksTypeOK
    <3>4. \A i \in images : signer[i] # "none" => Awaited(i)'
      BY <2>3, <2>7 DEF Awaited, Looks
    <3> QED BY <2>4, <2>5, <3>2, <3>3, <3>4 DEF Verdicts, VerdictsFollow
  <2>8. CASE stale' = stale /\ stale # {}
    BY <1>g, <2>4, <2>8
  <2>9. ~(worker[w].all /\ Free = Workers \ {w}) => stale' = stale
    BY <1>2 DEF ReadKeys
  <2>10. worker[w].all /\ Free = Workers \ {w} => stale' = {}
    BY <1>2 DEF ReadKeys
  <2>11. stale = {} => Free = Workers \ {w}
    <3>1. stale = {} => \A v \in Workers \ {w} : ~Busy(v)
      BY <2>4 DEF Orderly, OverlapNoted, Busy
    <3> QED BY <2>4, <3>1 DEF Free, Busy
  <2> QED BY <2>6, <2>7, <2>8, <2>9, <2>10, <2>11
<1>3. ASSUME NEW w \in Workers, Verified(w) PROVE Verdicts'
  <2>0. UNCHANGED <<images, signer, verdict, events, trust, stale>> /\ \A i \in images : ~Looks(w, i)
    BY <1>3 DEF Verified, Looks
  <2>1. CASE worker' = [worker EXCEPT ![w] = Ended(worker[w])]
    BY <1>a, <1>i, <2>0, <2>1, EndedKept
  <2> DEFINE task == [worker[w] EXCEPT !.pc = "refresh", !.keys = {}]
  <2>2. CASE worker' = [worker EXCEPT ![w] = task]
    <3>1. task.pc = "refresh"
      BY <1>a DEF Tasks
    <3> HIDE DEF task
    <3> QED BY <1>i, <2>0, <2>2, <3>1
  <2> QED BY <1>3, <2>1, <2>2 DEF Verified
<1>4. ASSUME NEW w \in Workers, refreshRepositoryBlocks(w) PROVE Verdicts'
  <2> DEFINE task == [worker[w] EXCEPT !.pc = "write", !.due = Computed, !.left = Rest(w)]
  <2>1. worker' = [worker EXCEPT ![w] = task]
    BY <1>4, RefreshStep
  <2>2. task.pc = "write"
    BY <1>a DEF Tasks
  <2>3. UNCHANGED <<images, signer, verdict, events, trust, stale>> /\ \A i \in images : ~Looks(w, i)
    BY <1>4 DEF refreshRepositoryBlocks, Looks
  <2> HIDE DEF task
  <2> QED BY <1>i, <2>1, <2>2, <2>3
<1>5. ASSUME NEW w \in Workers, Refreshed(w) PROVE Verdicts'
  <2>1. UNCHANGED <<images, signer, verdict, events, trust, stale>> /\ \A i \in images : ~Looks(w, i)
    BY <1>5 DEF Refreshed, Looks
  <2>2. worker' = [worker EXCEPT ![w] = Ended(worker[w])]
    BY <1>5 DEF Refreshed
  <2> QED BY <1>a, <1>i, <2>1, <2>2, EndedKept
<1>6. ASSUME NEW w \in Workers, Fails(w) PROVE Verdicts'
  BY <1>6, <1>g DEF Fails
<1>7. ASSUME NEW w \in Workers, NEW i \in Images, verifyManifestSignatures(w, i) PROVE Verdicts'
  <2> DEFINE task == [worker[w] EXCEPT !.todo = worker[w].todo \ {i}]
  <2>1. worker' = [worker EXCEPT ![w] = task]
    BY <1>7, VerifyStep
  <2>2. task.pc = "verify" /\ task.keys = worker[w].keys /\ task.todo = worker[w].todo \ {i} /\ worker[w].keys \in SUBSET SignKeys
    BY <1>a, <1>7 DEF Tasks, verifyManifestSignatures
  <2>3. worker'[w].pc = "verify" /\ worker'[w].keys = worker[w].keys /\ worker'[w].todo = worker[w].todo \ {i} /\ \A v \in Workers \ {w} : worker'[v] = worker[v]
    <3> HIDE DEF task
    <3> QED BY <2>1, <2>2 DEF BlocksTypeOK
  <2>4. UNCHANGED <<images, signer, events, trust, stale>> /\ worker[w].pc = "verify" /\ effectiveVerificationKeys' = eff
    BY <1>7, SameKeys DEF verifyManifestSignatures
  <2>5. /\ i \in images => verdict'[i] = IF signer[i] = "none" THEN "none" ELSE judged(i, worker[w].keys)
        /\ \A j \in Images : j # i \/ i \notin images => verdict'[j] = verdict[j]
    BY <1>7 DEF verifyManifestSignatures, BlocksTypeOK
  <2>6. i \in images => (verdict'[i] = "verified" <=> signer[i] \in worker[w].keys)
    <3>1. judged(i, worker[w].keys) = "verified" <=> signer[i] \in worker[w].keys
      BY <2>2, JudgedVerified
    <3> QED BY <2>2, <2>5, <3>1, SignaturesAssumption
  <2>7. UnsignedNotVerified'
    <3>1. "none" \notin SignKeys
      BY SignaturesAssumption
    <3> QED BY <1>b, <2>2, <2>4, <2>5, <2>6, <3>1 DEF UnsignedNotVerified
  <2>8. KeysAreRead'
    BY <2>3, <2>4 DEF Verdicts, KeysAreRead
  <2>9. ASSUME stale = {}, NEW j \in images PROVE (Current(j) \/ Awaited(j))'
    <3>1. worker[w].keys = effectiveVerificationKeys
      BY <2>4, <2>9 DEF Verdicts, KeysAreRead
    <3>2. CASE j = i
      BY <2>4, <2>6, <2>9, <3>1, <3>2 DEF Current
    <3>3. CASE j # i
      <4>1. verdict'[j] = verdict[j]
        BY <2>5, <2>9, <3>3 DEF BlocksTypeOK
      <4>2. Current(j) => Current(j)'
        BY <2>4, <4>1 DEF Current
      <4>3. \A v \in Workers : Looks(v, j) => Looks(v, j)'
        BY <2>3, <2>4, <3>3 DEF Looks
      <4>4. Awaited(j) => Awaited(j)'
        BY <2>4, <4>3 DEF Awaited
      <4> QED BY <2>9, <4>2, <4>4 DEF Verdicts, VerdictsFollow
    <3> QED BY <3>2, <3>3
  <2> QED BY <2>4, <2>7, <2>8, <2>9 DEF Verdicts, VerdictsFollow
<1>8. ASSUME NEW w \in Workers, NEW i \in Images, WriteBlock(w, i) PROVE Verdicts'
  <2>0. UNCHANGED <<images, signer, verdict, events, trust, stale>> /\ \A j \in images : ~Looks(w, j)
    BY <1>8 DEF WriteBlock, Looks
  <2>1. CASE worker' = [worker EXCEPT ![w] = Ended(worker[w])]
    BY <1>a, <1>i, <2>0, <2>1, EndedKept
  <2> DEFINE task == [worker[w] EXCEPT !.left = worker[w].left \ {i}]
  <2>2. CASE worker' = [worker EXCEPT ![w] = task]
    <3>1. task.pc = "write"
      BY <1>a, <1>8 DEF Tasks, WriteBlock
    <3> HIDE DEF task
    <3> QED BY <1>i, <2>0, <2>2, <3>1
  <2> QED BY <1>8, <2>1, <2>2, WriteStep
<1>9. ASSUME NEW w \in Workers, NEW i \in Images, NEW what \in {"image", "signature"}, onManifestPushed(w, i, what) PROVE Verdicts'
  <2>1. /\ worker'[w].pc = "keys" /\ worker'[w].todo = {i} /\ worker[w].pc = "idle" /\ stale \subseteq stale'
        /\ \A v \in Workers \ {w} : worker'[v] = worker[v]
    <3>1. Begins(w, "keys", {i}, "policy", FALSE, Scanned(i, what), {}, {}) /\ w \in Free
      BY <1>9, StartForms DEF onManifestPushed
    <3> HIDE DEF eff
    <3> QED BY <3>1, BeginsFacts, ZenonT(60) DEF Free
  <2>2. UNCHANGED <<images, signer, verdict, trust>> /\ events' = events \ {<<i, what>>} /\ effectiveVerificationKeys' = eff
    BY <1>9, SameKeys DEF onManifestPushed
  <2>3. UnsignedNotVerified'
    BY <1>b, <2>2 DEF UnsignedNotVerified
  <2>4. stale' = {} => stale = {}
    BY <2>1
  <2>5. KeysAreRead'
    BY <2>1, <2>2, <2>4 DEF Verdicts, KeysAreRead
  <2>6. ASSUME NEW j \in images, Current(j) \/ Awaited(j) PROVE (Current(j) \/ Awaited(j))'
    <3>1. Current(j) => Current(j)'
      BY <2>2 DEF Current
    <3>2. \A v \in Workers : Looks(v, j) => Looks(v, j)'
      BY <2>1 DEF Looks
    <3>3. Looks(w, i)'
      BY <2>1 DEF Looks
    <3>4. Awaited(j) => Awaited(j)'
      BY <2>2, <3>2, <3>3 DEF Awaited
    <3> QED BY <2>6, <3>1, <3>4
  <2> QED BY <2>2, <2>3, <2>4, <2>5, <2>6 DEF Verdicts, VerdictsFollow
<1>10. ASSUME NEW w \in Workers, NEW i \in Images, NEW result \in {"clean", "High", "failed"}, finishScan(w, i, result) PROVE Verdicts'
  <2>1. UNCHANGED <<images, signer, verdict, events, trust>> /\ effectiveVerificationKeys' = eff
    BY <1>10, SameKeys DEF finishScan
  <2>2. (w \in Free /\ Refresh(w)) \/ UNCHANGED <<worker, stale>>
    BY <1>10 DEF finishScan
  <2> HIDE DEF eff
  <2> QED BY <1>f, <1>h, <2>1, <2>2
<1>11. ASSUME NEW w \in Workers, startScan(w) PROVE Verdicts'
  <2>1. AtRest.pc = "idle"
    BY DEF AtRest
  <2>2. UNCHANGED <<images, signer, verdict, events, trust, stale>> /\ worker' = [worker EXCEPT ![w] = AtRest] /\ \A i \in images : ~Looks(w, i)
    BY <1>11 DEF startScan, Looks
  <2> QED BY <1>i, <2>1, <2>2
<1>12. ASSUME NEW w \in Workers, getAttestationView(w) PROVE Verdicts'
  <2>1. Begins(w, "keys", Looked, "nothing", FALSE, {}, {}, {"viewed"})
    BY <1>12, StartForms, BlocksAssumption
  <2>2. w \in Free /\ UNCHANGED <<images, signer, verdict, events, trust>>
    BY <1>12 DEF getAttestationView
  <2> QED BY <1>d, <2>1, <2>2
<1>13. ASSUME NEW w \in Workers, ChangeKeys(w) PROVE Verdicts'
  <2>1. UNCHANGED <<images, signer, verdict, events>> /\ w \in Free
    BY <1>13 DEF ChangeKeys
  <2>2. CASE Reverify(w)
    BY <1>e, <2>1, <2>2
  <2>3. CASE UNCHANGED <<worker, stale>> /\ \E k \in SignKeys : (k \notin trust.writers \/ ~trust.members)
             /\ trust' = [trust EXCEPT !.personal = IF k \in trust.personal THEN trust.personal \ {k} ELSE trust.personal \union {k}]
    <3>1. PICK k \in SignKeys : (k \notin trust.writers \/ ~trust.members)
             /\ trust' = [trust EXCEPT !.personal = IF k \in trust.personal THEN trust.personal \ {k} ELSE trust.personal \union {k}]
      BY <2>3
    <3>2. /\ trust'.keys = trust.keys /\ trust'.writers = trust.writers /\ trust'.members = trust.members
          /\ \A l : l # k => (l \in trust'.personal <=> l \in trust.personal)
      BY <3>1 DEF BlocksTypeOK, Trusts
    <3>3. effectiveVerificationKeys' = effectiveVerificationKeys
      BY <3>1, <3>2 DEF effectiveVerificationKeys, listMemberKeys
    <3> QED BY <1>h, <2>1, <2>3, <3>3
  <2> QED BY <1>13, <2>2, <2>3 DEF ChangeKeys
<1>14. ASSUME NEW w \in Workers, setPolicy(w) PROVE Verdicts'
  BY <1>14, <1>f DEF setPolicy
<1>15. ASSUME NEW w \in Workers, ChangeException(w) PROVE Verdicts'
  BY <1>15, <1>f DEF ChangeException
<1>16. ASSUME NEW w \in Workers, RunJob(w) PROVE Verdicts'
  BY <1>16, <1>e, <1>f DEF RunJob
<1>17. ASSUME NEW w \in Workers, transferRepository(w) PROVE Verdicts'
  <2>1. Begins(w, "refresh", {}, "nothing", FALSE, {}, {"moved"}, {})
    BY <1>17, StartForms, BlocksAssumption
  <2>2. w \in Free /\ UNCHANGED <<images, signer, verdict, events>>
    BY <1>17 DEF transferRepository
  <2> QED BY <1>d, <2>1, <2>2
<1>18. ASSUME NEW w \in Workers, NEW k \in SignKeys, ChangeMember(w, k) PROVE Verdicts'
  <2>1. w \in Free /\ UNCHANGED <<images, signer, verdict, events>> /\ \E W : trust' = [trust EXCEPT !.writers = W]
    BY <1>18 DEF ChangeMember
  <2>2. CASE ~trust.members /\ UNCHANGED <<worker, stale, unrefreshed>>
    <3>1. effectiveVerificationKeys' = effectiveVerificationKeys
      BY <2>1, <2>2 DEF effectiveVerificationKeys, BlocksTypeOK, Trusts
    <3> QED BY <1>h, <2>1, <2>2, <3>1
  <2>3. CASE NoWorker({"left"}, {})
    BY <1>g, <2>1, <2>3 DEF NoWorker
  <2>4. CASE Reverify(w)
    BY <1>e, <2>1, <2>4
  <2> QED BY <1>18, <2>2, <2>3, <2>4 DEF ChangeMember, reverifyAfterMembershipChange
<1>19. ASSUME NEW w \in Workers, NEW i \in Images, reverifyManifestAction(w, i) PROVE Verdicts'
  <2>1. Begins(w, "keys", Reached(i), "refresh", FALSE, {}, {}, {})
    BY <1>19, StartForms
  <2>2. w \in Free /\ UNCHANGED <<images, signer, verdict, events, trust>>
    BY <1>19 DEF reverifyManifestAction
  <2> QED BY <1>d, <2>1, <2>2
<1>20. ASSUME NEW i \in Images, PushImage(i) PROVE Verdicts'
  <2>1. /\ UNCHANGED <<signer, verdict, trust, worker>> /\ images' = images \union {i} /\ events' = events \union {<<i, "image">>}
        /\ stale' = stale
    BY <1>20 DEF PushImage, NoWorker
  <2>2. UnsignedNotVerified'
    BY <1>b, <2>1 DEF UnsignedNotVerified
  <2>3. KeysAreRead'
    BY <2>1, SameKeys DEF Verdicts, KeysAreRead
  <2>4. Awaited(i)'
    BY <2>1 DEF Awaited
  <2>5. \A j \in images : Current(j) \/ Awaited(j) => (Current(j) \/ Awaited(j))'
    <3>1. \A j \in images : Current(j) => Current(j)'
      BY <2>1, SameKeys DEF Current
    <3>2. \A j \in images : Awaited(j) => Awaited(j)'
      BY <2>1 DEF Awaited, Looks
    <3> QED BY <3>1, <3>2
  <2> QED BY <2>1, <2>2, <2>3, <2>4, <2>5 DEF Verdicts, VerdictsFollow
<1>21. ASSUME NEW i \in Images, DeleteImage(i) \/ DeleteSignature(i) PROVE Verdicts'
  <2>1. /\ UNCHANGED <<trust, worker, stale, events>> /\ images' \subseteq images
        /\ verdict' = [verdict EXCEPT ![i] = "none"]
        /\ signer' = signer \/ signer' = [signer EXCEPT ![i] = "none"]
        /\ i \in images' => signer' = [signer EXCEPT ![i] = "none"]
    BY <1>21 DEF DeleteImage, DeleteSignature, NoWorker
  <2>2. UnsignedNotVerified'
    BY <1>b, <2>1 DEF UnsignedNotVerified, BlocksTypeOK
  <2>3. KeysAreRead'
    BY <2>1, SameKeys DEF Verdicts, KeysAreRead
  <2>4. i \in images' => Current(i)'
    <3>1. i \in images' => verdict'[i] = "none" /\ signer'[i] = "none"
      BY <2>1 DEF BlocksTypeOK
    <3>2. "none" \notin effectiveVerificationKeys /\ effectiveVerificationKeys' = effectiveVerificationKeys
      BY <2>1, SameKeys, KeysTyped, SignaturesAssumption
    <3> QED BY <3>1, <3>2 DEF Current
  <2>5. ASSUME NEW j \in images', j # i, Current(j) \/ Awaited(j) PROVE (Current(j) \/ Awaited(j))'
    <3>1. verdict'[j] = verdict[j] /\ signer'[j] = signer[j]
      BY <2>1, <2>5 DEF BlocksTypeOK
    <3>2. Current(j) => Current(j)'
      BY <2>1, <3>1, SameKeys DEF Current
    <3>3. Awaited(j) => Awaited(j)'
      BY <2>1 DEF Awaited, Looks
    <3> QED BY <2>5, <3>2, <3>3
  <2> QED BY <2>1, <2>2, <2>3, <2>4, <2>5 DEF Verdicts, VerdictsFollow
<1>23. ASSUME NEW i \in Images, NEW k \in SignKeys, PushSignature(i, k) PROVE Verdicts'
  <2>1. /\ UNCHANGED <<images, verdict, trust, worker, stale>> /\ signer' = [signer EXCEPT ![i] = k]
        /\ events' = events \union {<<i, "signature">>}
    BY <1>23 DEF PushSignature
  <2>2. UnsignedNotVerified'
    BY <1>b, <2>1, SignaturesAssumption DEF UnsignedNotVerified, BlocksTypeOK
  <2>3. KeysAreRead'
    BY <2>1, SameKeys DEF Verdicts, KeysAreRead
  <2>4. Awaited(i)'
    BY <2>1 DEF Awaited
  <2>5. ASSUME NEW j \in images, j # i, Current(j) \/ Awaited(j) PROVE (Current(j) \/ Awaited(j))'
    <3>1. signer'[j] = signer[j]
      BY <2>1, <2>5 DEF BlocksTypeOK
    <3>2. Current(j) => Current(j)'
      BY <2>1, <3>1, SameKeys DEF Current
    <3>3. Awaited(j) => Awaited(j)'
      BY <2>1 DEF Awaited, Looks
    <3> QED BY <2>5, <3>2, <3>3
  <2> QED BY <2>1, <2>2, <2>3, <2>4, <2>5 DEF Verdicts, VerdictsFollow
<1>24. ASSUME NEW k \in SignKeys, deleteUser(k) \/ Join(k) PROVE Verdicts'
  BY <1>24, <1>g DEF deleteUser, Join, NoWorker
<1>25. CASE ExceptionExpires
  <2>1. UNCHANGED <<images, signer, verdict, worker, stale, events, trust>>
    BY <1>25 DEF ExceptionExpires, NoWorker
  <2> QED BY <1>h, <2>1, SameKeys
<1> QED
  BY <1>2, <1>3, <1>4, <1>5, <1>6, <1>7, <1>8, <1>9, <1>10, <1>11, <1>12, <1>13, <1>14, <1>15, <1>16, <1>17, <1>18, <1>19,
     <1>20, <1>21, <1>23, <1>24, <1>25 DEF BlocksNext

\* The parts that are about manifest_blocks.
BlocksRows == ViewsAreNoted /\ GoneHasNoRow /\ RowsFollow /\ WritersFollow

\* What refreshRepositoryBlocks computes is what the policies say.
LEMMA ComputedSays ==
    ASSUME BlocksTypeOK, NEW i \in Images
    PROVE  /\ i \in images => /\ "scan" \in Computed[i] <=> Vulnerable(i)
                              /\ "signature" \in Computed[i] <=> Unsigned(i)
           /\ i \notin images => Computed[i] = {}
<1> DEFINE blocked == {j \in images : violation(j)}
           byScan == blocked \union (IF Index \in images /\ blocked # {} THEN {Index} ELSE {})
           verified == {j \in images : verdict[j] = "verified"}
           covered == IF Index \in verified THEN images \ {Index} ELSE {}
           unsigned == IF effectiveSignaturePolicy THEN images \ (verified \union covered) ELSE {}
<1>1. Computed[i] = (IF i \in byScan THEN {"scan"} ELSE {}) \union (IF i \in unsigned THEN {"signature"} ELSE {})
  BY DEF Computed
<1>2. i \in images => (i \in byScan <=> Vulnerable(i))
  BY DEF Vulnerable
<1>3. i \in images => (i \in unsigned <=> Unsigned(i))
  BY DEF Unsigned
<1>4. i \notin images => i \notin byScan /\ i \notin unsigned
  OBVIOUS
<1> HIDE DEF byScan, unsigned
<1> QED BY <1>1, <1>2, <1>3, <1>4

\* What fits an image goes on to fit as long as nothing that its row is
\* computed from changes.
SameInputs ==
    /\ UNCHANGED <<images, verdict, policies, exception>>
    /\ \A i \in images : found'[i] = "High" <=> found[i] = "High"
    /\ \A i \in images : <<i, "image">> \in events => <<i, "image">> \in events'
    /\ HighAwaited => HighAwaited'

\* A row that fits its image goes on to fit.
LEMMA FitsKept == ASSUME SameInputs, NEW row, NEW i \in images, Fits(row, i) PROVE Fits(row, i)'
<1>1. \A j \in images : violation(j) <=> violation(j)'
  BY DEF SameInputs, violation, effectivePolicy
<1>2. Vulnerable(i) <=> Vulnerable(i)'
  BY <1>1 DEF SameInputs, Vulnerable
<1>3. Unsigned(i) <=> Unsigned(i)'
  BY DEF SameInputs, Unsigned, effectiveSignaturePolicy
<1>4. (HighAwaited => HighAwaited') /\ (<<i, "image">> \in events => <<i, "image">> \in events')
  BY DEF SameInputs
<1> QED BY <1>2, <1>3, <1>4 DEF Fits

\* Every step keeps the part about manifest_blocks.
LEMMA BlocksRowsKept == ASSUME BlocksTypeOK, Orderly, BlocksRows, BlocksNext PROVE BlocksRows'
<1>a. \A w \in Workers : worker[w] \in Tasks
  BY DEF BlocksTypeOK
<1>b. unrefreshed = {} => \A v, w \in Workers : Busy(v) /\ Busy(w) => v = w
  BY DEF Orderly, OverlapNoted
<1>c. ASSUME SameInputs, UNCHANGED blocks, unrefreshed \subseteq unrefreshed',
             \A w \in Workers : worker'[w].pc \in {"keys", "verify"} /\ worker'[w].next = "nothing" => worker[w].pc \in {"keys", "verify"} /\ worker[w].next = "nothing",
             (\A w \in Workers : ~HeadsForRefresh(w)') => \A w \in Workers : ~HeadsForRefresh(w),
             \A w \in Workers : worker'[w].pc = "write" => worker[w].pc = "write" /\ worker'[w].due = worker[w].due /\ worker'[w].left = worker[w].left
      PROVE  BlocksRows'
  <2>1. images' = images /\ (unrefreshed' = {} => unrefreshed = {})
    BY <1>c DEF SameInputs
  <2>2. ViewsAreNoted' /\ GoneHasNoRow'
    BY <1>c, <2>1 DEF BlocksRows, ViewsAreNoted, GoneHasNoRow
  <2>3. RowsFollow'
    BY <1>c, <2>1, FitsKept DEF BlocksRows, RowsFollow
  <2>4. WritersFollow'
    BY <1>c, <2>1, FitsKept DEF BlocksRows, WritersFollow
  <2> QED BY <2>2, <2>3, <2>4 DEF BlocksRows
<1>d. ASSUME unrefreshed' # {}, GoneHasNoRow' PROVE BlocksRows'
  BY <1>d DEF BlocksRows, ViewsAreNoted, RowsFollow, WritersFollow
<1>e. ASSUME NEW w \in Workers, w \in Free, NEW pc, NEW S, NEW next, NEW all, NEW scan, NEW A, NEW B, Begins(w, pc, S, next, all, scan, A, B),
             pc = "refresh" \/ (pc = "keys" /\ next = "refresh"), UNCHANGED <<images, blocks>>
      PROVE  BlocksRows'
  <2>1. /\ worker'[w].pc = pc /\ worker'[w].next = next
        /\ \A v \in Workers \ {w} : worker'[v] = worker[v]
        /\ \A v \in Workers : Busy(v) => "overlap" \in unrefreshed'
    BY <1>e, BeginsFacts
  <2>2. GoneHasNoRow'
    BY <1>e DEF BlocksRows, GoneHasNoRow
  <2>3. HeadsForRefresh(w)'
    BY <1>e, <2>1 DEF HeadsForRefresh, AfterVerify
  <2>4. unrefreshed' = {} => \A v \in Workers \ {w} : worker'[v].pc = "idle"
    BY <2>1 DEF Busy
  <2>5. ViewsAreNoted'
    BY <1>e, <2>1, <2>4 DEF ViewsAreNoted
  <2>6. RowsFollow'
    BY <2>3 DEF RowsFollow
  <2>7. WritersFollow'
    BY <1>e, <2>1, <2>4 DEF WritersFollow
  <2> QED BY <2>2, <2>5, <2>6, <2>7 DEF BlocksRows
<1>f. ASSUME NEW w \in Workers, w \in Free, Refresh(w) \/ Reverify(w), UNCHANGED <<images, blocks>> PROVE BlocksRows'
  BY <1>e, <1>f, StartForms, BlocksAssumption
<1>g. ASSUME UNCHANGED <<images, verdict, policies, exception, found, blocks, worker>>, events \subseteq events', unrefreshed \subseteq unrefreshed'
      PROVE  BlocksRows'
  <2>1. SameInputs
    BY <1>g DEF SameInputs, HighAwaited
  <2>2. \A w \in Workers : HeadsForRefresh(w) => HeadsForRefresh(w)'
    BY <1>g DEF HeadsForRefresh, AfterVerify, effectiveSignaturePolicy
  <2> QED BY <1>c, <1>g, <2>1, <2>2
<1>h. ASSUME UNCHANGED <<images, verdict, policies, exception, found, events>>, NEW w \in Workers, NEW task, worker' = [worker EXCEPT ![w] = task], task.scan = worker[w].scan
      PROVE  SameInputs
  <2>1. \A v \in Workers : worker'[v].scan = worker[v].scan
    BY <1>h DEF BlocksTypeOK
  <2> QED BY <1>h, <2>1 DEF SameInputs, HighAwaited
<1>j. ASSUME NEW w \in Workers PROVE Ended(worker[w]).scan = worker[w].scan /\ Ended(worker[w]).pc \in {"idle", "scan"}
  BY <1>a, EndedKept
<1>2. ASSUME NEW w \in Workers, ReadKeys(w) PROVE BlocksRows'
  <2> DEFINE S == IF worker[w].all THEN {i \in images : signer[i] # "none"} ELSE worker[w].todo
             task == [worker[w] EXCEPT !.pc = "verify", !.keys = effectiveVerificationKeys, !.todo = S]
  <2>1. worker' = [worker EXCEPT ![w] = task]
    BY <1>2, ReadKeysStep DEF ReadsKeys
  <2>2. task.pc = "verify" /\ task.next = worker[w].next /\ task.scan = worker[w].scan
    BY <1>a DEF Tasks
  <2> HIDE DEF task
  <2>3. worker'[w] = task /\ \A v \in Workers \ {w} : worker'[v] = worker[v]
    BY <2>1 DEF BlocksTypeOK
  <2>4. UNCHANGED <<images, verdict, policies, exception, found, events, blocks, unrefreshed>> /\ worker[w].pc = "keys"
    BY <1>2 DEF ReadKeys
  <2>5. SameInputs
    BY <1>h, <2>1, <2>2, <2>4
  <2>6. \A v \in Workers : HeadsForRefresh(v) => HeadsForRefresh(v)'
    BY <2>2, <2>3, <2>4 DEF HeadsForRefresh, AfterVerify, effectiveSignaturePolicy
  <2> QED BY <1>c, <2>2, <2>3, <2>4, <2>5, <2>6
<1>3. ASSUME NEW w \in Workers, Verified(w) PROVE BlocksRows'
  <2>1. UNCHANGED <<images, verdict, policies, exception, found, events, blocks, unrefreshed>> /\ worker[w].pc = "verify"
    BY <1>3 DEF Verified
  <2> DEFINE task == IF AfterVerify(worker[w].next) = "refresh" THEN [worker[w] EXCEPT !.pc = "refresh", !.keys = {}] ELSE Ended(worker[w])
  <2>2. worker' = [worker EXCEPT ![w] = task]
    BY <1>3 DEF Verified
  <2>3. task.scan = worker[w].scan /\ (task.pc = "refresh" \/ (AfterVerify(worker[w].next) # "refresh" /\ task.pc \in {"idle", "scan"}))
    <3>1. CASE AfterVerify(worker[w].next) = "refresh"
      BY <1>a, <3>1 DEF Tasks
    <3>2. CASE AfterVerify(worker[w].next) # "refresh"
      BY <1>j, <3>2
    <3> QED BY <3>1, <3>2
  <2> HIDE DEF task
  <2>4. worker'[w] = task /\ \A v \in Workers \ {w} : worker'[v] = worker[v]
    BY <2>2 DEF BlocksTypeOK
  <2>5. SameInputs
    BY <1>h, <2>1, <2>2, <2>3
  <2>6. \A v \in Workers : HeadsForRefresh(v) => HeadsForRefresh(v)'
    BY <2>1, <2>3, <2>4 DEF HeadsForRefresh, AfterVerify, effectiveSignaturePolicy
  <2> QED BY <1>c, <2>1, <2>3, <2>4, <2>5, <2>6
<1>4. ASSUME NEW w \in Workers, refreshRepositoryBlocks(w) PROVE BlocksRows'
  <2> DEFINE task == [worker[w] EXCEPT !.pc = "write", !.due = Computed, !.left = Rest(w)]
  <2>1. worker' = [worker EXCEPT ![w] = task]
    BY <1>4, RefreshStep
  <2>2. task.pc = "write" /\ task.due = Computed /\ task.left = Rest(w) /\ task.scan = worker[w].scan
    BY <1>a DEF Tasks
  <2> HIDE DEF task
  <2>3. worker'[w] = task /\ \A v \in Workers \ {w} : worker'[v] = worker[v]
    BY <2>1 DEF BlocksTypeOK
  <2>4. UNCHANGED <<images, verdict, policies, exception, found, events, blocks>> /\ worker[w].pc = "refresh"
    BY <1>4 DEF refreshRepositoryBlocks
  <2>5. unrefreshed' = {} => \A v \in Workers \ {w} : worker[v].pc = "idle"
    <3>1. CASE Free = Workers \ {w}
      BY <3>1 DEF Free
    <3>2. CASE Free # Workers \ {w}
      <4>1. unrefreshed' = unrefreshed
        BY <1>4, <3>2 DEF refreshRepositoryBlocks
      <4>2. \E v \in Workers \ {w} : Busy(v)
        BY <2>4, <3>2 DEF Free, Busy
      <4>3. Busy(w)
        BY <2>4 DEF Busy
      <4> QED BY <1>b, <4>1, <4>2, <4>3
    <3> QED BY <3>1, <3>2
  <2>6. GoneHasNoRow' /\ ViewsAreNoted'
    BY <2>2, <2>3, <2>4, <2>5 DEF BlocksRows, GoneHasNoRow, ViewsAreNoted
  <2>7. RowsFollow'
    BY <2>2, <2>3 DEF RowsFollow, HeadsForRefresh
  <2>8. WritersFollow'
    <3>1. SameInputs
      BY <1>h, <2>1, <2>2, <2>4
    <3>2. \A i \in images : Fits(Computed[i], i)
      BY ComputedSays DEF Fits, BlocksTypeOK
    <3>3. ASSUME NEW i \in images PROVE Fits(worker[w].due[i], i)'
      <4>1. PICK row : row = Computed[i]
        OBVIOUS
      <4>2. Fits(row, i)
        BY <3>2, <4>1
      <4>3. Fits(row, i)'
        BY <3>1, <4>2, FitsKept
      <4>4. worker'[w].due[i] = row
        BY <2>2, <2>3, <4>1
      <4> QED BY <4>3, <4>4
    <3>4. \A i \in Images : i \notin images => worker'[w].due[i] = {}
      BY <2>2, <2>3, ComputedSays
    <3>5. \A i \in Images : i \notin worker'[w].left => blocks'[i] = worker'[w].due[i]
      <4>1. \A i \in images : i \notin Rest(w) => blocks[i] = Computed[i]
        BY DEF Rest
      <4>2. \A i \in Images : i \notin images => blocks[i] = Computed[i]
        BY ComputedSays DEF BlocksRows, GoneHasNoRow
      <4> QED BY <2>2, <2>3, <2>4, <4>1, <4>2
    <3> HIDE DEF task
    <3>6. ASSUME unrefreshed' = {}, NEW v \in Workers, worker'[v].pc = "write" PROVE v = w
      BY <2>3, <2>5, <3>6
    <3> QED BY <2>4, <3>3, <3>4, <3>5, <3>6 DEF WritersFollow
  <2> QED BY <2>6, <2>7, <2>8 DEF BlocksRows
<1>5. ASSUME NEW w \in Workers, Refreshed(w) PROVE BlocksRows'
  <2> DEFINE task == Ended(worker[w])
  <2>1. worker' = [worker EXCEPT ![w] = task] /\ worker[w].pc = "write" /\ worker[w].left = {}
    BY <1>5 DEF Refreshed
  <2>2. task.scan = worker[w].scan /\ task.pc \in {"idle", "scan"}
    BY <1>j
  <2> HIDE DEF task
  <2>3. worker'[w] = task /\ \A v \in Workers \ {w} : worker'[v] = worker[v]
    BY <2>1 DEF BlocksTypeOK
  <2>4. UNCHANGED <<images, verdict, policies, exception, found, events, blocks, unrefreshed>>
    BY <1>5 DEF Refreshed
  <2>5. SameInputs
    BY <1>h, <2>1, <2>2, <2>4
  <2>6. GoneHasNoRow' /\ ViewsAreNoted'
    BY <2>2, <2>3, <2>4 DEF BlocksRows, GoneHasNoRow, ViewsAreNoted
  <2>7. WritersFollow'
    BY <2>2, <2>3, <2>4, <2>5, FitsKept DEF BlocksRows, WritersFollow
  <2>8. RowsFollow'
    <3>1. ASSUME unrefreshed = {}, NEW i \in images PROVE Fits(blocks[i], i)'
      <4>1. Fits(worker[w].due[i], i) /\ blocks[i] = worker[w].due[i]
        BY <2>1, <3>1 DEF BlocksRows, WritersFollow, BlocksTypeOK
      <4> QED BY <2>4, <2>5, <4>1, FitsKept
    <3> QED BY <2>4, <3>1 DEF RowsFollow
  <2> QED BY <2>6, <2>7, <2>8 DEF BlocksRows
<1>6. ASSUME NEW w \in Workers, Fails(w) PROVE BlocksRows'
  <2>1. unrefreshed' # {} /\ GoneHasNoRow'
    BY <1>6 DEF Fails, BlocksRows, GoneHasNoRow
  <2> QED BY <1>d, <2>1
<1>7. ASSUME NEW w \in Workers, NEW i \in Images, verifyManifestSignatures(w, i) PROVE BlocksRows'
  <2> DEFINE task == [worker[w] EXCEPT !.todo = worker[w].todo \ {i}]
  <2>1. worker' = [worker EXCEPT ![w] = task]
    BY <1>7, VerifyStep
  <2>2. task.pc = "verify" /\ task.next = worker[w].next /\ task.scan = worker[w].scan /\ worker[w].pc = "verify" /\ worker[w].next \in {"nothing", "refresh", "policy"}
    BY <1>a, <1>7 DEF Tasks, verifyManifestSignatures
  <2> HIDE DEF task
  <2>3. worker'[w] = task /\ \A v \in Workers \ {w} : worker'[v] = worker[v]
    BY <2>1 DEF BlocksTypeOK
  <2>4. UNCHANGED <<images, policies, exception, found, events, blocks, unrefreshed>>
    BY <1>7 DEF verifyManifestSignatures
  <2>5. GoneHasNoRow' /\ ViewsAreNoted'
    BY <2>2, <2>3, <2>4 DEF BlocksRows, GoneHasNoRow, ViewsAreNoted
  <2>6. CASE unrefreshed # {}
    BY <1>d, <2>4, <2>5, <2>6
  <2>7. CASE unrefreshed = {}
    <3>1. \A v \in Workers \ {w} : worker'[v].pc = "idle"
      BY <1>b, <2>2, <2>3, <2>7 DEF Busy
    <3>2. WritersFollow'
      BY <2>2, <2>3, <3>1 DEF WritersFollow
    <3>3. ASSUME \A v \in Workers : ~HeadsForRefresh(v)', NEW j \in images PROVE Fits(blocks[j], j)'
      <4>1. ~effectiveSignaturePolicy /\ ~effectiveSignaturePolicy'
        <5>1. ~HeadsForRefresh(w)' /\ worker'[w].pc = "verify" /\ worker'[w].next = worker[w].next
          BY <2>2, <2>3, <3>3
        <5>2. worker[w].next # "nothing"
          BY <2>2, <2>7 DEF BlocksRows, ViewsAreNoted
        <5> QED BY <2>2, <2>4, <5>1, <5>2 DEF HeadsForRefresh, AfterVerify, effectiveSignaturePolicy
      <4>2. \A v \in Workers : ~HeadsForRefresh(v)
        BY <2>2, <2>3, <2>4, <3>3 DEF HeadsForRefresh, AfterVerify, effectiveSignaturePolicy
      <4>3. Fits(blocks[j], j)
        BY <2>7, <4>2 DEF BlocksRows, RowsFollow
      <4>4. HighAwaited => HighAwaited'
        BY <2>2, <2>3, <2>4 DEF HighAwaited
      <4>5. Vulnerable(j) <=> Vulnerable(j)'
        BY <2>4 DEF Vulnerable, violation, effectivePolicy
      <4>6. ~Unsigned(j) /\ ~Unsigned(j)'
        BY <4>1 DEF Unsigned
      <4> QED BY <2>4, <4>3, <4>4, <4>5, <4>6 DEF Fits
    <3> QED BY <2>4, <2>5, <3>2, <3>3 DEF BlocksRows, RowsFollow
  <2> QED BY <2>6, <2>7
<1>8. ASSUME NEW w \in Workers, NEW i \in Images, WriteBlock(w, i) PROVE BlocksRows'
  <2>1. CASE blocks' = blocks /\ unrefreshed' = unrefreshed \union {"failed"}
    <3>1. GoneHasNoRow'
      BY <1>8, <2>1 DEF WriteBlock, BlocksRows, GoneHasNoRow
    <3> QED BY <1>d, <2>1, <3>1
  <2> DEFINE task == [worker[w] EXCEPT !.left = worker[w].left \ {i}]
  <2>2. CASE /\ worker' = [worker EXCEPT ![w] = task] /\ unrefreshed' = unrefreshed
             /\ blocks' = [blocks EXCEPT ![i] = worker[w].due[i]] /\ (i \in images \/ worker[w].due[i] = {})
    <3>1. task.pc = "write" /\ task.due = worker[w].due /\ task.left = worker[w].left \ {i} /\ task.scan = worker[w].scan /\ worker[w].pc = "write"
      BY <1>a, <1>8 DEF Tasks, WriteBlock
    <3> HIDE DEF task
    <3>2. worker'[w] = task /\ \A v \in Workers \ {w} : worker'[v] = worker[v]
      BY <2>2 DEF BlocksTypeOK
    <3>3. UNCHANGED <<images, verdict, policies, exception, found, events>>
      BY <1>8 DEF WriteBlock
    <3>4. SameInputs
      BY <1>h, <2>2, <3>1, <3>3
    <3>5. GoneHasNoRow' /\ ViewsAreNoted'
      BY <2>2, <3>1, <3>2, <3>3 DEF BlocksRows, GoneHasNoRow, ViewsAreNoted, BlocksTypeOK
    <3>6. RowsFollow'
      BY <3>1, <3>2 DEF RowsFollow, HeadsForRefresh
    <3>7. ASSUME unrefreshed = {}, NEW v \in Workers, worker'[v].pc = "write", NEW j \in Images
          PROVE  /\ j \in images => Fits(worker[v].due[j], j)'
                 /\ j \notin images => worker'[v].due[j] = {}
                 /\ j \notin worker'[v].left => blocks'[j] = worker'[v].due[j]
      <4>1. v = w
        BY <1>b, <3>1, <3>2, <3>7 DEF Busy
      <4>2. /\ j \in images => Fits(worker[w].due[j], j)
            /\ j \notin images => worker[w].due[j] = {}
            /\ j \notin worker[w].left => blocks[j] = worker[w].due[j]
        BY <3>1, <3>7 DEF BlocksRows, WritersFollow
      <4>3. worker'[v].due = worker[w].due /\ worker'[v].left = worker[w].left \ {i}
        BY <3>1, <3>2, <4>1
      <4>4. j \in images => Fits(worker[v].due[j], j)'
        BY <3>4, <4>2, <4>3, FitsKept
      <4>5. blocks'[j] = IF j = i THEN worker[w].due[i] ELSE blocks[j]
        BY <2>2 DEF BlocksTypeOK
      <4> QED BY <4>2, <4>3, <4>4, <4>5
    <3> QED BY <2>2, <3>3, <3>5, <3>6, <3>7 DEF BlocksRows, WritersFollow
  <2> QED BY <1>8, <2>1, <2>2, WriteStep
<1>9. ASSUME NEW w \in Workers, NEW i \in Images, NEW what \in {"image", "signature"}, onManifestPushed(w, i, what) PROVE BlocksRows'
  <2>1. Begins(w, "keys", {i}, "policy", FALSE, Scanned(i, what), {}, {}) /\ w \in Free
    BY <1>9, StartForms DEF onManifestPushed
  <2>2. /\ worker'[w].pc = "keys" /\ worker'[w].next = "policy" /\ worker'[w].scan = Scanned(i, what)
        /\ \A v \in Workers \ {w} : worker'[v] = worker[v]
        /\ unrefreshed \subseteq unrefreshed'
        /\ \A v \in Workers : Busy(v) => "overlap" \in unrefreshed'
    <3> DEFINE scanned == Scanned(i, what)
               todo == {i}
    <3>1. Begins(w, "keys", todo, "policy", FALSE, scanned, {}, {}) /\ w \in Free
      BY <2>1
    <3> HIDE DEF scanned, todo
    <3>2. /\ worker'[w].pc = "keys" /\ worker'[w].next = "policy" /\ worker'[w].scan = scanned
          /\ \A v \in Workers \ {w} : worker'[v] = worker[v]
      BY <3>1 DEF Begins, Starts, Task, BlocksTypeOK
    <3>3. unrefreshed \subseteq unrefreshed'
      BY <3>1, BeginsFacts
    <3>4. \A v \in Workers : Busy(v) => "overlap" \in unrefreshed'
      BY <3>1, BeginsFacts
    <3> QED BY <3>2, <3>3, <3>4 DEF scanned
  <2>3. UNCHANGED <<images, verdict, blocks, found, policies, exception>> /\ events' = events \ {<<i, what>>}
    BY <1>9 DEF onManifestPushed
  <2>4. GoneHasNoRow'
    BY <2>3 DEF BlocksRows, GoneHasNoRow
  <2>5. CASE unrefreshed' # {}
    BY <1>d, <2>4, <2>5
  <2>6. CASE unrefreshed' = {}
    <3>1. unrefreshed = {} /\ \A v \in Workers : worker[v].pc = "idle"
      BY <2>2, <2>6 DEF Busy
    <3>2. ViewsAreNoted' /\ WritersFollow'
      BY <2>2, <3>1 DEF ViewsAreNoted, WritersFollow
    <3>3. ASSUME \A v \in Workers : ~HeadsForRefresh(v)', NEW j \in images PROVE Fits(blocks[j], j)'
      <4>1. ~effectiveSignaturePolicy /\ ~effectiveSignaturePolicy'
        BY <2>2, <2>3, <3>3 DEF HeadsForRefresh, AfterVerify, effectiveSignaturePolicy
      <4>2. Fits(blocks[j], j)
        BY <3>1 DEF BlocksRows, RowsFollow, HeadsForRefresh
      <4>3. HighAwaited => HighAwaited'
        <5>1. SUFFICES ASSUME NEW l \in images, found[l] = "High", <<l, "image">> \in events \/ \E v \in Workers : l \in worker[v].scan
                       PROVE  HighAwaited'
          BY DEF HighAwaited
        <5>2. l # Index
          BY <5>1 DEF Orderly, IndexUnscanned
        <5>3. <<l, "image">> \in events
          BY <3>1, <5>1 DEF Orderly, IdleHasNoScan, Busy
        <5>4. CASE l = i /\ what = "image"
          <6>1. l \in worker'[w].scan
            BY <2>2, <5>2, <5>4 DEF Scanned
          <6> QED BY <2>3, <5>1, <6>1 DEF HighAwaited
        <5>5. CASE ~(l = i /\ what = "image")
          BY <2>3, <5>1, <5>3, <5>5 DEF HighAwaited
        <5> QED BY <5>4, <5>5
      <4>4. Vulnerable(j) <=> Vulnerable(j)'
        BY <2>3 DEF Vulnerable, violation, effectivePolicy
      <4>5. ~Unsigned(j) /\ ~Unsigned(j)'
        BY <4>1 DEF Unsigned
      <4> QED BY <2>3, <4>2, <4>3, <4>4, <4>5 DEF Fits
    <3> QED BY <2>3, <2>4, <3>2, <3>3 DEF BlocksRows, RowsFollow
  <2> QED BY <2>5, <2>6
<1>10. ASSUME NEW w \in Workers, NEW i \in Images, NEW result \in {"clean", "High", "failed"}, finishScan(w, i, result) PROVE BlocksRows'
  <2>1. CASE result = "failed"
    BY <1>10, <1>g, <2>1 DEF finishScan
  <2>2. CASE result # "failed"
    BY <1>10, <1>f, <2>2 DEF finishScan
  <2> QED BY <2>1, <2>2
<1>11. ASSUME NEW w \in Workers, startScan(w) PROVE BlocksRows'
  <2> DEFINE scanned == worker[w].scan \intersect images
  <2>1. /\ UNCHANGED <<images, verdict, policies, exception, events, blocks>>
        /\ worker' = [worker EXCEPT ![w] = AtRest] /\ worker[w].pc = "scan"
        /\ found' = [j \in Images |-> IF j \in scanned THEN "none" ELSE found[j]]
        /\ unrefreshed' = unrefreshed \union {"scanning" : j \in {l \in scanned : found[l] = "High"}}
    BY <1>11 DEF startScan
  <2>2. GoneHasNoRow'
    BY <2>1 DEF BlocksRows, GoneHasNoRow
  <2>3. CASE \E l \in scanned : found[l] = "High"
    BY <1>d, <2>1, <2>2, <2>3
  <2>4. CASE \A l \in scanned : found[l] # "High"
    <3>1. unrefreshed' = unrefreshed
      BY <2>1, <2>4
    <3>2. \A l \in images : found'[l] = "High" <=> found[l] = "High"
      BY <2>1, <2>4 DEF BlocksTypeOK
    <3>3. worker'[w] = AtRest /\ \A v \in Workers \ {w} : worker'[v] = worker[v]
      BY <2>1 DEF BlocksTypeOK
    <3>4. HighAwaited => HighAwaited'
      <4>1. SUFFICES ASSUME NEW l \in images, found[l] = "High", <<l, "image">> \in events \/ \E v \in Workers : l \in worker[v].scan
                     PROVE  HighAwaited'
        BY DEF HighAwaited
      <4>2. l \notin worker[w].scan
        BY <2>4, <4>1
      <4> QED BY <2>1, <3>2, <3>3, <4>1, <4>2 DEF HighAwaited
    <3>5. SameInputs
      BY <2>1, <3>2, <3>4 DEF SameInputs
    <3>6. AtRest.pc = "idle"
      BY DEF AtRest
    <3>7. \A v \in Workers : HeadsForRefresh(v) => HeadsForRefresh(v)'
      BY <2>1, <3>3 DEF HeadsForRefresh, AfterVerify, effectiveSignaturePolicy
    <3> QED BY <1>c, <2>1, <3>1, <3>3, <3>5, <3>6, <3>7
  <2> QED BY <2>3, <2>4
<1>12. ASSUME NEW w \in Workers, getAttestationView(w) PROVE BlocksRows'
  <2>1. "viewed" \in unrefreshed'
    <3>1. Begins(w, "keys", Looked, "nothing", FALSE, {}, {}, {"viewed"}) /\ w \in Free
      BY <1>12, StartForms, BlocksAssumption DEF getAttestationView
    <3> QED BY <3>1, BeginsFacts, ZenonT(60)
  <2>2. GoneHasNoRow'
    BY <1>12 DEF getAttestationView, BlocksRows, GoneHasNoRow
  <2> QED BY <1>d, <2>1, <2>2
<1>13. ASSUME NEW w \in Workers, ChangeKeys(w) PROVE BlocksRows'
  BY <1>13, <1>f, <1>g DEF ChangeKeys
<1>14. ASSUME NEW w \in Workers, setPolicy(w) PROVE BlocksRows'
  BY <1>14, <1>f DEF setPolicy
<1>15. ASSUME NEW w \in Workers, ChangeException(w) PROVE BlocksRows'
  BY <1>15, <1>f DEF ChangeException
<1>16. ASSUME NEW w \in Workers, RunJob(w) PROVE BlocksRows'
  BY <1>16, <1>f DEF RunJob
<1>17. ASSUME NEW w \in Workers, transferRepository(w) PROVE BlocksRows'
  <2>1. Begins(w, "refresh", {}, "nothing", FALSE, {}, {"moved"}, {})
    BY <1>17, StartForms, BlocksAssumption
  <2>2. w \in Free /\ UNCHANGED <<images, blocks>>
    BY <1>17 DEF transferRepository
  <2> QED BY <1>e, <2>1, <2>2
<1>18. ASSUME NEW w \in Workers, NEW k \in SignKeys, ChangeMember(w, k) PROVE BlocksRows'
  <2>1. w \in Free /\ UNCHANGED <<images, verdict, blocks, found, policies, exception, events>>
    BY <1>18 DEF ChangeMember
  <2>2. Reverify(w) \/ (UNCHANGED worker /\ unrefreshed \subseteq unrefreshed')
    BY <1>18 DEF ChangeMember, reverifyAfterMembershipChange, NoWorker
  <2> QED BY <1>f, <1>g, <2>1, <2>2
<1>19. ASSUME NEW w \in Workers, NEW i \in Images, reverifyManifestAction(w, i) PROVE BlocksRows'
  <2>1. Begins(w, "keys", Reached(i), "refresh", FALSE, {}, {}, {})
    BY <1>19, StartForms
  <2>2. w \in Free /\ UNCHANGED <<images, blocks>>
    BY <1>19 DEF reverifyManifestAction
  <2> QED BY <1>e, <2>1, <2>2
<1>20. ASSUME NEW i \in Images, PushImage(i) PROVE BlocksRows'
  <2>1. /\ UNCHANGED <<signer, verdict, blocks, found, policies, exception, worker>> /\ i \notin images
        /\ images' = images \union {i} /\ events' = events \union {<<i, "image">>}
        /\ unrefreshed' = unrefreshed \union (IF i = Index THEN {"index"} ELSE {})
    BY <1>20 DEF PushImage, NoWorker
  <2>2. GoneHasNoRow' /\ ViewsAreNoted'
    BY <2>1 DEF BlocksRows, GoneHasNoRow, ViewsAreNoted
  <2>3. CASE i = Index
    BY <1>d, <2>1, <2>2, <2>3
  <2>4. CASE i # Index
    <3>1. HighAwaited => HighAwaited'
      BY <2>1 DEF HighAwaited
    <3>2. \A j : violation(j)' <=> violation(j)
      BY <2>1 DEF violation, effectivePolicy
    <3>3. violation(i) => HighAwaited'
      BY <2>1 DEF violation, HighAwaited
    <3>4. ASSUME NEW row, NEW j \in images, Fits(row, j) PROVE Fits(row, j)'
      <4>1. HighAwaited' \/ (Vulnerable(j) <=> Vulnerable(j)')
        BY <2>1, <3>2, <3>3 DEF Vulnerable
      <4>2. Unsigned(j) <=> Unsigned(j)'
        BY <2>1, <2>4 DEF Unsigned, effectiveSignaturePolicy
      <4> QED BY <2>1, <3>1, <3>4, <4>1, <4>2 DEF Fits
    <3>5. Fits({}, i)'
      <4>1. HighAwaited' \/ ~Vulnerable(i)'
        BY <2>1, <2>4, <3>2, <3>3 DEF Vulnerable
      <4> QED BY <2>1, <4>1 DEF Fits
    <3>6. \A w \in Workers : HeadsForRefresh(w)' <=> HeadsForRefresh(w)
      BY <2>1 DEF HeadsForRefresh, AfterVerify, effectiveSignaturePolicy
    <3>7. blocks[i] = {}
      BY <2>1 DEF BlocksRows, GoneHasNoRow
    <3>8. RowsFollow'
      <4>1. ASSUME unrefreshed = {}, \A w \in Workers : ~HeadsForRefresh(w), NEW j \in images' PROVE Fits(blocks[j], j)'
        <5>1. CASE j = i
          BY <2>1, <3>5, <3>7, <5>1
        <5>2. CASE j \in images
          <6>1. Fits(blocks[j], j)
            BY <4>1, <5>2 DEF BlocksRows, RowsFollow
          <6> QED BY <2>1, <3>4, <5>2, <6>1
        <5> QED BY <2>1, <4>1, <5>1, <5>2
      <4> QED BY <2>1, <2>4, <3>6, <4>1 DEF RowsFollow
    <3>9. WritersFollow'
      <4>1. ASSUME unrefreshed = {}, NEW w \in Workers, worker[w].pc = "write", NEW j \in Images
            PROVE  /\ j \in images' => Fits(worker[w].due[j], j)'
                   /\ j \notin images' => worker[w].due[j] = {}
                   /\ j \notin worker[w].left => blocks[j] = worker[w].due[j]
        <5>1. /\ j \in images => Fits(worker[w].due[j], j)
              /\ j \notin images => worker[w].due[j] = {}
              /\ j \notin worker[w].left => blocks[j] = worker[w].due[j]
          BY <4>1 DEF BlocksRows, WritersFollow
        <5>2. j \in images => Fits(worker[w].due[j], j)'
          BY <2>1, <3>4, <5>1
        <5>3. j = i => Fits(worker[w].due[j], j)'
          BY <2>1, <3>5, <5>1
        <5> QED BY <2>1, <5>1, <5>2, <5>3
      <4> QED BY <2>1, <2>4, <4>1 DEF WritersFollow
    <3> QED BY <2>2, <3>8, <3>9 DEF BlocksRows
  <2> QED BY <2>3, <2>4
<1>21. ASSUME NEW i \in Images, DeleteImage(i) \/ DeleteSignature(i) PROVE BlocksRows'
  <2>1. unrefreshed' # {}
    BY <1>21 DEF DeleteImage, DeleteSignature, NoWorker
  <2>2. GoneHasNoRow'
    BY <1>21 DEF DeleteImage, DeleteSignature, BlocksRows, GoneHasNoRow, BlocksTypeOK
  <2> QED BY <1>d, <2>1, <2>2
<1>23. ASSUME NEW i \in Images, NEW k \in SignKeys, PushSignature(i, k) PROVE BlocksRows'
  BY <1>23, <1>g DEF PushSignature
<1>24. ASSUME NEW k \in SignKeys, deleteUser(k) \/ Join(k) PROVE BlocksRows'
  BY <1>24, <1>g DEF deleteUser, Join, NoWorker
<1>25. CASE ExceptionExpires
  <2>1. unrefreshed' # {} /\ GoneHasNoRow'
    BY <1>25 DEF ExceptionExpires, NoWorker, BlocksRows, GoneHasNoRow
  <2> QED BY <1>d, <2>1
<1> QED
  BY <1>2, <1>3, <1>4, <1>5, <1>6, <1>7, <1>8, <1>9, <1>10, <1>11, <1>12, <1>13, <1>14, <1>15, <1>16, <1>17, <1>18, <1>19,
     <1>20, <1>21, <1>23, <1>24, <1>25 DEF BlocksNext

\* The inductive invariant holds at the start.
LEMMA BlocksInitOK == BlocksInit => BlocksTypeOK /\ Orderly /\ Verdicts /\ BlocksRows
<1> SUFFICES ASSUME BlocksInit PROVE BlocksTypeOK /\ Orderly /\ Verdicts /\ BlocksRows
  OBVIOUS
<1>1. /\ AtRest.pc = "idle" /\ AtRest.scan = {} /\ AtRest \in Tasks /\ AtRest.todo = {}
  BY RestIsTask DEF Task
<1>2. /\ worker = [w \in Workers |-> AtRest] /\ stale = {} /\ unrefreshed = {} /\ events = {} /\ scans = {}
      /\ signer = [i \in Images |-> "none"] /\ verdict = [i \in Images |-> "none"] /\ blocks = [i \in Images |-> {}]
      /\ exception = "none"
      /\ policies = [orgLevel |-> "none", orgSigned |-> FALSE, repoLevel |-> "inherit", repoSigned |-> "inherit"]
  BY DEF BlocksInit
<1>3. PICK i \in Images \ {Index} : images = {i}
  BY DEF BlocksInit
<1>4. found \in [Images -> {"none", "clean", "High"}] /\ found[Index] = "none"
  BY <1>3, BlocksAssumption DEF BlocksInit
<1>5. trust \in Trusts
  <2> DEFINE k == CHOOSE s \in SignKeys : TRUE
  <2>1. trust = [keys |-> SignKeys \ {k}, personal |-> {k}, writers |-> {k}, members |-> TRUE]
    BY DEF BlocksInit
  <2>2. k \in SignKeys
    BY BlocksAssumption
  <2> HIDE DEF k
  <2> QED BY <2>1, <2>2 DEF Trusts
<1>6. BlocksTypeOK
  <2>1. \A w \in Workers : worker[w] = AtRest
    BY <1>2
  <2> QED BY <1>1, <1>2, <1>3, <1>4, <1>5, <2>1 DEF BlocksTypeOK, Statuses, Reasons
<1>7. Orderly
  BY <1>1, <1>2, <1>4 DEF Orderly, OverlapNoted, IndexUnscanned, IdleHasNoScan, Busy
<1>8. Verdicts
  <2>1. \A j \in images : Current(j)
    BY <1>2, <1>6, KeysTyped, SignaturesAssumption DEF Current, BlocksTypeOK
  <2> QED BY <1>1, <1>2, <2>1 DEF Verdicts, UnsignedNotVerified, VerdictsFollow, KeysAreRead
<1>9. BlocksRows
  <2>1. effectivePolicy = "none" /\ ~effectiveSignaturePolicy
    BY <1>2 DEF effectivePolicy, effectiveSignaturePolicy
  <2>2. \A j \in Images : ~Vulnerable(j) /\ ~Unsigned(j)
    BY <2>1 DEF Vulnerable, violation, Unsigned
  <2>3. \A j \in Images : Fits(blocks[j], j)
    BY <1>2, <2>2 DEF Fits
  <2> QED BY <1>1, <1>2, <1>6, <2>3 DEF BlocksRows, ViewsAreNoted, GoneHasNoRow, RowsFollow, WritersFollow, BlocksTypeOK
<1> QED BY <1>6, <1>7, <1>8, <1>9

\* The inductive invariant: types, who is at work, verdicts, rows.
BlocksInv == BlocksTypeOK /\ Orderly /\ Verdicts /\ BlocksRows

\* The inductive invariant holds in every behaviour of PullBlocks.
LEMMA BlocksInvHolds == BlocksSpec => []BlocksInv
<1>1. BlocksInit => BlocksInv
  BY BlocksInitOK DEF BlocksInv
<1>2. BlocksInv /\ [BlocksNext]_blockVars => BlocksInv'
  <2> SUFFICES ASSUME BlocksInv, [BlocksNext]_blockVars PROVE BlocksInv'
    OBVIOUS
  <2>1. CASE BlocksNext
    BY <2>1, TypesKept, OrderlyKept, VerdictsKept, BlocksRowsKept DEF BlocksInv
  <2>2. CASE UNCHANGED blockVars
    <3> USE <2>2 DEF blockVars
    <3>1. BlocksTypeOK'
      BY DEF BlocksInv, BlocksTypeOK
    <3>2. Orderly'
      BY DEF BlocksInv, Orderly, OverlapNoted, IndexUnscanned, IdleHasNoScan, Busy
    <3>3. Verdicts'
      BY SameKeys DEF BlocksInv, Verdicts, UnsignedNotVerified, VerdictsFollow, KeysAreRead, Current, Awaited, Looks
    <3>4. BlocksRows'
      <4>1. SameInputs
        BY DEF SameInputs, HighAwaited
      <4>2. (\A w \in Workers : HeadsForRefresh(w)' <=> HeadsForRefresh(w)) /\ images' = images
        BY DEF HeadsForRefresh, AfterVerify, effectiveSignaturePolicy
      <4> QED BY <4>1, <4>2, FitsKept DEF BlocksInv, BlocksRows, ViewsAreNoted, GoneHasNoRow, RowsFollow, WritersFollow
    <3> QED BY <3>1, <3>2, <3>3, <3>4 DEF BlocksInv
  <2> QED BY <2>1, <2>2
<1> QED BY <1>1, <1>2, PTL DEF BlocksSpec

\* With every worker idle and no event left, the invariant leaves no excuse.
LEMMA BlocksInvSuffices == BlocksInv => BlocksAreCurrent
<1> SUFFICES ASSUME BlocksInv, Quiet, stale = {}, unrefreshed = {}, NEW i \in images
             PROVE  /\ "scan" \in blocks[i] <=> Vulnerable(i)
                    /\ "signature" \in blocks[i] <=> effectiveSignaturePolicy /\ ~Signed(i)
  BY DEF BlocksAreCurrent
<1>1. (\A w \in Workers : worker[w].pc = "idle" /\ worker[w].scan = {}) /\ events = {} /\ images \subseteq Images
  BY DEF BlocksInv, Quiet, Free, Orderly, IdleHasNoScan, Busy, BlocksTypeOK
<1>2. ~HighAwaited /\ \A w \in Workers : ~HeadsForRefresh(w)
  BY <1>1 DEF HighAwaited, HeadsForRefresh
<1>3. Fits(blocks[i], i)
  BY <1>2 DEF BlocksInv, BlocksRows, RowsFollow
<1>4. \A j \in images : verdict[j] = "verified" <=> signer[j] \in effectiveVerificationKeys
  BY <1>1 DEF BlocksInv, Verdicts, VerdictsFollow, Current, Awaited, Looks
<1>5. Unsigned(i) <=> effectiveSignaturePolicy /\ ~Signed(i)
  BY <1>4 DEF Unsigned, Signed
<1> QED BY <1>1, <1>2, <1>3, <1>5 DEF Fits

\* Once everything that started has ended, an image is blocked exactly for the
\* reasons that the keys, policies, scans and exceptions of that moment give,
\* unless an overlap or one of the noted events kept the code from computing
\* them, for any number of images, workers and keys (refreshRepositoryBlocks).
THEOREM BlocksFollow == BlocksSpec => []BlocksAreCurrent
BY BlocksInvHolds, BlocksInvSuffices, PTL

\* PullBlocks keeps its types.
THEOREM BlocksTypeCorrect == BlocksSpec => []BlocksTypeOK
<1>1. BlocksInv => BlocksTypeOK
  BY DEF BlocksInv
<1> QED BY <1>1, BlocksInvHolds, PTL

-----------------------------------------------------------------------------
(* Access. *)

\* What the fields of a situation are.
LEMMA SituationFields ==
    ASSUME NEW s \in Situations
    PROVE  /\ s.role \in OrgRoles \cup {"none"} /\ s.grant \in Permissions \cup {"none"} /\ s.teamGrant \in Permissions \cup {"none"}
           /\ s.proxy \in BOOLEAN /\ s.exists \in BOOLEAN /\ s.visibility \in {"public", "private"}
           /\ s.caller \in Strangers \cup Sessions \cup AccessTokens \cup ServiceAccounts /\ Consistent(s)
BY DEF Situations

\* What the fields of a caller are.
LEMMA CallerFields ==
    ASSUME NEW c \in Strangers \cup Sessions \cup AccessTokens \cup ServiceAccounts
    PROVE  \/ c.kind = "anonymous"
           \/ /\ c.kind = "user" /\ c.isAdmin \in BOOLEAN /\ c.patScope \in {"none", "read", "write"}
              /\ c.limitedTo \in {"any", "here", "elsewhere"} /\ c.list \in Lists
              /\ c.patScope = "none" => c.limitedTo = "any" /\ c.list = "all"
           \/ c.kind = "sa" /\ c.ours \in BOOLEAN /\ c.permission \in Permissions /\ c.list \in Lists
<1>1. CASE c \in Strangers
  BY <1>1 DEF Strangers
<1>2. CASE c \in Sessions
  BY <1>2 DEF Sessions, Lists
<1>3. CASE c \in AccessTokens
  BY <1>3 DEF AccessTokens
<1>4. CASE c \in ServiceAccounts
  BY <1>4 DEF ServiceAccounts
<1> QED BY <1>1, <1>2, <1>3, <1>4

\* The greater of two permissions.
LEMMA Granted ==
    ASSUME NEW a \in Permissions \cup {"none"}, NEW b \in Permissions \cup {"none"}
    PROVE  /\ maxPermission(a, b) = "admin" <=> a = "admin" \/ b = "admin"
           /\ maxPermission(a, b) = "push" <=> (a = "push" \/ b = "push") /\ a # "admin" /\ b # "admin"
           /\ maxPermission(a, b) \in Permissions \cup {"none"}
BY DEF maxPermission, RANK, Permissions

\* What a role gives.
LEMMA RoleGives ==
    ASSUME NEW r \in OrgRoles \cup {"none"}
    PROVE  /\ r = "none" => permissionFromRole(r) = "none" /\ ROLE_REGISTRY_ACTIONS(r) = {}
           /\ r \in {"owner", "admin"} => permissionFromRole(r) = "admin" /\ ROLE_REGISTRY_ACTIONS(r) = Verbs
           /\ r = "member" => permissionFromRole(r) = "push" /\ ROLE_REGISTRY_ACTIONS(r) = {"pull", "push"}
           /\ r = "viewer" => permissionFromRole(r) = "pull" /\ ROLE_REGISTRY_ACTIONS(r) = {"pull"}
           /\ r \in {"owner", "admin", "member", "viewer", "none"}
BY DEF permissionFromRole, ROLE_REGISTRY_ACTIONS, OrgRoles

\* A verb is granted when the caller has it, to a proxy cache only "pull".
LEMMA GrantedVerbs ==
    ASSUME NEW s, NEW v \in Verbs
    PROVE  v \in allowedRepositoryActions(s, Verbs) <=>
              /\ s.proxy => v = "pull"
              /\ \/ s.caller.kind = "anonymous" /\ v \in IfPublic(s)
                 \/ s.caller.kind = "user" /\ v \in AsUser(s)
                 \/ s.caller.kind = "sa" /\ v \in AsServiceAccount(s)
                 \/ s.caller.kind \notin {"anonymous", "user", "sa"} /\ v \in allowedRepositoryActions(s, Verbs)
<1>1. CASE s.caller.kind = "anonymous"
  BY <1>1 DEF allowedRepositoryActions, Verbs
<1>2. CASE s.caller.kind = "user"
  BY <1>2 DEF allowedRepositoryActions, Verbs
<1>3. CASE s.caller.kind = "sa"
  BY <1>3 DEF allowedRepositoryActions, Verbs
<1>4. CASE s.caller.kind \notin {"anonymous", "user", "sa"}
  BY <1>4 DEF allowedRepositoryActions, Verbs
<1> QED BY <1>1, <1>2, <1>3, <1>4

\* What membership gives to a repository that exists.
LEMMA MemberVerbs ==
    ASSUME NEW s \in Situations, s.exists, s.role # "none"
    PROVE  /\ "pull" \in AsMember(s)
           /\ "push" \in AsMember(s) <=> s.role \in {"owner", "admin", "member"} \/ grantedPermission(s) \in {"push", "admin"}
           /\ "delete" \in AsMember(s) <=> s.role \in {"owner", "admin"} \/ grantedPermission(s) = "admin"
<1> DEFINE g == grantedPermission(s)
<1>1. s.role \in {"owner", "admin", "member", "viewer"} /\ g \in Permissions \cup {"none"}
  BY SituationFields, Granted DEF OrgRoles, grantedPermission
<1> HIDE DEF g
<1>2. AsMember(s) = IF g = "admin" THEN Verbs
                    ELSE IF g = "push" THEN ROLE_REGISTRY_ACTIONS(s.role) \cup {"pull", "push"} ELSE ROLE_REGISTRY_ACTIONS(s.role)
  <2>1. CASE g = "admin"
    BY <2>1 DEF AsMember, g
  <2>2. CASE g = "push"
    BY <2>2 DEF AsMember, g
  <2>3. CASE g \notin {"push", "admin"}
    BY <2>3 DEF AsMember, g
  <2> QED BY <2>1, <2>2, <2>3
<1>3. "pull" \in AsMember(s) /\ ("push" \in AsMember(s) <=> s.role \in {"owner", "admin", "member"} \/ g \in {"push", "admin"})
      /\ ("delete" \in AsMember(s) <=> s.role \in {"owner", "admin"} \/ g = "admin")
  <2>1. CASE s.role \in {"owner", "admin"}
    BY <1>2, <2>1 DEF ROLE_REGISTRY_ACTIONS, Verbs
  <2>2. CASE s.role = "member"
    BY <1>2, <2>2 DEF ROLE_REGISTRY_ACTIONS, Verbs
  <2>3. CASE s.role = "viewer"
    BY <1>2, <2>3 DEF ROLE_REGISTRY_ACTIONS, Verbs
  <2> QED BY <1>1, <2>1, <2>2, <2>3
<1> QED BY <1>3 DEF g

\* Somebody without a credential.
LEMMA StrangersAgree ==
    ASSUME NEW s \in Situations, s.exists, s.caller.kind = "anonymous"
    PROVE  Agreement(s)
<1>1. \A v \in Verbs : v \in allowedRepositoryActions(s, Verbs) <=> v = "pull" /\ s.visibility = "public"
  BY GrantedVerbs DEF IfPublic
<1>2. repoFilter(s) <=> s.visibility = "public"
  BY DEF repoFilter
<1>3. ~loadRepo(s).write /\ ~loadRepo(s).delete
  BY DEF loadRepo
<1> QED BY <1>1, <1>2, <1>3 DEF Agreement, Verbs

\* A service account, ours or another organization's, by its list and permission.
LEMMA ServiceAccountsAgree ==
    ASSUME NEW s \in Situations, s.exists, s.caller.kind = "sa"
    PROVE  Agreement(s)
<1>1. /\ s.caller.ours \in BOOLEAN /\ s.caller.permission \in Permissions /\ s.caller.list \in Lists
      /\ ~s.caller.ours => s.caller.list # "listed"
  BY SituationFields, CallerFields DEF Consistent
<1>2. repoFilter(s) <=> s.visibility = "public" \/ (s.caller.ours /\ s.caller.list # "unlisted")
  BY DEF repoFilter
<1>3. \A v \in Verbs : v \in allowedRepositoryActions(s, Verbs) <=> (s.proxy => v = "pull") /\ v \in AsServiceAccount(s)
  BY GrantedVerbs
<1>4. /\ loadRepo(s).write <=> ~s.proxy /\ s.caller.ours /\ s.caller.list # "unlisted" /\ s.caller.permission # "pull"
      /\ loadRepo(s).delete <=> s.caller.ours /\ s.caller.list # "unlisted" /\ s.caller.permission = "admin"
  BY DEF loadRepo
<1>5. CASE ~s.caller.ours
  <2>1. \A v \in Verbs : v \in AsServiceAccount(s) <=> v = "pull" /\ s.visibility = "public"
    BY <1>5 DEF AsServiceAccount, IfPublic
  <2> QED BY <1>2, <1>3, <1>4, <1>5, <2>1 DEF Agreement, Verbs
<1>6. CASE s.caller.ours /\ s.caller.list = "unlisted"
  <2>1. AsServiceAccount(s) = {}
    BY <1>6 DEF AsServiceAccount
  <2> QED BY <1>2, <1>3, <1>4, <1>6, <2>1 DEF Agreement, Verbs
<1>7. CASE s.caller.ours /\ s.caller.list # "unlisted"
  <2>1. AsServiceAccount(s) = OfPermission[s.caller.permission]
    BY <1>7 DEF AsServiceAccount
  <2>2. /\ "pull" \in AsServiceAccount(s) /\ ("push" \in AsServiceAccount(s) <=> s.caller.permission # "pull")
        /\ ("delete" \in AsServiceAccount(s) <=> s.caller.permission = "admin")
    BY <1>1, <2>1 DEF OfPermission, Permissions, Verbs
  <2> QED BY <1>2, <1>3, <1>4, <1>7, <2>2 DEF Agreement, Verbs
<1> QED BY <1>1, <1>5, <1>6, <1>7

\* A person, by session or by access token.
LEMMA UsersAgree ==
    ASSUME NEW s \in Situations, s.exists, s.caller.kind = "user"
    PROVE  Agreement(s)
<1> DEFINE g == grantedPermission(s)
           isAdmin == s.caller.isAdmin
           role == s.role
           member == role # "none"
           scoped == s.caller.patScope = "read"
           restricted == ~restrictionAllows(s)
           pushes == role \in {"owner", "admin", "member"} \/ (member /\ g \in {"push", "admin"})
           manages == role \in {"owner", "admin"} \/ (member /\ g = "admin")
<1>1. /\ s.caller.isAdmin \in BOOLEAN /\ s.role \in OrgRoles \cup {"none"} /\ g \in Permissions \cup {"none"}
      /\ s.caller.patScope \in {"none", "read", "write"} /\ s.proxy \in BOOLEAN
      /\ s.caller.patScope = "none" => restrictionAllows(s)
  BY SituationFields, CallerFields, Granted DEF restrictionAllows, grantedPermission
<1>2. \A v \in Verbs : v \in allowedRepositoryActions(s, Verbs) <=> (s.proxy => v = "pull") /\ v \in AsUser(s)
  BY GrantedVerbs
<1>3. repoFilter(s) <=> (s.visibility = "public" \/ isAdmin \/ member) /\ ~restricted
  BY DEF repoFilter, visibleRepositoriesFilter
<1>4. AsMember(s) = {} <=> ~member
  BY MemberVerbs DEF AsMember
<1>5. /\ "pull" \in AsUser(s) <=> ~restricted /\ (isAdmin \/ member \/ s.visibility = "public")
      /\ "push" \in AsUser(s) <=> ~restricted /\ ~scoped /\ (isAdmin \/ pushes)
      /\ "delete" \in AsUser(s) <=> ~restricted /\ ~scoped /\ (isAdmin \/ manages)
  <2>1. CASE isAdmin
    BY <2>1 DEF AsUser, Verbs
  <2>2. CASE ~isAdmin /\ ~member
    BY <1>4, <2>2 DEF AsUser, IfPublic
  <2>3. CASE ~isAdmin /\ member
    BY <1>4, <2>3, MemberVerbs DEF AsUser
  <2> QED BY <1>1, <2>1, <2>2, <2>3
<1>6. /\ loadRepo(s).manage <=> ~scoped /\ ~restricted /\ (isAdmin \/ manages)
      /\ loadRepo(s).delete <=> ~scoped /\ ~restricted /\ (isAdmin \/ manages)
      /\ loadRepo(s).write <=> ~s.proxy /\ ~scoped /\ ~restricted /\ (isAdmin \/ pushes)
  <2>1. CASE isAdmin
    BY <2>1 DEF loadRepo, Admin, orgRole
  <2>2. CASE ~isAdmin
    BY <1>1, <2>2 DEF loadRepo, Admin, orgRole
  <2> QED BY <1>1, <2>1, <2>2
<1>7. /\ getRepoContext(s).manage <=> isAdmin \/ manages
      /\ getRepoContext(s).delete <=> isAdmin \/ manages
      /\ getRepoContext(s).write <=> isAdmin \/ pushes
  <2>1. CASE isAdmin
    BY <2>1 DEF getRepoContext, effectivePermission, Admin
  <2>2. CASE ~isAdmin /\ ~member
    BY <2>2 DEF getRepoContext, effectivePermission, Admin
  <2>3. CASE ~isAdmin /\ member
    <3>1. effectivePermission(s) = maxPermission(permissionFromRole(role), g)
      BY <2>3 DEF effectivePermission, Admin
    <3>2. permissionFromRole(role) \in Permissions \cup {"none"}
      BY <1>1, RoleGives DEF Permissions, OrgRoles
    <3>3. /\ effectivePermission(s) = "admin" <=> permissionFromRole(role) = "admin" \/ g = "admin"
          /\ effectivePermission(s) = "push" <=> (permissionFromRole(role) = "push" \/ g = "push") /\ permissionFromRole(role) # "admin" /\ g # "admin"
      BY <1>1, <3>1, <3>2, Granted
    <3> HIDE DEF g
    <3>4. permissionFromRole(role) = "admin" <=> role \in {"owner", "admin"}
      BY <1>1, RoleGives DEF OrgRoles
    <3>5. permissionFromRole(role) = "push" <=> role = "member"
      BY <1>1, RoleGives DEF OrgRoles
    <3> QED BY <2>3, <3>3, <3>4, <3>5 DEF getRepoContext
  <2> QED BY <1>1, <2>1, <2>2, <2>3
<1> DEFINE docker == allowedRepositoryActions(s, Verbs)
<1>8. /\ "pull" \in docker <=> "pull" \in AsUser(s)
      /\ "push" \in docker <=> ~s.proxy /\ "push" \in AsUser(s)
      /\ "delete" \in docker <=> ~s.proxy /\ "delete" \in AsUser(s)
  BY <1>2 DEF Verbs
<1>9. s.caller.patScope = "none" => ~scoped /\ ~restricted
  BY <1>1
<1>10. (isAdmin \/ manages => s.visibility = "public" \/ isAdmin \/ member) /\ (isAdmin \/ pushes => s.visibility = "public" \/ isAdmin \/ member)
  OBVIOUS
<1> HIDE DEF docker, isAdmin, manages, pushes, member, scoped, restricted
<1> QED BY <1>3, <1>5, <1>6, <1>7, <1>8, <1>9, <1>10 DEF Agreement, docker

\* lib/api/access.ts and lib/viewer.ts mirror the token service: in every
\* situation the three decide alike about a repository that exists, but for the
\* exceptions that ServicesAgree names.
THEOREM ServicesDecideAlike == AccessInit => ServicesAgree
<1> SUFFICES ASSUME situation \in Situations, situation.exists PROVE Agreement(situation)
  BY DEF AccessInit, ServicesAgree
<1>1. situation.caller.kind \in {"anonymous", "user", "sa"}
  BY SituationFields, CallerFields
<1> QED BY <1>1, StrangersAgree, ServiceAccountsAgree, UsersAgree

\* What is granted of a request is what is granted of everything, as far as it
\* is asked for.
LEMMA GrantedOfRequest ==
    ASSUME NEW s, NEW requested \in SUBSET Verbs
    PROVE  allowedRepositoryActions(s, requested) = requested \cap allowedRepositoryActions(s, Verbs)
BY DEF allowedRepositoryActions

\* The token endpoint: a token carries nothing that was not asked for but
\* "push" next to a pull, nothing the caller may not do, and under a former name
\* nothing but pulls.
THEOREM TokensCarryOnlyGrants == AccessInit => TokensCarryNoMore
<1> SUFFICES ASSUME NEW requested \in SUBSET Verbs
             PROVE  /\ Grants(situation, requested) \subseteq requested \cup (IF "pull" \in requested THEN {"push"} ELSE {})
                    /\ Grants(situation, requested) \subseteq allowedRepositoryActions(situation, Verbs)
                    /\ situation.moved => Grants(situation, requested) \subseteq {"pull"}
  BY DEF TokensCarryNoMore
<1> DEFINE granted == allowedRepositoryActions(situation, requested)
           all == allowedRepositoryActions(situation, Verbs)
<1>1. granted = requested \cap all
  BY GrantedOfRequest
<1>2. allowedRepositoryActions(situation, requested \cap {"pull"}) = requested \cap {"pull"} \cap all
  <2>1. requested \cap {"pull"} \in SUBSET Verbs
    OBVIOUS
  <2> QED BY <2>1, GrantedOfRequest
<1>3. allowedRepositoryActions(situation, {"push"}) = {"push"} \cap all
  <2>1. {"push"} \in SUBSET Verbs
    BY DEF Verbs
  <2> QED BY <2>1, GrantedOfRequest
<1> HIDE DEF all
<1>4. CASE situation.moved
  BY <1>2, <1>4 DEF Grants, all
<1>5. CASE ~situation.moved
  <2>1. Grants(situation, requested)
          = granted \cup (IF "pull" \in granted /\ "push" \notin requested THEN allowedRepositoryActions(situation, {"push"}) ELSE {})
    BY <1>5 DEF Grants
  <2>2. CASE "pull" \in granted /\ "push" \notin requested
    <3>1. Grants(situation, requested) = (requested \cap all) \cup ({"push"} \cap all)
      BY <1>1, <1>3, <2>1, <2>2
    <3> QED BY <1>1, <1>5, <2>2, <3>1 DEF all
  <2>3. CASE ~("pull" \in granted /\ "push" \notin requested)
    <3>1. Grants(situation, requested) = requested \cap all
      BY <1>1, <2>1, <2>3
    <3> QED BY <1>5, <3>1 DEF all
  <2> QED BY <2>2, <2>3
<1> QED BY <1>4, <1>5 DEF all

=============================================================================
