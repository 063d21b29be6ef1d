---- MODULE Logins ----
(***************************************************************************)
(* The brute-force lock of docker login: web/src/lib/login-throttle.ts,    *)
(* and identify and failed in web/src/app/api/registry/token/route.ts.     *)
(*                                                                         *)
(* One account and the requests that try its password.  An address has a   *)
(* counter of its own with a higher limit; the rules are the same.  Time   *)
(* goes in ticks, LockTicks of them to the window and to the lock; failures *)
(* are counted up to MaxFailures.  Every statement on the table may fail,  *)
(* and the throttle then lets the request pass.                            *)
(***************************************************************************)
EXTENDS Naturals, FiniteSets

CONSTANTS
    Clients,     \* docker login requests in progress
    MaxFailures, \* ACCOUNT_MAX_FAILURES
    LockTicks    \* LOGIN_LOCK_MINUTES and LOGIN_WINDOW_MINUTES

ASSUME LoginsAssumption ==
    IsFiniteSet(Clients) /\ Clients # {} /\ MaxFailures \in Nat \ {0} /\ LockTicks \in Nat \ {0}

VARIABLES
    attempts,   \* login_attempts: failures, ticks since window_start, ticks the lock still holds
    login,      \* requests in progress; "blind" is one whose lookup of the lock failed
    late        \* history: guesses verified since the lock began by requests that
                \* had looked it up

loginVars == <<attempts, login, late>>

NoAttempts == [failures |-> 0, age |-> 0, locked |-> 0]

LoginStates == {"idle", "checked", "blind", "wrong", "lock"}

LoginsTypeOK ==
    /\ attempts.failures \in 0..MaxFailures /\ attempts.age \in 0..LockTicks + 1
    /\ attempts.locked \in 0..LockTicks
    /\ login \in [Clients -> LoginStates]

LoginsInit == attempts = NoAttempts /\ login = [c \in Clients |-> "idle"] /\ late = 0

Advance(c, from, to) == login[c] = from /\ login' = [login EXCEPT ![c] = to]

\* loginLock that never locks.
loginLock_Skipped(c) ==
    /\ Advance(c, "idle", "checked")
    /\ UNCHANGED <<attempts, late>>

\* identify: a locked account is refused before any credential is checked ...
loginLock(c) ==
    /\ attempts.locked = 0
    /\ Advance(c, "idle", "checked")
    /\ UNCHANGED <<attempts, late>>

\* ... but a lookup that fails counts as no lock.
loginLockFails(c) ==
    /\ Advance(c, "idle", "blind")
    /\ UNCHANGED <<attempts, late>>

\* The password is right, and the row is forgotten with its lock, unless that
\* statement fails, which nobody notices ...
clearLoginFailures(c) ==
    /\ \E from \in {"checked", "blind"} : Advance(c, from, "idle")
    /\ \/ attempts' = NoAttempts /\ late' = 0
       \/ UNCHANGED <<attempts, late>>

\* ... or wrong; with two-factor authentication and the like nothing is counted.
identify(c) ==
    /\ \/ Advance(c, "checked", "wrong") /\ late' = (IF attempts.locked > 0 THEN late + 1 ELSE late)
       \/ Advance(c, "blind", "wrong") /\ UNCHANGED late
       \/ (\E from \in {"checked", "blind"} : Advance(c, from, "idle")) /\ UNCHANGED late
    /\ UNCHANGED attempts

\* recordLoginFailure: the failure is counted, in a new window when the old one
\* is over; then, in a statement of its own, the lock.
recordLoginFailure(c) ==
    LET over == attempts.age > LockTicks
        failures == IF over THEN 1 ELSE IF attempts.failures < MaxFailures THEN attempts.failures + 1 ELSE MaxFailures
    IN  /\ Advance(c, "wrong", IF failures >= MaxFailures THEN "lock" ELSE "idle")
        /\ attempts' = [attempts EXCEPT !.failures = failures, !.age = IF over THEN 0 ELSE @]
        /\ UNCHANGED late

lock(c) ==
    /\ Advance(c, "lock", "idle")
    /\ attempts' = [failures |-> 0, age |-> 0, locked |-> LockTicks]
    /\ late' = IF attempts.locked > 0 THEN late ELSE 0

\* failed: an error of either statement is logged, and the request refused.
recordingFails(c) ==
    /\ \E from \in {"wrong", "lock"} : Advance(c, from, "idle")
    /\ UNCHANGED <<attempts, late>>

Minute ==
    /\ attempts' = [attempts EXCEPT !.age = IF @ > LockTicks THEN @ ELSE @ + 1,
                                    !.locked = IF @ > 0 THEN @ - 1 ELSE 0]
    /\ UNCHANGED <<login, late>>

LoginsNext ==
    \/ \E c \in Clients :
         \/ loginLock(c) \/ loginLockFails(c)
         \/ clearLoginFailures(c) \/ identify(c)
         \/ recordLoginFailure(c) \/ lock(c) \/ recordingFails(c)
    \/ Minute

LoginsSpec == LoginsInit /\ [][LoginsNext]_loginVars

----------------------------------------------------------------------------

\* "A locked address or account is refused before any credential is checked, so
\* guessing cannot continue while the lock lasts" (identify): no more guesses
\* are verified under one lock than requests were past the check when it began,
\* not counting requests whose lookup of the lock failed (route.ts:105 takes
\* that for no lock, so the comment is not true of those).
GuessingStops == late <= Cardinality(Clients) - 1
====
