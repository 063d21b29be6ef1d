---- MODULE SigningKeys ----
(***************************************************************************)
(* Rotation of the keys that sign registry tokens.  Administrators make    *)
(* and retire keys (web/src/lib/signing-keys.ts), every token is signed    *)
(* with the newest one that is not retired (web/src/lib/registry-jwt.ts),  *)
(* and registryd verifies with the rows it read last                       *)
(* (registryd/internal/auth/token.go), which it reads again on a timer and *)
(* when it meets a key it does not know.                                   *)
(*                                                                         *)
(* Time is a tick; what matters of a moment is how many ticks ago it was,  *)
(* counted up to Window + 1 (long ago).                                    *)
(***************************************************************************)
EXTENDS Naturals, Integers, Sequences, Functions

CONSTANTS
    Keys,       \* ids of keys that administrators may make
    FileKey,    \* the key in JWT_PRIVATE_KEY_FILE, which every replica has
    Verifiers,  \* replicas of registryd
    Signers,    \* token requests under way in the web app
    NoKey,
    TTL,        \* TOKEN_TTL_SECONDS in ticks
    Window,     \* KEY_DROP_WINDOW_MS, DefaultDropWindow
    MinRefresh  \* minRefreshInterval

ASSUME KeysAssumption ==
    /\ TTL \in Nat \ {0} /\ Window \in Nat /\ MinRefresh \in Nat
    /\ TTL <= Window /\ MinRefresh <= Window
    /\ FileKey \notin Keys /\ NoKey \notin Keys \cup {FileKey}

VARIABLES
    born,      \* token_signing_keys in the order of activated_at
    gone,      \* ticks since retired_at, or -1 while it is null
    life,      \* ticks left to the longest-lived token signed with a key
    signing,   \* a token request: the key it looked up, ticks left of its exp
    retiring,  \* the key whose retirement has passed its checks
    loaded,    \* dbKeys: the rows a replica verifies with, and their age
    reading    \* RefreshKeys under way: the rows it was given

keyVars == <<born, gone, life, signing, retiring, loaded, reading>>

LongAgo == Window + 1
Older(n) == IF n >= LongAgo THEN LongAgo ELSE n + 1
Born == Range(born)

\* The rows of one query.  "since" is the age of the query and "upto" how
\* many keys there were (upto is not in the code; the properties need it).
Snapshots == [kids : SUBSET Keys, dead : SUBSET Keys, since : 0..LongAgo, upto : Nat]
NoRows == [kids |-> {}, dead |-> {}, since |-> LongAgo, upto |-> 0]
Refreshes == {"poll", "miss"}

KeysTypeOK ==
    /\ born \in Seq(Keys) /\ gone \in [Keys -> -1..LongAgo]
    /\ life \in [Keys -> 0..TTL]
    /\ signing \in [Signers -> [kid : Keys \cup {FileKey, NoKey}, left : 0..TTL]]
    /\ retiring \in Keys \cup {NoKey}
    /\ loaded \in [Verifiers -> Snapshots]
    /\ reading \in [Verifiers \X Refreshes -> Snapshots \cup {NoKey}]

KeysInit ==
    /\ born = <<>> /\ gone = [k \in Keys |-> -1] /\ life = [k \in Keys |-> 0]
    /\ signing = [w \in Signers |-> [kid |-> NoKey, left |-> 0]]
    /\ retiring = NoKey
    /\ loaded = [v \in Verifiers |-> NoRows]
    /\ reading = [x \in Verifiers \X Refreshes |-> NoKey]

----------------------------------------------------------------------------
(* The web app. *)

\* newestActiveKey
newestActiveKey ==
    LET newest == {i \in DOMAIN born : /\ gone[born[i]] = -1
                                       /\ \A j \in DOMAIN born : j > i => gone[born[j]] # -1}
    IN  IF newest = {} THEN NoKey ELSE born[CHOOSE i \in newest : TRUE]

generateSigningKey(k) ==
    /\ k \notin Born
    /\ born' = Append(born, k)
    /\ UNCHANGED <<gone, life, signing, retiring, loaded, reading>>

\* The checks of retireSigningKey, and its UPDATE, which asks once more that
\* the key is not retired.
RetireCheck(k) ==
    /\ retiring = NoKey
    /\ k \in Born /\ gone[k] = -1 /\ k # newestActiveKey
    /\ retiring' = k
    /\ UNCHANGED <<born, gone, life, signing, loaded, reading>>

RetireWrite ==
    /\ retiring # NoKey
    /\ gone' = [gone EXCEPT ![retiring] = IF @ = -1 THEN 0 ELSE @]
    /\ retiring' = NoKey
    /\ UNCHANGED <<born, life, signing, loaded, reading>>

\* activeSigner: the newest active key; the file's when there is none, or
\* the lookup or the decryption fails.
activeSigner(w) ==
    /\ signing[w].kid = NoKey
    /\ \E k \in {newestActiveKey, FileKey} \ {NoKey} :
           signing' = [signing EXCEPT ![w] = [kid |-> k, left |-> TTL]]
    /\ UNCHANGED <<born, gone, life, retiring, loaded, reading>>

\* signRegistryToken: iat and exp were taken before the key was looked up.
signRegistryToken(w) ==
    LET k == signing[w].kid
    IN  /\ k # NoKey
        /\ signing' = [signing EXCEPT ![w] = [kid |-> NoKey, left |-> 0]]
        /\ life' = IF k = FileKey THEN life
                   ELSE [life EXCEPT ![k] = IF @ > signing[w].left THEN @ ELSE signing[w].left]
        /\ UNCHANGED <<born, gone, retiring, loaded, reading>>

----------------------------------------------------------------------------
(* registryd. *)

\* SigningKeysQuery that leaves retired keys out at once.
SigningKeysQuery_Active == {k \in Born : gone[k] = -1}

\* Store.SigningKeys: active keys, and those retired within the window.
SigningKeysQuery == {k \in Born : gone[k] <= Window}

\* keyFor that trusts what was loaded, however long ago.
keyFor_Loaded(v, k) ==
    k = FileKey \/ k \in loaded[v].kids

\* Verifier.keyFor
keyFor(v, k) ==
    \/ k = FileKey
    \/ k \in loaded[v].kids /\ ~(k \in loaded[v].dead /\ gone[k] > Window)

\* refreshOnMiss asks for this: a key it does not know, and rows that are
\* not fresh.
MayRefreshOnMiss(v) ==
    /\ loaded[v].since >= MinRefresh
    /\ \E k \in Keys : life[k] > 0 /\ ~keyFor(v, k)

\* RefreshKeys, first half: by the ticker of RunKeyReload, or after a miss.
RefreshRead(v, f) ==
    /\ reading[<<v, f>>] = NoKey
    /\ f = "miss" => MayRefreshOnMiss(v)
    /\ reading' = [reading EXCEPT ![<<v, f>>] =
           [kids |-> SigningKeysQuery, dead |-> {k \in SigningKeysQuery : gone[k] # -1},
            since |-> 0, upto |-> Len(born)]]
    /\ UNCHANGED <<born, gone, life, signing, retiring, loaded>>

\* Second half: the rows replace what was there, whoever read last.  A query
\* that fails leaves it.
RefreshEnds(v, f) ==
    /\ reading[<<v, f>>] # NoKey
    /\ loaded' \in {loaded, [loaded EXCEPT ![v] = reading[<<v, f>>]]}
    /\ reading' = [reading EXCEPT ![<<v, f>>] = NoKey]
    /\ UNCHANGED <<born, gone, life, signing, retiring>>

KeysTick ==
    /\ gone' = [k \in Keys |-> IF gone[k] = -1 THEN -1 ELSE Older(gone[k])]
    /\ life' = [k \in Keys |-> IF life[k] = 0 THEN 0 ELSE life[k] - 1]
    /\ signing' = [w \in Signers |-> [signing[w] EXCEPT !.left = IF @ = 0 THEN 0 ELSE @ - 1]]
    /\ loaded' = [v \in Verifiers |-> [loaded[v] EXCEPT !.since = Older(@)]]
    /\ reading' = [x \in DOMAIN reading |->
           IF reading[x] = NoKey THEN NoKey ELSE [reading[x] EXCEPT !.since = Older(@)]]
    /\ UNCHANGED <<born, retiring>>

KeysNext ==
    \/ \E k \in Keys : generateSigningKey(k) \/ RetireCheck(k)
    \/ RetireWrite
    \/ \E w \in Signers : activeSigner(w) \/ signRegistryToken(w)
    \/ \E v \in Verifiers, f \in Refreshes : RefreshRead(v, f) \/ RefreshEnds(v, f)
    \/ KeysTick

KeysSpec == KeysInit /\ [][KeysNext]_keyVars

----------------------------------------------------------------------------

\* "Rotation never breaks clients" (signing-keys.ts): a token that has not
\* expired is refused only by a replica whose rows are older than its key, and
\* when that replica reads again it accepts.
RotationKeepsTokens ==
    \A k \in Keys : life[k] > 0 =>
        /\ k \in SigningKeysQuery
        /\ \A v \in Verifiers :
               keyFor(v, k) \/ \A i \in 1..loaded[v].upto : born[i] # k

\* A key retired longer ago than the window is accepted nowhere, except by a
\* replica that has not read the keys since, however refreshes overtake one
\* another.
RetiredKeysAreDropped ==
    \A v \in Verifiers, k \in Keys :
        gone[k] > Window /\ loaded[v].since <= Window => ~keyFor(v, k)
====
