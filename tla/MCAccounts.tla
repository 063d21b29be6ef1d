----------------------------- MODULE MCAccounts -----------------------------
(* Who may do what, and with which credential: access decisions, members,   *)
(* sign-in throttling, credentials, signing keys, and which images the       *)
(* signatures and policies let through.  A behaviour is one of the seven    *)
(* parts; the others stay as they begin.                                    *)
EXTENDS Access, Membership, Logins, Credentials, SigningKeys, PullBlocks, TLC

CONSTANTS q1, q2, i1, i2, i3, c1, c2, k1, k2, v1, w1

TwoPeople == {q1, q2}
ThreeRows == {i1, i2, i3}
TwoCalls == {c1, c2}    \* also the workers of PullBlocks and the clients of Logins
CallSymmetry == Permutations(TwoCalls)
OwnersAndMembers == {"owner", "member"}
TwoKeys == {k1, k2}
OneVerifier == {v1}
OneSigner == {w1}

VARIABLE part

AVisitor == [caller |-> [kind |-> "anonymous"], role |-> "none", grant |-> "none", teamGrant |-> "none",
             proxy |-> FALSE, exists |-> FALSE, visibility |-> "private", moved |-> FALSE]

MCInit ==
    /\ LoginsInit /\ KeysInit
    /\ \/ part = "access" /\ AccessInit
       \/ part \in {"members", "logins", "credentials", "keys", "signatures", "blocks"} /\ situation = AVisitor
    /\ \/ part = "signatures" /\ SignaturesInit
       \/ part # "signatures" /\ artifact = [evidence |-> {}, layers |-> <<>>] /\ scope = [keys |-> {}, identities |-> {}]
    /\ BlocksInit /\ (part # "blocks" => \A i \in Images : found[i] # "High")
    /\ MembershipInit /\ (part # "members" => rows[i1].person = q1)
    /\ CredentialsInit /\ (part # "credentials" => policy = [cap |-> Never, required |-> FALSE])

MCNext ==
    /\ UNCHANGED <<part, situation, artifactVars>>
    /\ \/ part = "members" /\ MembershipNext /\ UNCHANGED <<loginVars, credVars, keyVars, blockVars>>
       \/ part = "logins" /\ LoginsNext /\ UNCHANGED <<memberVars, credVars, keyVars, blockVars>>
       \/ part = "credentials" /\ CredentialsNext /\ UNCHANGED <<memberVars, loginVars, keyVars, blockVars>>
       \/ part = "keys" /\ KeysNext /\ UNCHANGED <<memberVars, loginVars, credVars, blockVars>>
       \/ part = "blocks" /\ BlocksNext /\ UNCHANGED <<memberVars, loginVars, credVars, keyVars>>

mcVars == <<part, situation, memberVars, loginVars, credVars, keyVars, artifactVars, blockVars>>
=============================================================================
