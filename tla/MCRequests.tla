----------------------------- MODULE MCRequests -----------------------------
(* What registryd does with pushes, deletes and lookups: tag rules with the *)
(* matcher they rest on, local staging, and former names.  A behaviour is   *)
(* one of the four parts; the others stay as they begin.                    *)
EXTENDS TagRules, LocalStaging, Redirects, TagGlob, TLC

SE == INSTANCE SequencesExt

CONSTANTS p1, p2, p3, d1, d2, t1, t2, r1, r2, q1, q2, MaxPattern, MaxName, MaxOverlapping

\* Model values serve in several parts, so that few permutations reduce them all.
Three == {p1, p2, p3}
Two == {d1, d2}
TwoTags == {t1, t2}
OneTag == {t1}
OtherTag == {t2}
TwoRepos == {r1, r2}
TwoRequests == {q1, q2}
ShortPatterns == SE!BoundedSeq({"a", "b", "*", "?"}, MaxPattern)
ShortNames == SE!BoundedSeq({"a", "b"}, MaxName)

VARIABLE part

\* Requests overlap up to so many renames; beyond, they follow each other.
OneAtATime == Cardinality({q \in Requests : req'[q] # Nowhere}) <= 1

Others(v) == UNCHANGED <<part, v>>

MCInit ==
    /\ Init /\ StagingInit /\ NamesInit
    /\ \/ part = "glob" /\ GlobInit
       \/ part \in {"rules", "staging", "names"}
          /\ pattern = <<>> /\ name = <<>> /\ p = 0 /\ n = 0 /\ starP = -1 /\ starN = 0 /\ result = "match"

MCNext ==
    \/ part = "rules" /\ Next /\ Others(<<stagingVars, namesVars, globVars>>)
    \/ part = "staging" /\ StagingNext /\ Others(<<vars, namesVars, globVars>>)
    \/ part = "names" /\ NamesNext /\ (OneAtATime \/ renames' <= MaxOverlapping) /\ Others(<<vars, stagingVars, globVars>>)
    \/ part = "glob" /\ GlobNext /\ Others(<<vars, stagingVars, namesVars>>)

Symm == Permutations(Three) \cup Permutations(Two) \cup Permutations(TwoRepos) \cup Permutations(TwoRequests)
=============================================================================
