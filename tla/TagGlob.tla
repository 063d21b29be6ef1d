------------------------------ MODULE TagGlob ------------------------------
(***************************************************************************)
(* MatchTagGlob of internal/store/tagrules.go, which decides whether a tag *)
(* rule covers a tag: the loop as a state machine, one action per case of  *)
(* its switch, and what it should compute.  (web/src/lib/tag-rules-shared  *)
(* .ts has the same loop.)  Positions count from 0 as in the code.         *)
(***************************************************************************)
EXTENDS Integers, Sequences

CONSTANTS
    Patterns,  \* patterns to match: sequences of literals, "*" and "?"
    TagNames      \* tag names to match: sequences of literals

\* Tag names have no wildcards (tagRe).
ASSUME GlobAssumption ==
    Patterns \subseteq Seq(STRING) /\ \A t \in TagNames : t \in Seq(STRING) /\ \A i \in 1 .. Len(t) : t[i] \notin {"*", "?"}

VARIABLES
    pattern, name,  \* the arguments
    p, n,           \* where the match has got to
    starP, starN,   \* the last star (-1 if none) and where its run ends
    result          \* "running", "match" or "mismatch"

globVars == <<pattern, name, p, n, starP, starN, result>>

GlobInit ==
    /\ pattern \in Patterns
    /\ name \in TagNames
    /\ p = 0 /\ n = 0
    /\ starP = -1 /\ starN = 0
    /\ result = "running"

GlobRunning == result = "running" /\ n < Len(name)

\* pattern[p], of which the code asks only while p < len(pattern).
AtPattern(c) == p < Len(pattern) /\ pattern[p + 1] = c

Literal == AtPattern("?") \/ AtPattern(name[n + 1])

MatchOne ==
    /\ GlobRunning
    /\ Literal
    /\ p' = p + 1
    /\ n' = n + 1
    /\ UNCHANGED <<pattern, name, starP, starN, result>>

\* Mutant: a star matches at least one character.
Star_NonEmpty ==
    /\ GlobRunning
    /\ ~Literal
    /\ AtPattern("*")
    /\ starP' = p
    /\ starN' = n
    /\ p' = p + 1
    /\ n' = n + 1
    /\ UNCHANGED <<pattern, name, result>>

\* Remember the star and try the rest with zero characters first.
Star ==
    /\ GlobRunning
    /\ ~Literal
    /\ AtPattern("*")
    /\ starP' = p
    /\ starN' = n
    /\ p' = p + 1
    /\ UNCHANGED <<pattern, name, n, result>>

\* Give the last star one character more.
Backtrack ==
    /\ GlobRunning
    /\ ~Literal /\ ~AtPattern("*")
    /\ starP >= 0
    /\ p' = starP + 1
    /\ starN' = starN + 1
    /\ n' = starN + 1
    /\ UNCHANGED <<pattern, name, starP, result>>

GiveUp ==
    /\ GlobRunning
    /\ ~Literal /\ ~AtPattern("*")
    /\ starP < 0
    /\ result' = "mismatch"
    /\ UNCHANGED <<pattern, name, p, n, starP, starN>>

\* The name is used up: what is left of the pattern must be stars.
TrailingStar ==
    /\ result = "running" /\ n = Len(name)
    /\ AtPattern("*")
    /\ p' = p + 1
    /\ UNCHANGED <<pattern, name, n, starP, starN, result>>

Return ==
    /\ result = "running" /\ n = Len(name)
    /\ ~AtPattern("*")
    /\ result' = IF p = Len(pattern) THEN "match" ELSE "mismatch"
    /\ UNCHANGED <<pattern, name, p, n, starP, starN>>

GlobNext == MatchOne \/ Star \/ Backtrack \/ GiveUp \/ TrailingStar \/ Return

GlobSpec == GlobInit /\ [][GlobNext]_globVars

\* The loop of a call that is running goes on.
GlobFairSpec == GlobSpec /\ WF_globVars(GlobNext)

-----------------------------------------------------------------------------
(* Properties *)

\* What matching means, with no search: the pattern from position i on covers
\* the name from position j on when the name can be cut into one piece for each
\* character of the pattern, the piece of a star as long as it likes, the others
\* of the one character that they stand for.
Starless(a, b) == \A k \in a + 1 .. b : pattern[k] # "*"

Cuts(i, j) ==
    {cut \in [i .. Len(pattern) -> j .. Len(name)] :
        /\ cut[i] = j /\ cut[Len(pattern)] = Len(name)
        /\ \A a \in i .. Len(pattern) : \A b \in a .. Len(pattern) :
              cut[a] <= cut[b] /\ (Starless(a, b) => cut[b] - cut[a] = b - a)
        /\ \A a \in i .. Len(pattern) - 1 :
              pattern[a + 1] = "*" \/ pattern[a + 1] = "?" \/ pattern[a + 1] = name[cut[a] + 1]}

Covers(i, j) == Cuts(i, j) # {}

\* "`*` matches any run of characters (including none), `?` exactly one, and
\* everything else is literal" (tagrules.go:36): the one star the loop
\* remembers is enough to decide every pattern.
MatchesByDefinition ==
    result # "running" => (result = "match" <=> Covers(0, 0))

\* What the loop has passed is settled: if the pattern covers the name at
\* all, then so it does from here, or from a longer run of the last star.
NothingMissed ==
    result = "running" /\ Covers(0, 0) =>
      \/ Covers(p, n)
      \/ starP >= 0 /\ \E k \in starN + 1 .. Len(name) : Covers(starP + 1, k)

\* Every round of the loop gets on: the last star's run grows, or it stays and
\* the two positions together advance.  Both are bounded by the lengths, so
\* there are at most (Len(name) + 1) * (Len(pattern) + Len(name) + 1) rounds.
RoundsAdvance == [][
    result' = "running" =>
        /\ starN' <= Len(name) /\ p' + n' <= Len(pattern) + Len(name)
        /\ starN' > starN \/ (starN' = starN /\ p' + n' > p + n)
    ]_globVars

\* The loop comes to an end, however often it backtracks.
Terminates == <>(result # "running")
=============================================================================
