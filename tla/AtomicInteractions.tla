------------------------- MODULE AtomicInteractions -------------------------
(***************************************************************************)
(* What the service promises its callers: an interaction either takes      *)
(* effect in every store it plans to write, under an identifier no earlier *)
(* interaction wrote under, or leaves no trace -- identifiers included.    *)
(* Without a rollback boundary it may also take effect in part.            *)
(***************************************************************************)
EXTENDS Naturals

CONSTANTS
    Stores,
    Plans   \* the sets of stores an interaction may write to

VARIABLES
    boundary,   \* is there a rollback boundary?
    contents,   \* store -> the rows in it: who wrote, and which stores
    ids         \* the last identifier allocated

vars == <<boundary, contents, ids>>

Init ==
    /\ boundary \in BOOLEAN
    /\ contents = [s \in Stores |-> {}]
    /\ ids = 0

\* One interaction takes effect under the identifier n, in every store S of
\* its plan and in no other.
Perform(n, S) ==
    contents' = [s \in Stores |->
        IF s \in S THEN contents[s] \cup {[id |-> n, plan |-> S]}
        ELSE contents[s]]

\* It takes effect in some of the stores of its plan only, or in none, and its
\* identifier is spent.
PerformPartly(n, S) ==
    /\ ~boundary
    /\ DOMAIN contents' = Stores
    /\ \A s \in Stores :
         \/ contents'[s] = contents[s]
         \/ s \in S /\ contents'[s] = contents[s] \cup {[id |-> n, plan |-> S]}

\* n is fresh, and the counter covers every identifier in use.
Next ==
    /\ UNCHANGED boundary
    /\ \E n \in ids + 1 .. ids' : \E S \in Plans :
         Perform(n, S) \/ PerformPartly(n, S)

Spec == Init /\ [][Next]_vars
=============================================================================
