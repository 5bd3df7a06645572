--------------------------- MODULE SessionManager ---------------------------
(***************************************************************************)
(* SessionManagerImplement of sesmgr.go: the sessions of a peer by their   *)
(* ids.  Every method holds sesMapGuard, so each is one step.  Add counts  *)
(* sesIDAcc up until it meets an id that is free, for it may have wrapped  *)
(* around; after totalTryCount ids that are all taken it uses the last one *)
(* and overwrites the session there.  The 64 bits of an id are scaled down *)
(* to IDSpace values and the 100 of totalTryCount to a constant.           *)
(***************************************************************************)
EXTENDS Naturals, FiniteSets

CONSTANTS
    Sessions,           \* the sessions that may be added
    IDSpace,            \* number of different ids, 2^64 in the code
    totalTryCount       \* ids Add looks at, 100 in the code

ASSUME ManagerAssumption ==
    /\ IsFiniteSet(Sessions)
    /\ IDSpace \in Nat \ {0}
    /\ totalTryCount \in 1..IDSpace

VARIABLES
    sesMap,             \* from the ids in use to their sessions
    sesIDAcc,
    id,                 \* the id each session has been given
    crowded             \* history: Add has found totalTryCount sessions here

managerVars == <<sesMap, sesIDAcc, id, crowded>>

IDs == 0..(IDSpace - 1)

ManagerInit ==
    /\ sesMap = [i \in {} |-> i]
    /\ sesIDAcc = 0
    /\ id = [s \in Sessions |-> 0]
    /\ crowded = FALSE

SessionCount == Cardinality(DOMAIN sesMap)

\* What VisitSession visits.
Managed == {sesMap[i] : i \in DOMAIN sesMap}

\* The id the k-th turn of the loop in Add looks at.
Candidate(k) == (sesIDAcc + k) % IDSpace

Taken(k) == Candidate(k) \in DOMAIN sesMap

\* MUTANT: the id is not looked up.
FirstFreeBlind == Candidate(1)

\* The id Add ends up with: the first that is free, or else the last.
FirstFree ==
    Candidate(CHOOSE k \in 1..totalTryCount : /\ ~Taken(k) \/ k = totalTryCount
                                              /\ \A j \in 1..(k - 1) : Taken(j))

Add(s) ==
    /\ sesIDAcc' = FirstFree
    /\ id' = [id EXCEPT ![s] = FirstFree]
    /\ sesMap' = [i \in DOMAIN sesMap \cup {FirstFree} |->
                    IF i = FirstFree THEN s ELSE sesMap[i]]
    /\ crowded' = (crowded \/ SessionCount >= totalTryCount)

Remove(s) ==
    /\ sesMap' = [i \in DOMAIN sesMap \ {id[s]} |-> sesMap[i]]
    /\ UNCHANGED <<sesIDAcc, id, crowded>>

=============================================================================
