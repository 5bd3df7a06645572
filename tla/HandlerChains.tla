--------------------------- MODULE HandlerChains ---------------------------
(***************************************************************************)
(* HandlerChainManagerImplement of handlerchainmgr.go: the receive chains  *)
(* of a peer.  Every method holds recvChainGuard, so each is one step.     *)
(* ChainListRecv hands out a cached slice that AddChainRecv and            *)
(* RemoveChainRecv only mark as stale; whoever iterates over an older one  *)
(* goes on with the chains that were there.  RPC extends this module.      *)
(***************************************************************************)
EXTENDS Naturals, FiniteSets, Sequences

CONSTANT MaxChains      \* bound on the calls of AddChainRecv

ASSUME ChainsAssumption == MaxChains \in Nat

VARIABLES
    chainIDAcc,
    recvChainByID,      \* the ids in the map
    recvChainListDirty,
    recvChainList       \* the ids of the cached list, in no order

chainVars == <<chainIDAcc, recvChainByID, recvChainListDirty, recvChainList>>

ChainIDs == 1..MaxChains

ChainsTypeOK ==
    /\ chainIDAcc \in 0..MaxChains
    /\ recvChainByID \subseteq ChainIDs
    /\ recvChainListDirty \in BOOLEAN
    /\ recvChainList \subseteq ChainIDs

ChainsInit ==
    /\ chainIDAcc = 0
    /\ recvChainByID = {}
    /\ recvChainListDirty = FALSE
    /\ recvChainList = {}

\* The id of the new chain is chainIDAcc'.
AddChainRecv ==
    /\ chainIDAcc < MaxChains
    /\ chainIDAcc' = chainIDAcc + 1
    /\ recvChainByID' = recvChainByID \cup {chainIDAcc'}
    /\ recvChainListDirty' = TRUE
    /\ UNCHANGED recvChainList

\* MUTANT: the cached list is not marked.
RemoveChainRecvClean(id) ==
    /\ recvChainByID' = recvChainByID \ {id}
    /\ UNCHANGED <<chainIDAcc, recvChainListDirty, recvChainList>>

RemoveChainRecv(id) ==
    /\ recvChainByID' = recvChainByID \ {id}
    /\ recvChainListDirty' = TRUE
    /\ UNCHANGED <<chainIDAcc, recvChainList>>

\* Rebuild the cache if it is stale; what is returned is recvChainList'.
ChainListRecv ==
    /\ recvChainList' = IF recvChainListDirty THEN recvChainByID ELSE recvChainList
    /\ recvChainListDirty' = FALSE
    /\ UNCHANGED <<chainIDAcc, recvChainByID>>

\* A list that is not marked stale is the map: no message misses a chain that
\* was added before it was read, or meets one removed before.
CacheIsCurrent == recvChainListDirty \/ recvChainList = recvChainByID

=============================================================================
