---------------------------- MODULE MCContracts -----------------------------
(***************************************************************************)
(* The four contracts that call no other, and the programs that follow the  *)
(* leaves of the chain.                                                    *)
(*   tree        the tree, of 2 ^ 3 leaves, whose ring of 3 roots wraps    *)
(*               around twice                                              *)
(*   vault       the fee vault, whose relayers share one token so that     *)
(*               one's claim may touch the other's                         *)
(*   registry    the relayers' bonds                                       *)
(*   treasury    the treasury                                              *)
(*   indexer     the orderbook's indexer, behind replicas that lag         *)
(*   scan, lag   the mobile scanner through reorganisations, and its       *)
(*               checkpoint behind replicas that lag                       *)
(*   sync        the wallet's notes on top of the scanner, on a chain that *)
(*               only grows                                                *)
(* Those parts share nothing but the chain, so each is explored beside     *)
(* others that stand still; a behaviour stays where it starts.             *)
(***************************************************************************)
EXTENDS IncrementalMerkleTree, FeeVault, RelayerRegistry, Treasury, LeafIndexer, NoteSync

VARIABLE situation

followVars == <<leafChainVars, indexerVars, scanVars, syncVars>>
all == <<vars, vaultAndClock, registryVars, treasuryVars, followVars, situation>>

(* The synchronisation with the constants of its situation.                *)
Sync == INSTANCE NoteSync WITH CONFIRMATIONS <- 1, MaxHeight <- 4

MCInit ==
    /\ situation \in {"tree", "vault", "registry", "treasury", "indexer", "scan", "lag", "sync"}
    /\ Init /\ VaultStart /\ RegistryInit /\ TreasuryInit /\ SyncInit /\ IndexerInit
    /\ situation # "registry" => bondToken = Native
    /\ lag = IF situation \in {"indexer", "lag"} THEN MaxLag ELSE 0

ContractStep ==
    /\ \/ situation = "tree" /\ Next /\ UNCHANGED <<vaultAndClock, registryVars, treasuryVars>>
       \/ situation = "vault" /\ VaultNext /\ UNCHANGED <<vars, registryVars, treasuryVars>>
       \/ situation = "registry" /\ RegistryNext /\ UNCHANGED <<vars, vaultVars, treasuryVars>>
       \/ situation = "treasury" /\ TreasuryNext /\ UNCHANGED <<vars, vaultAndClock, registryVars>>
    /\ UNCHANGED followVars

FollowerStep ==
    /\ \/ situation = "indexer" /\ IndexerNext /\ UNCHANGED <<scanVars, syncVars>>
       \/ situation \in {"scan", "lag"} /\ ScanNext /\ UNCHANGED <<indexerVars, syncVars>>
       \/ situation = "sync" /\ Sync!SyncNext /\ UNCHANGED <<reorgs, indexerVars>>
    /\ UNCHANGED <<vars, vaultAndClock, registryVars, treasuryVars>>

MCNext == (ContractStep \/ FollowerStep) /\ UNCHANGED situation

(* The fairness of the specifications, each in its situation.              *)
Indexing(A) == situation = "indexer" /\ A
Scanning(A) == situation = "scan" /\ A
Syncing(A) == situation = "sync" /\ A /\ UNCHANGED syncVars

MCFairness ==
    /\ VaultFairness
    /\ WF_registryAll(situation = "registry" /\ Tick /\ UNCHANGED registryVars)
    /\ \A o \in Operators : WF_registryAll(situation = "registry" /\ executeExit(o))
    /\ WF_indexAll(Indexing(LeafBlock /\ UNCHANGED indexerVars))
    /\ WF_indexAll(Indexing(StartIndexPass)) /\ WF_indexAll(Indexing(Fetch))
    /\ WF_indexAll(Indexing(Upsert)) /\ WF_indexAll(Indexing(SetCursor))
    /\ WF_scanAll(Scanning(StartScan)) /\ WF_scanAll(Scanning(ScanConfirmed))
    /\ WF_scanAll(Scanning(ScanTail)) /\ WF_scanAll(Scanning(Expire))
    /\ WF_syncAll(Syncing(Sync!StartScan)) /\ WF_syncAll(Syncing(Sync!ScanConfirmed))
    /\ WF_syncAll(Syncing(Sync!ScanTail)) /\ WF_syncAll(Syncing(Expire))
    /\ WF_syncAll(situation = "sync" /\ SyncStart) /\ WF_syncAll(situation = "sync" /\ SyncWrite)
    /\ SF_syncAll(situation = "sync" /\ SyncLeaves)

MCSpec == MCInit /\ [][MCNext]_all /\ MCFairness

(* The types of the vault's, the registry's and the treasury's state.      *)
TypesOK == VaultTypeOK /\ RegistryTypeOK /\ TreasuryTypeOK

(* Operators leave by the rules: no call undoes an exit or a removal, and  *)
(* every bond of one who leaves is paid in the end.                        *)
BondsComeBack == RemovalSticks /\ BondReturns

(* The followers catch up with a chain that settles: a leaf that has its   *)
(* confirmations is served, the scanner's result becomes the chain's       *)
(* leaves, and a stored note whose leaf is there becomes active.           *)
FollowersCatchUp ==
    /\ (situation = "indexer") => EveryLeafServed
    /\ (situation = "scan") => SelfHeals
    /\ LandedNoteBecomesActive
=============================================================================
