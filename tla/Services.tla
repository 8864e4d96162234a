------------------------------ MODULE Services ------------------------------
(***************************************************************************)
(* The services around the commands and the databases: commands that ask   *)
(* several workers (CrossWorker), commands that block (BlockingLists),     *)
(* SCAN (Scans), eviction with RocksDB (TieredStore), the RDB file         *)
(* (Snapshots), the receive buffer of a connection (RespStream) and        *)
(* publish/subscribe (PubSub).  They share no variable of the program;     *)
(* each behaviour exercises the one its focus names.                       *)
(***************************************************************************)
EXTENDS CrossWorker, BlockingLists, Scans, TieredStore, Snapshots, RespStream, PubSub

VARIABLE focus

Unused ==
    LET c == CHOOSE c \in Configs : TRUE IN Append(c, CHOOSE t \in BoxTypes : TRUE)

AnyBox == CHOOSE t \in SnapBoxTypes : TRUE

serviceVars == <<focus, gatherVars, blockingVars, scanVars, tierVars, snapVars, conn, pubVars>>

ServicesInit ==
    /\ focus \in {"gather", "block", "scan", "tier", "rdb", "resp", "pubsub"}
    /\ GatherInit
    /\ BlockingInit
    /\ PubSubInit
    /\ \/ focus = "scan" /\ ScanInit
       \/ focus # "scan" /\ ScanInit /\ present = {}
    /\ \/ focus = "tier" /\ TierInit
       \/ focus # "tier" /\ TierInit /\ tierConfig = Unused
    /\ \/ focus = "rdb" /\ SnapInit
       \/ focus # "rdb" /\ SnapInit /\ snap_box = AnyBox
    /\ \/ focus = "resp" /\ RespInit
       \/ focus # "resp" /\ conn = Nil

ServicesNext ==
    /\ UNCHANGED focus
    /\ \/ focus = "gather" /\ GatherNext /\ UNCHANGED <<blockingVars, scanVars, tierVars, snapVars, conn, pubVars>>
       \/ focus = "block" /\ BlockingNext /\ UNCHANGED <<gatherVars, scanVars, tierVars, snapVars, conn, pubVars>>
       \/ focus = "scan" /\ ScanNext /\ UNCHANGED <<gatherVars, blockingVars, tierVars, snapVars, conn, pubVars>>
       \/ focus = "tier" /\ TierNext /\ UNCHANGED <<gatherVars, blockingVars, scanVars, snapVars, conn, pubVars>>
       \/ focus = "rdb" /\ SnapNext /\ UNCHANGED <<gatherVars, blockingVars, scanVars, tierVars, conn, pubVars>>
       \/ focus = "resp" /\ RespNext /\ UNCHANGED <<gatherVars, blockingVars, scanVars, tierVars, snapVars, pubVars>>
       \/ focus = "pubsub" /\ PubSubNext /\ UNCHANGED <<gatherVars, blockingVars, scanVars, tierVars, snapVars, conn>>

ServicesSpec == ServicesInit /\ [][ServicesNext]_serviceVars /\ GatherFairness

=============================================================================
