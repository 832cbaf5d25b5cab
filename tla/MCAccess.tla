------------------------------ MODULE MCAccess ------------------------------
(***************************************************************************)
(* How a client gets at a repository, for TLC: the requests it makes       *)
(* (MCStorage), the index it loads to find chunks (MCIndexCache) and the   *)
(* mount that asks for them (MCMount).  Each takes the one below it as     *)
(* given, with what it may answer: one of the three is at work, the others *)
(* have nothing to do.                                                     *)
(***************************************************************************)
EXTENDS MCIndexCache, MCStorage, MCMount

VARIABLE side

NoReads == Init /\ mode = "uncached"
NoRequests == StorageInit /\ job = Idle /\ backend = "atomic" /\ Stored = {}

AccessInit ==
    \/ side = "index" /\ Init /\ NoRequests /\ MountInit
    \/ side = "requests" /\ NoReads /\ StorageInit /\ MountInit
    \/ side = "mount" /\ NoReads /\ NoRequests /\ MountInit
AccessNext ==
    /\ \/ side = "index" /\ Next /\ UNCHANGED <<storageVars, mountVars>>
       \/ side = "requests" /\ StorageNext /\ UNCHANGED <<vars, mountVars>>
       \/ side = "mount" /\ MountNext /\ UNCHANGED <<vars, storageVars>>
    /\ UNCHANGED side
AccessSpec == AccessInit /\ [][AccessNext]_<<vars, storageVars, mountVars, side>>
=============================================================================
