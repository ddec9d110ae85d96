--------------------------- MODULE MCParallelNode ---------------------------
(***************************************************************************)
(* Instances of ParallelNode for TLC.  Three branches on one or two        *)
(* permits: two may wait while a third runs, or one be handed a permit     *)
(* while a second runs, and the third fails, is cancelled or has ended.    *)
(***************************************************************************)
EXTENDS ParallelNode

============================================================================
