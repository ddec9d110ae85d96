------------------------- MODULE MCOrchestratorRun -------------------------
(***************************************************************************)
(* Instances of OrchestratorRun for TLC.  Specialists and manager have up  *)
(* to three servers each: one can fail to connect or to close between two  *)
(* that do not.                                                            *)
(***************************************************************************)
EXTENDS OrchestratorRun, TLC

MCServers == {<<>>, <<"s1">>, <<"s1", "s2">>, <<"s1", "s2", "s3">>}

============================================================================
