------------------------------ MODULE MCRunApi ------------------------------
(***************************************************************************)
(* Instances of RunApi for TLC.  Two requests and a store for one run: the *)
(* second evicts the first at any point of it.  Three events of a run are  *)
(* kept, and the longest runs report more.                                 *)
(***************************************************************************)
EXTENDS RunApi

============================================================================
