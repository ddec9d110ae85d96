---------------------------- MODULE MCDeveloperUi ----------------------------
(***************************************************************************)
(* Instances of DeveloperUi for TLC: one session over two APIs, with two   *)
(* submissions among three interactions, so that the second may cut the    *)
(* first one's stores short, fail after it, or go to the other API.        *)
(***************************************************************************)
EXTENDS DeveloperUi

============================================================================
