--------------------------------- MODULE MCChat ---------------------------------
(***************************************************************************)
(* Small instances of Chat.  Requests and processes are numbered as they   *)
(* come, which takes the place of a symmetry set: that would be unsound    *)
(* for the liveness properties.                                            *)
(***************************************************************************)
EXTENDS Chat, TLC
===============================================================================
