------------------------------ MODULE MCServer ------------------------------
(***************************************************************************)
(* Two requests for one connection: the second waits while the first has   *)
(* it, and is turned away when the pool is closed meanwhile.               *)
(***************************************************************************)
EXTENDS ServerProperties
=============================================================================
