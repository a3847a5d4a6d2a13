------------------------------ MODULE MCAdapters ------------------------------
(* Small instances of the adapters. *)
EXTENDS Adapters, TLC

CONSTANTS hello, bye

WordCounts == hello :> 1 @@ bye :> 2
=============================================================================
