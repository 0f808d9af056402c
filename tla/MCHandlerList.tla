---------------------------- MODULE MCHandlerList ----------------------------
(* Small instances of HandlerList for TLC.                                  *)
EXTENDS HandlerList
==============================================================================
