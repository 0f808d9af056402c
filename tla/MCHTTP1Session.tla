--------------------------- MODULE MCHTTP1Session ---------------------------
(* Small instances of HTTP1Session for TLC.                                 *)
EXTENDS HTTP1Session
==============================================================================
