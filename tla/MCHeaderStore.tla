---------------------------- MODULE MCHeaderStore ----------------------------
(* Small instances of HeaderStore for TLC.                                  *)
EXTENDS HeaderStore
==============================================================================
