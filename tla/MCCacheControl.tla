--------------------------- MODULE MCCacheControl ---------------------------
(* Small instances of the cache settings of an exchange for TLC.            *)
EXTENDS RequestCacheControl
==============================================================================
