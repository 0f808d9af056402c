--------------------------- MODULE MCResponseBody ---------------------------
(* Small instances of ResponseBody for TLC.                                 *)
EXTENDS ResponseBody
==============================================================================
