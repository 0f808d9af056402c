--------------------------- MODULE MCCodingPipes ---------------------------
(* Small instances of CodingPipes for TLC.                                  *)
EXTENDS CodingPipes
==============================================================================
