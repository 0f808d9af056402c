---------------------------- MODULE MCRangeHeader ----------------------------
(* Small instances of RangeHeader for TLC.                                  *)
EXTENDS RangeHeader

(* Offsets from both ends of the data.                                      *)
SomeOffsets == -2..3
==============================================================================
