---------------------------- MODULE MCRequestBody ----------------------------
(* Small instances of RequestBody for TLC.                                  *)
EXTENDS RequestBody

(* Data that looks like the framing around it.                              *)
SomeChunks == {<<"x">>, <<"CR", "LF">>, <<"0", "CR", "x">>}
(* Size lines of an even and of an odd length, with zeros and extensions.   *)
SomeSizeLines == {<<"1">>, <<"0", "1">>, <<"2">>, <<"3", ";", "x">>,
                  <<"0">>, <<"0", "0", ";", "x">>}
(* The next request looks like another chunk.                               *)
SomeRequest == <<"1", "CR">>
==============================================================================
