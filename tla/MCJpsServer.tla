----------------------------- MODULE MCJpsServer -----------------------------
(* Small instances of JpsServer for TLC.                                    *)
EXTENDS JpsServer
==============================================================================
