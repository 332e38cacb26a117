--------------------------- MODULE MCScriptBroker ---------------------------
(* Two calls and a script that tries up to three; lines of one or two units,  *)
(* of which a child may send five.                                           *)
EXTENDS ScriptBroker
=============================================================================
