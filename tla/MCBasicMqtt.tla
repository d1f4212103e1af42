----------------------------- MODULE MCBasicMqtt -----------------------------
(***************************************************************************)
(* BasicMqtt with a mandatory setting followed by an optional one.         *)
(***************************************************************************)
EXTENDS BasicMqtt

MCSettings == <<"ip", "user">>
=============================================================================
