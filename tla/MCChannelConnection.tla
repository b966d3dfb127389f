-------------------------- MODULE MCChannelConnection --------------------------
(* Small instances of ChannelConnection; no symmetry, for a liveness property *)
(* is checked.                                                                *)
EXTENDS ChannelConnection
================================================================================
