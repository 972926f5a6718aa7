----------------------------- MODULE MCChannel -----------------------------
(* Channel and its inductive invariant, as the configurations run them.    *)
EXTENDS ChannelFlow
============================================================================
