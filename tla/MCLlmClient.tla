---------------------------- MODULE MCLlmClient ----------------------------
(* LlmClient for TLC: the constants are given in the configuration.         *)
EXTENDS LlmClient
=============================================================================
