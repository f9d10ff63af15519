---------------------------- MODULE MCLlmClient ----------------------------
(***************************************************************************)
(* The client on a small instance, two failures in a row arming a cool-down*)
(* of two ticks, beside two saves of its settings and an init.             *)
(***************************************************************************)
EXTENDS Settings, TLC

CONSTANTS s1, s2
Symmetries == Permutations({s1, s2})
=============================================================================
