---------------------------- MODULE MCMacLookup ----------------------------
(* MacLookup for TLC: names for the model values of its configuration.     *)
EXTENDS MacLookup

CONSTANTS h1, h2, x1, x2, a1
=============================================================================
