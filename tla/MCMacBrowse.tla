---------------------------- MODULE MCMacBrowse ----------------------------
(* Two services of one type and one of another. *)
EXTENDS MacBrowse

CONSTANTS t1, t2, i1, i2, i3

MCTypeOf == [i \in Instances |-> IF i = i3 THEN t2 ELSE t1]
=============================================================================
