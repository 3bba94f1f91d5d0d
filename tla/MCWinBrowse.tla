---------------------------- MODULE MCWinBrowse ----------------------------
(* Two services of a local type, one of another type, local or remote. *)
EXTENDS WinBrowse

CONSTANTS t1, t2, i1, i2, i3, remote

MCTypeOf == [i \in Instances |-> IF i = i3 THEN t2 ELSE t1]

AllLocal == [t \in Types |-> Local]
TwoDomains == [t \in Types |-> IF t = t2 THEN remote ELSE Local]
=============================================================================
