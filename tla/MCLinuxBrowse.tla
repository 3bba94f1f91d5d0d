--------------------------- MODULE MCLinuxBrowse ---------------------------
(***************************************************************************)
(* Two types.  The first has a service on both IP protocols, i1 and i2:    *)
(* two Avahi items with one identity.  In the injective world every item   *)
(* has an identity of its own.                                             *)
(***************************************************************************)
EXTENDS LinuxBrowse

CONSTANTS t1, t2, i1, i2, i3, s1, s2, s3

MCTypeOf == [i \in Instances |-> IF i = i3 THEN t2 ELSE t1]

DualStackIdentity == [i \in Instances |-> IF i = i3 THEN s2 ELSE s1]

InjectiveIdentity == [i \in Instances |-> CASE i = i1 -> s1 [] i = i2 -> s3 [] i = i3 -> s2]
=============================================================================
