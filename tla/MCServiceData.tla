--------------------------- MODULE MCServiceData ---------------------------
(* TxtRecords and Identity for TLC: what the crate makes of the data of a  *)
(* service. Neither part reads the other's state, so their inputs are      *)
(* varied one part at a time.                                              *)
EXTENDS TxtRecords, Identity

CONSTANTS n, m, http, tcp, local, corp

MCNames == {<<n>>, <<n, Dot, m>>, <<n, Dot>>, <<n, Dot, http, Dot, tcp, Dot, local>>}
MCTypes == {<<http, tcp>>}
MCDomains == {<<local>>, <<corp, local>>, <<m, corp, local>>}

NoTxt == buf = <<>> /\ i = 0 /\ records = <<>> /\ parsing = FALSE /\ sent = <<>>
NoService ==
  /\ platform = "linux"
  /\ asked = [all |-> FALSE, ifc |-> 0]
  /\ svc = [name |-> <<n>>, type |-> <<http, tcp>>, domain |-> <<local>>, ifc |-> 1]
  /\ stage = "refused"
  /\ browse = Unset /\ event = Unset /\ removed = Unset /\ query = Unset

Init == (TxtInit /\ NoService) \/ (IdInit /\ NoTxt)

Next == (TxtNext /\ UNCHANGED idVars) \/ (IdNext /\ UNCHANGED txtVars)

Spec == Init /\ [][Next]_<<txtVars, idVars>>
=============================================================================
