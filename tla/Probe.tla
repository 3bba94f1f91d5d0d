------------------------------- MODULE Probe -------------------------------
(***************************************************************************)
(* What ServiceResolverBuilder::resolve promises (src/browse.rs), whatever *)
(* the platform: resolving a known service instance now, as a probe of     *)
(* whether it still responds.                                              *)
(*                                                                         *)
(*   - a call ends once, and what happens afterwards does not change how;  *)
(*   - it answers "ok" only if the service responded at some moment of the *)
(*     call, and "failed" only if it did not at some moment, or if the     *)
(*     platform itself failed;                                             *)
(*   - it answers "timeout" only if it was given one.                      *)
(***************************************************************************)
CONSTANT Calls

VARIABLES
  alive,    (* the service responds                                        *)
  trouble,  (* D-Bus, a daemon or the DNS client has failed                *)
  call,     (* each call: "idle", "waiting", or how it ended               *)
  timed,    (* it was given a timeout                                      *)
  met       (* the values of `alive` during the call                       *)

vars == <<alive, trouble, call, timed, met>>

Init ==
  /\ alive \in BOOLEAN
  /\ trouble = FALSE
  /\ call = [c \in Calls |-> "idle"]
  /\ timed = [c \in Calls |-> FALSE]
  /\ met = [c \in Calls |-> {}]

Begin(c) ==
  /\ call[c] = "idle"
  /\ call' = [call EXCEPT ![c] = "waiting"]
  /\ timed' \in {[timed EXCEPT ![c] = b] : b \in BOOLEAN}
  /\ met' = [met EXCEPT ![c] = {alive}]
  /\ trouble' \in {trouble, TRUE}
  /\ UNCHANGED alive

(* "dropped": the caller gave up the future. *)
End(c) ==
  /\ call[c] = "waiting"
  /\ \E how \in {"ok", "failed", "unavailable", "timeout", "dropped"} :
       /\ how = "ok" => TRUE \in met[c]
       /\ how = "failed" => FALSE \in met[c] \/ trouble
       /\ how = "unavailable" => trouble
       /\ how = "timeout" => timed[c]
       /\ call' = [call EXCEPT ![c] = how]
  /\ UNCHANGED <<alive, trouble, timed, met>>

Change ==
  /\ alive' = ~alive
  /\ met' = [c \in Calls |-> IF call[c] = "waiting" THEN BOOLEAN ELSE met[c]]
  /\ UNCHANGED <<trouble, call, timed>>

Trouble ==
  /\ trouble' = TRUE
  /\ UNCHANGED <<alive, call, timed, met>>

Next == Change \/ Trouble \/ \E c \in Calls : Begin(c) \/ End(c)

Safety == Init /\ [][Next]_vars
=============================================================================
