---------------------------- MODULE EventStream ----------------------------
(***************************************************************************)
(* What a ServiceBrowser promises its owner, whatever the platform: the    *)
(* event stream behind recv() (src/browse.rs).  It is tokio's unbounded    *)
(* mpsc channel seen from the crate: any number of producers hold a clone  *)
(* of the sender, one consumer holds the receiver.                         *)
(*                                                                         *)
(* The three facts the back-ends must preserve:                            *)
(*   - events reach the consumer in the order they were sent, none lost    *)
(*     while the receiver exists;                                          *)
(*   - recv() answers None only when the queue is empty and no producer is *)
(*     left, so nothing can follow a None;                                 *)
(*   - a producer comes only from a producer: once they are all gone the   *)
(*     browse cannot come back to life.                                    *)
(***************************************************************************)
EXTENDS Sequences

CONSTANTS
  Holders,  (* whatever may own a clone of the sender: tasks, threads ...  *)
  Events    (* what can be sent: Found, Removed and the errors             *)

VARIABLES
  chan,     (* events sent and not yet received                            *)
  senders,  (* the owners of a sender clone                                *)
  rx,       (* the receiver: "none" before browse(), "open", "closed"      *)
  ended     (* recv() has answered None                                    *)

vars == <<chan, senders, rx, ended>>

TypeOK ==
  /\ chan \in Seq(Events)
  /\ senders \in SUBSET Holders
  /\ rx \in {"none", "open", "closed"}
  /\ ended \in BOOLEAN

Init ==
  /\ chan = <<>>
  /\ senders = {}
  /\ rx = "none"
  /\ ended = FALSE

(* unbounded_channel() and the start of the first producers. *)
Open ==
  /\ rx = "none"
  /\ rx' = "open"
  /\ senders' \in SUBSET Holders
  /\ UNCHANGED <<chan, ended>>

(* A step of the producers: they may send an event (it goes nowhere when   *)
(* the receiver is gone), clone senders and drop senders, but only while   *)
(* at least one of them is alive.                                          *)
Produce ==
  /\ senders # {}
  /\ senders' \in SUBSET Holders
  /\ \/ UNCHANGED chan
     \/ rx = "open" /\ \E e \in Events : chan' = Append(chan, e)
  /\ UNCHANGED <<rx, ended>>

Recv ==
  /\ rx = "open"
  /\ chan # <<>>
  /\ chan' = Tail(chan)
  /\ UNCHANGED <<senders, rx, ended>>

RecvNone ==
  /\ rx = "open"
  /\ chan = <<>>
  /\ senders = {}
  /\ ended' = TRUE
  /\ UNCHANGED <<chan, senders, rx>>

(* Dropping the ServiceBrowser drops the receiver and what it still holds. *)
Close ==
  /\ rx = "open"
  /\ rx' = "closed"
  /\ chan' = <<>>
  /\ UNCHANGED <<senders, ended>>

Next == Open \/ Produce \/ Recv \/ RecvNone \/ Close

Safety == Init /\ [][Next]_vars

(* The consumer keeps calling recv(). *)
Spec == Safety /\ WF_vars(Recv \/ RecvNone)
=============================================================================
