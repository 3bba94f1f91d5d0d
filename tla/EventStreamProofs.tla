------------------------- MODULE EventStreamProofs -------------------------
(***************************************************************************)
(* What follows from the event stream alone, and so holds of every         *)
(* back-end that implements it.                                            *)
(***************************************************************************)
EXTENDS EventStream, TLAPS

(* recv() answers None only to the owner of a receiver, so a stream that   *)
(* ended is never opened (again).                                          *)
StreamInv ==
  /\ rx = "none" => ~ended
  /\ ended => senders = {} /\ chan = <<>>

(* recv() has said None: nobody holds a sender and nothing is queued, now  *)
(* and for ever.                                                           *)
NoneIsTheEnd == ended => senders = {} /\ chan = <<>>

LEMMA StreamInvariance == Safety => []StreamInv
<1>1. Init => StreamInv
  BY DEF Init, StreamInv
<1>2. StreamInv /\ [Next]_vars => StreamInv'
  <2> SUFFICES ASSUME StreamInv, [Next]_vars PROVE StreamInv'
    OBVIOUS
  <2>1. CASE Open
    BY <2>1 DEF Open, StreamInv
  <2>2. CASE Produce
    BY <2>2 DEF Produce, StreamInv
  <2>3. CASE Recv
    BY <2>3 DEF Recv, StreamInv
  <2>4. CASE RecvNone
    BY <2>4 DEF RecvNone, StreamInv
  <2>5. CASE Close
    BY <2>5 DEF Close, StreamInv
  <2>6. CASE UNCHANGED vars
    BY <2>6 DEF vars, StreamInv
  <2>7. QED
    BY <2>1, <2>2, <2>3, <2>4, <2>5, <2>6 DEF Next
<1>3. QED
  BY <1>1, <1>2, PTL DEF Safety

(* Nothing can follow a None: an implementation of the stream whose recv() *)
(* has answered None has no producer left, and cannot get one.             *)
THEOREM NothingFollowsNone == Safety => []NoneIsTheEnd
<1>1. StreamInv => NoneIsTheEnd
  BY DEF StreamInv, NoneIsTheEnd
<1>2. QED
  BY <1>1, StreamInvariance, PTL
=============================================================================
