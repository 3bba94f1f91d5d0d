-------------------------- MODULE MacLookupProofs --------------------------
(***************************************************************************)
(* What MacLookup promises for any timeouts, any clock, and any number of  *)
(* replies, delays and failures.                                           *)
(***************************************************************************)
EXTENDS MacLookup, SequenceTheorems, TLAPS

(* How far each place in the code may be from the start of the lookup. *)
TimeInv ==
  /\ op = "do_resolve" /\ pc \in {"start", "enter"} => now <= late
  /\ op = "do_resolve" /\ pc = "enter" => budget = ResolveTimeout
  /\ op = "do_resolve" /\ pc = "poll" => wake <= ResolveTimeout + late
  /\ op = "do_resolve" \/ pc = "start" => now <= ResolveTimeout + late
  /\ op = "get_addresses" /\ pc # "start" =>
       now <= ResolveTimeout + GetaddrTimeout + late
         /\ (deadline <= ResolveTimeout + GetaddrTimeout + late \/ pc = "over")
  /\ pc = "enter" => now + budget <= ResolveTimeout + GetaddrTimeout + late
  /\ pc = "poll" => wake <= ResolveTimeout + GetaddrTimeout + late
  /\ pc = "loop" => op = "get_addresses"

(* ResolveResult holds the host of the newest reply, unless that is an     *)
(* error, and the newest TXT data; the addresses are looked up only after  *)
(* a good reply.                                                           *)
AnswerInv ==
  /\ taken = <<>> => ~result.got
  /\ taken # <<>> => result.error = NewestReply.error
  /\ taken # <<>> /\ ~NewestReply.error => result.host = NewestReply.host
  /\ WithTxt = {} => result.txt = None
  /\ \A k \in WithTxt : (\A j \in WithTxt : j <= k) => result.txt = taken[k].txt
  /\ op = "get_addresses" => taken # <<>> /\ ~NewestReply.error
  /\ outcome = "found" \/ pc = "loop" => op = "get_addresses"

(* The flag that ends the loop is set by the last reply of a burst, and a  *)
(* poll waits until less than a millisecond of the budget is left.         *)
BurstInv ==
  /\ done = whole
  /\ op = "get_addresses" /\ pc = "enter" => now + budget + Unit > deadline
  /\ op = "get_addresses" /\ pc = "poll" => wake + Unit > deadline
  /\ pc = "read" /\ faults = 0 => fresh \/ queue # <<>>
  /\ outcome = "none" <=> pc # "over"
  /\ BurstsTakenWhole

-----------------------------------------------------------------------------
(* Rounding to whole milliseconds loses less than one and gains nothing. *)
LEMMA RoundsDown ==
  ASSUME NEW d \in Nat
  PROVE  AsMillis(d) \in Nat /\ AsMillis(d) <= d /\ d < AsMillis(d) + Unit
BY LookupConstantsOK, Z3 DEF AsMillis

(* What is left until the deadline. *)
LEMMA RemainingIsNat ==
  ASSUME TypeOK
  PROVE  Remaining \in Nat /\ (Remaining # 0 => now + Remaining = deadline)
                           /\ (Remaining = 0 => now >= deadline)
BY DEF Remaining, TypeOK

(* Taking the first reply off the socket leaves a socket. *)
LEMMA TakesFirst ==
  ASSUME NEW S, queue \in Seq(S), queue # <<>>
  PROVE  Head(queue) \in S /\ Tail(queue) \in Seq(S)
OBVIOUS

(* A socket that was just opened or closed holds nothing. *)
LEMMA EmptyQueue == ASSUME NEW S PROVE <<>> \in Seq(S)
OBVIOUS

(* A step that closes the socket or leaves it alone keeps its type. *)
LEMMA QueueTyped ==
  ASSUME TypeOK, queue' = <<>> \/ (queue' = queue /\ op' = op)
  PROVE  queue' \in Seq(RepliesTo(op'))
<1>1. CASE queue' = <<>>
  BY <1>1, EmptyQueue
<1>2. CASE queue' = queue /\ op' = op
  BY <1>2 DEF TypeOK
<1>3. QED
  BY <1>1, <1>2

(* Failures are counted within their bound. *)
LEMMA CountsFault ==
  ASSUME TypeOK, Fault
  PROVE  faults' \in 0..MaxFaults /\ faults' # 0
BY LookupConstantsOK DEF Fault, TypeOK

(* What a reply to do_resolve may say. *)
LEMMA ReplyFields ==
  ASSUME NEW r \in Resolved
  PROVE  r.error \in BOOLEAN /\ (~r.error => r.host \in Hosts /\ r.txt \in Txts \cup {None})
<1>1. CASE r = Failure
  BY <1>1 DEF Failure
<1>2. CASE r \in [error : {FALSE}, host : Hosts, txt : Txts \cup {None}]
  BY <1>2
<1>3. QED
  BY <1>1, <1>2 DEF Resolved

(* Every initial state is well typed. *)
LEMMA InitTypeOK == Init => TypeOK
<1> SUFFICES ASSUME Init PROVE TypeOK
  OBVIOUS
<1>1. queue \in Seq(RepliesTo(op)) /\ addrs \in Seq(Addrs)
  BY EmptyQueue DEF Init
<1>2. result \in [got : BOOLEAN, error : BOOLEAN, host : Hosts \cup {None}, txt : Txts \cup {None}]
  BY DEF Init, NoResult
<1>3. /\ late \in 0..MaxLate /\ sent \in 0..MaxReplies /\ faults \in 0..MaxFaults
      /\ taken \in Seq(Resolved)
  BY LookupConstantsOK DEF Init
<1>4. QED
  BY <1>1, <1>2, <1>3 DEF Init, TypeOK

(* A lookup that gives up or returns keeps the types. *)
LEMMA NextTypeOK == TypeOK /\ [Next]_vars => TypeOK'
<1> SUFFICES ASSUME TypeOK, [Next]_vars PROVE TypeOK'
  OBVIOUS
<1> USE LookupConstantsOK
<1>1. CASE StartResolve
  <2>1. queue' \in Seq(RepliesTo(op'))
    BY <1>1, QueueTyped DEF StartResolve, Opened, Return
  <2>2. faults' \in 0..MaxFaults
    BY <1>1, CountsFault DEF StartResolve, Opened, Return, TypeOK
  <2>3. refs' \subseteq {"do_resolve", "get_addresses"}
    BY <1>1 DEF StartResolve, Opened, TypeOK
  <2>4. sent' \in 0..MaxReplies /\ budget' \in Nat
    BY <1>1 DEF StartResolve, Opened, TypeOK
  <2>5. /\ op' \in {"do_resolve", "get_addresses"} /\ outcome' \in {"none", "failed", "found"}
        /\ pc' \in {"start", "loop", "enter", "poll", "read", "over"}
    BY <1>1 DEF StartResolve, Return, TypeOK
  <2>6. UNCHANGED <<clock, deadline, wake, data, fresh>>
    BY <1>1 DEF StartResolve
  <2>7. QED
    BY <2>1, <2>2, <2>3, <2>4, <2>5, <2>6 DEF TypeOK, clock, data
<1>2. CASE StartAddresses
  <2>1. queue' \in Seq(RepliesTo(op'))
    BY <1>2, QueueTyped DEF StartAddresses, Opened, Return
  <2>2. faults' \in 0..MaxFaults
    BY <1>2, CountsFault DEF StartAddresses, Opened, Return, TypeOK
  <2>3. refs' \subseteq {"do_resolve", "get_addresses"}
    BY <1>2 DEF StartAddresses, Opened, TypeOK
  <2>4. sent' \in 0..MaxReplies /\ deadline' \in Nat
    <3>1. now + GetaddrTimeout \in Nat /\ deadline \in Nat /\ sent \in 0..MaxReplies /\ 0 \in 0..MaxReplies
      BY DEF TypeOK
    <3>2. QED
      BY <1>2, <3>1 DEF StartAddresses, Opened
  <2>5. /\ op' \in {"do_resolve", "get_addresses"} /\ outcome' \in {"none", "failed", "found"}
        /\ pc' \in {"start", "loop", "enter", "poll", "read", "over"}
    BY <1>2 DEF StartAddresses, Return, TypeOK
  <2>6. UNCHANGED <<clock, budget, wake, data, fresh>>
    BY <1>2 DEF StartAddresses
  <2>7. QED
    BY <2>1, <2>2, <2>3, <2>4, <2>5, <2>6 DEF TypeOK, clock, data
<1>3. CASE Loop
  <2>1. AsMillis(Remaining) \in Nat
    BY RemainingIsNat, RoundsDown
  <2>2. queue' \in Seq(RepliesTo(op'))
    BY <1>3, QueueTyped DEF Loop, Return, Deallocate
  <2>3. QED
    <3>1. budget' \in Nat
      BY <1>3, <2>1 DEF Loop, TypeOK
    <3>2. refs' \subseteq {"do_resolve", "get_addresses"} /\ op' \in {"do_resolve", "get_addresses"}
      BY <1>3 DEF Loop, Return, Deallocate, TypeOK
    <3>3. pc' \in {"enter", "over"} /\ outcome' \in {"none", "failed", "found"}
      BY <1>3 DEF Loop, Return, TypeOK
    <3>4. QED
      BY <1>3, <2>2, <3>1, <3>2, <3>3 DEF Loop, TypeOK, clock, data
<1>4. CASE EnterPoll
  BY <1>4 DEF EnterPoll, TypeOK, clock, data
<1>5. CASE PollEnds
  <2>1. queue' \in Seq(RepliesTo(op'))
    BY <1>5, QueueTyped DEF PollEnds, GiveUp, Return, Deallocate
  <2>2. faults' \in 0..MaxFaults
    BY <1>5, CountsFault DEF PollEnds, GiveUp, Return, Deallocate, TypeOK
  <2>3. /\ op' \in {"do_resolve", "get_addresses"} /\ refs' \subseteq {"do_resolve", "get_addresses"}
        /\ pc' \in {"start", "loop", "enter", "poll", "read", "over"}
        /\ outcome' \in {"none", "failed", "found"} /\ fresh' \in BOOLEAN
    BY <1>5 DEF PollEnds, GiveUp, Return, Deallocate, TypeOK
  <2>4. QED
    BY <1>5, <2>1, <2>2, <2>3 DEF PollEnds, TypeOK, clock, data, waits
<1>6. CASE ResolveCallback
  <2>1. Head(queue) \in Resolved /\ Tail(queue) \in Seq(Resolved)
    BY <1>6, TakesFirst DEF ResolveCallback, RepliesTo, TypeOK
  <2>2. result' \in [got : BOOLEAN, error : BOOLEAN, host : Hosts \cup {None}, txt : Txts \cup {None}]
    <3>1. /\ Head(queue).error \in BOOLEAN
          /\ ~Head(queue).error => Head(queue).host \in Hosts /\ Head(queue).txt \in Txts \cup {None}
      BY <2>1, ReplyFields
    <3>2. QED
      BY <1>6, <3>1 DEF ResolveCallback, Fill, TypeOK
  <2>3. QED
    BY <1>6, <2>1, <2>2 DEF ResolveCallback, RepliesTo, TypeOK, clock, waits
<1>7. CASE GetaddrCallback
  <2>1. Head(queue) \in Address /\ Tail(queue) \in Seq(Address)
    BY <1>7, TakesFirst DEF GetaddrCallback, RepliesTo, TypeOK
  <2>2. addrs' \in Seq(Addrs)
    <3>1. addrs \in Seq(Addrs) /\ (Head(queue).ip = None \/ Head(queue).ip \in Addrs)
      BY <2>1 DEF Address, TypeOK
    <3>2. QED
      BY <1>7, <3>1 DEF GetaddrCallback, Push
  <2>3. done' \in BOOLEAN /\ whole' \in BOOLEAN
    BY <1>7, <2>1 DEF GetaddrCallback, Last, Address, TypeOK
  <2>4. QED
    BY <1>7, <2>1, <2>2, <2>3 DEF GetaddrCallback, RepliesTo, TypeOK, clock, waits
<1>8. CASE ProcessReturns
  <2>1. queue' \in Seq(RepliesTo(op'))
    BY <1>8, QueueTyped DEF ProcessReturns, GiveUp, Return, Deallocate
  <2>2. faults' \in 0..MaxFaults
    BY <1>8, CountsFault DEF ProcessReturns, GiveUp, Return, Deallocate, TypeOK
  <2>3. QED
    BY <1>8, <2>1, <2>2 DEF ProcessReturns, GiveUp, Return, Deallocate, TypeOK, clock, data, waits
<1>9. CASE ProcessFails
  <2>1. queue' \in Seq(RepliesTo(op'))
    BY <1>9, QueueTyped DEF ProcessFails, GiveUp, Return, Deallocate
  <2>2. faults' \in 0..MaxFaults
    BY <1>9, CountsFault DEF ProcessFails, GiveUp, Return, Deallocate, TypeOK
  <2>3. QED
    BY <1>9, <2>1, <2>2 DEF ProcessFails, GiveUp, Return, Deallocate, TypeOK, clock, data, waits
<1>10. CASE Reply
  BY <1>10, SMTT(30) DEF Reply, TypeOK, clock, data, waits
<1>11. CASE Tick
  BY <1>11 DEF Tick, TypeOK, data, waits
<1>12. CASE Preempted
  BY <1>12, SMTT(30) DEF Preempted, TypeOK, data, waits
<1>13. CASE Returned \/ UNCHANGED vars
  BY <1>13 DEF Returned, vars, TypeOK, clock, data, waits
<1>14. QED
  BY <1>1, <1>2, <1>3, <1>4, <1>5, <1>6, <1>7, <1>8, <1>9, <1>10, <1>11, <1>12, <1>13
     DEF Next, Thread

(* Every way out of an operation deallocates it. *)
LEMMA NextContext == TypeOK /\ ContextOnStack /\ [Next]_vars => ContextOnStack'
<1> SUFFICES ASSUME TypeOK, ContextOnStack, [Next]_vars PROVE ContextOnStack'
  OBVIOUS
<1> USE LookupConstantsOK DEF clock, data, waits
<1>1. CASE StartResolve
  BY <1>1 DEF StartResolve, Opened, Fault, Return, ContextOnStack, TypeOK
<1>2. CASE StartAddresses
  BY <1>2 DEF StartAddresses, Opened, Fault, Return, ContextOnStack, TypeOK
<1>3. CASE Loop
  BY <1>3 DEF Loop, Return, Deallocate, ContextOnStack, TypeOK
<1>4. CASE EnterPoll
  BY <1>4 DEF EnterPoll, ContextOnStack, TypeOK
<1>5. CASE PollEnds
  BY <1>5 DEF PollEnds, GiveUp, Return, Deallocate, Fault, TimeIsUp, ContextOnStack, TypeOK
<1>6. CASE ResolveCallback
  BY <1>6 DEF ResolveCallback, ContextOnStack, TypeOK
<1>7. CASE GetaddrCallback
  BY <1>7 DEF GetaddrCallback, ContextOnStack, TypeOK
<1>8. CASE ProcessReturns
  BY <1>8 DEF ProcessReturns, GiveUp, Return, Deallocate, ContextOnStack, TypeOK
<1>9. CASE ProcessFails
  BY <1>9 DEF ProcessFails, GiveUp, Return, Deallocate, Fault, ContextOnStack, TypeOK
<1>10. CASE Reply
  BY <1>10 DEF Reply, ContextOnStack, TypeOK
<1>11. CASE Tick
  BY <1>11 DEF Tick, ContextOnStack, TypeOK
<1>12. CASE Preempted
  BY <1>12 DEF Preempted, ContextOnStack, TypeOK
<1>13. CASE Returned \/ UNCHANGED vars
  BY <1>13 DEF Returned, vars, ContextOnStack
<1>14. QED
  BY <1>1, <1>2, <1>3, <1>4, <1>5, <1>6, <1>7, <1>8, <1>9, <1>10, <1>11, <1>12, <1>13
     DEF Next, Thread

(* No step outruns the budgets. *)
LEMMA NextTime == TypeOK /\ TimeInv /\ [Next]_vars => TimeInv'
<1> SUFFICES ASSUME TypeOK, TimeInv, [Next]_vars PROVE TimeInv'
  OBVIOUS
<1> USE LookupConstantsOK DEF clock, data, waits
<1>1. CASE StartResolve
  BY <1>1, SMTT(30) DEF StartResolve, Opened, Fault, Return, TimeInv, TypeOK
<1>2. CASE StartAddresses
  <2>1. /\ op' = "get_addresses" /\ now' = now /\ late' = late
        /\ pc' = "over" \/ (pc' = "loop" /\ deadline' = now + GetaddrTimeout)
        /\ now <= ResolveTimeout + late
    BY <1>2 DEF StartAddresses, Return, TimeInv, TypeOK
  <2>2. now \in Nat /\ late \in Nat
    BY DEF TypeOK
  <2>3. QED
    BY <2>1, <2>2 DEF TimeInv
<1>3. CASE Loop
  <2>1. /\ Remaining \in Nat /\ AsMillis(Remaining) \in Nat /\ AsMillis(Remaining) <= Remaining
        /\ Remaining # 0 => now + Remaining = deadline
    BY RemainingIsNat, RoundsDown
  <2>2. /\ op' = op /\ now' = now /\ late' = late /\ deadline' = deadline
        /\ pc' = "over" \/ (pc' = "enter" /\ Remaining # 0 /\ budget' = AsMillis(Remaining))
    BY <1>3 DEF Loop, Return
  <2>3. /\ op = "get_addresses" /\ deadline <= ResolveTimeout + GetaddrTimeout + late
        /\ now <= ResolveTimeout + GetaddrTimeout + late
    BY <1>3 DEF Loop, TimeInv
  <2>4. now \in Nat /\ late \in Nat /\ deadline \in Nat
    BY DEF TypeOK
  <2>5. QED
    BY <2>1, <2>2, <2>3, <2>4 DEF TimeInv
<1>4. CASE EnterPoll
  BY <1>4 DEF EnterPoll, TimeInv, TypeOK
<1>5. CASE PollEnds
  BY <1>5 DEF PollEnds, GiveUp, Return, Deallocate, Fault, TimeIsUp, TimeInv, TypeOK
<1>6. CASE ResolveCallback
  BY <1>6 DEF ResolveCallback, TimeInv, TypeOK
<1>7. CASE GetaddrCallback
  BY <1>7 DEF GetaddrCallback, TimeInv, TypeOK
<1>8. CASE ProcessReturns
  BY <1>8 DEF ProcessReturns, GiveUp, Return, Deallocate, TimeInv, TypeOK
<1>9. CASE ProcessFails
  BY <1>9 DEF ProcessFails, GiveUp, Return, Deallocate, Fault, TimeInv, TypeOK
<1>10. CASE Reply
  BY <1>10 DEF Reply, TimeInv, TypeOK
<1>11. CASE Tick
  BY <1>11, SMTT(30) DEF Tick, TimeInv, TypeOK
<1>12. CASE Preempted
  <2>1. now' = now + 1 /\ late' = late + 1 /\ UNCHANGED <<op, pc, budget, deadline, wake>>
    BY <1>12 DEF Preempted
  <2>2. now \in Nat /\ late \in Nat /\ budget \in Nat /\ deadline \in Nat /\ wake \in Nat
    BY DEF TypeOK
  <2>3. QED
    BY <2>1, <2>2 DEF TimeInv
<1>13. CASE Returned \/ UNCHANGED vars
  BY <1>13 DEF Returned, vars, TimeInv
<1>14. QED
  BY <1>1, <1>2, <1>3, <1>4, <1>5, <1>6, <1>7, <1>8, <1>9, <1>10, <1>11, <1>12, <1>13
     DEF Next, Thread

(* The result follows the newest reply. *)
LEMMA NextAnswer == TypeOK /\ AnswerInv /\ [Next]_vars => AnswerInv'
<1> SUFFICES ASSUME TypeOK, AnswerInv, [Next]_vars PROVE AnswerInv'
  OBVIOUS
<1> USE LookupConstantsOK DEF clock, data, waits
<1>1. CASE StartResolve
  BY <1>1 DEF StartResolve, Opened, Fault, Return, AnswerInv, TypeOK, NewestReply, WithTxt
<1>2. CASE StartAddresses
  BY <1>2 DEF StartAddresses, Opened, Fault, Return, AnswerInv, TypeOK, NewestReply, WithTxt
<1>3. CASE Loop
  BY <1>3 DEF Loop, Return, Deallocate, AnswerInv, TypeOK, NewestReply, WithTxt
<1>4. CASE EnterPoll
  BY <1>4 DEF EnterPoll, AnswerInv, TypeOK, NewestReply, WithTxt
<1>5. CASE PollEnds
  BY <1>5 DEF PollEnds, GiveUp, Return, Deallocate, Fault, TimeIsUp, AnswerInv, TypeOK, NewestReply, WithTxt
<1>6. CASE ResolveCallback
  <2>1. Head(queue) \in Resolved
    BY <1>6, TakesFirst DEF ResolveCallback, RepliesTo, TypeOK
  <2> DEFINE r == Head(queue)
             n == Len(taken)
  <2>2. /\ taken \in Seq(Resolved) /\ n \in Nat /\ DOMAIN taken = 1..n
        /\ taken' = Append(taken, r) /\ result' = Fill(r) /\ op' = op /\ outcome' = outcome /\ pc' = pc
        /\ op = "do_resolve" /\ pc = "read"
    BY <1>6, LenProperties DEF ResolveCallback, TypeOK
  <2>3. /\ taken' # <<>> /\ Len(taken') = n + 1 /\ DOMAIN taken' = 1..(n + 1)
        /\ taken'[n + 1] = r /\ \A k \in 1..n : taken'[k] = taken[k]
    BY <2>1, <2>2
  <2>4. /\ result \in [got : BOOLEAN, error : BOOLEAN, host : Hosts \cup {None}, txt : Txts \cup {None}]
        /\ r.error \in BOOLEAN
    BY <2>1, ReplyFields DEF TypeOK
  <2>5. NewestReply' = r
    BY <2>3 DEF NewestReply
  <2> HIDE DEF r, n
  <2>6. result'.error = r.error /\ (~r.error => result'.host = r.host)
    BY <2>2, <2>4 DEF Fill
  <2>7. result'.txt = IF ~r.error /\ r.txt # None THEN r.txt ELSE result.txt
    BY <2>2, <2>4 DEF Fill
  <2>8. WithTxt' = WithTxt \cup (IF ~r.error /\ r.txt # None THEN {n + 1} ELSE {})
    <3>1. WithTxt' = {k \in 1..(n + 1) : ~taken'[k].error /\ taken'[k].txt # None}
      BY <2>3 DEF WithTxt
    <3>2. WithTxt = {k \in 1..n : ~taken[k].error /\ taken[k].txt # None}
      BY <2>2 DEF WithTxt
    <3>3. \A k : k \in 1..(n + 1) <=> k \in 1..n \/ k = n + 1
      BY <2>2
    <3>4. QED
      BY <2>3, <3>1, <3>2, <3>3
  <2>9. \A k \in WithTxt : k \in 1..n /\ taken'[k] = taken[k]
    BY <2>2, <2>3 DEF WithTxt
  <2>10. WithTxt' = {} => result'.txt = None
    BY <2>7, <2>8 DEF AnswerInv
  <2>11. ASSUME NEW k \in WithTxt', \A j \in WithTxt' : j <= k PROVE result'.txt = taken'[k].txt
    <3>1. CASE ~r.error /\ r.txt # None
      <4>1. n + 1 <= k /\ (k \in 1..n \/ k = n + 1)
        BY <2>8, <2>9, <2>11, <3>1
      <4>2. k = n + 1
        BY <2>2, <4>1
      <4>3. QED
        BY <2>3, <2>7, <3>1, <4>2
    <3>2. CASE ~(~r.error /\ r.txt # None)
      BY <2>7, <2>8, <2>9, <2>11, <3>2 DEF AnswerInv
    <3>3. QED
      BY <3>1, <3>2
  <2>12. QED
    BY <2>2, <2>3, <2>5, <2>6, <2>10, <2>11 DEF AnswerInv
<1>7. CASE GetaddrCallback
  BY <1>7 DEF GetaddrCallback, AnswerInv, TypeOK, NewestReply, WithTxt
<1>8. CASE ProcessReturns
  BY <1>8 DEF ProcessReturns, Complete, GiveUp, Return, Deallocate, AnswerInv, TypeOK, NewestReply, WithTxt
<1>9. CASE ProcessFails
  BY <1>9 DEF ProcessFails, GiveUp, Return, Deallocate, Fault, AnswerInv, TypeOK, NewestReply, WithTxt
<1>10. CASE Reply
  BY <1>10 DEF Reply, AnswerInv, TypeOK, NewestReply, WithTxt
<1>11. CASE Tick
  BY <1>11 DEF Tick, AnswerInv, TypeOK, NewestReply, WithTxt
<1>12. CASE Preempted
  BY <1>12 DEF Preempted, AnswerInv, TypeOK, NewestReply, WithTxt
<1>13. CASE Returned \/ UNCHANGED vars
  BY <1>13 DEF Returned, vars, AnswerInv, NewestReply, WithTxt
<1>14. QED
  BY <1>1, <1>2, <1>3, <1>4, <1>5, <1>6, <1>7, <1>8, <1>9, <1>10, <1>11, <1>12, <1>13
     DEF Next, Thread

(* The loop ends with a burst, or with the budget. *)
LEMMA NextBurst == TypeOK /\ BurstInv /\ [Next]_vars => BurstInv'
<1> SUFFICES ASSUME TypeOK, BurstInv, [Next]_vars PROVE BurstInv'
  OBVIOUS
<1> USE LookupConstantsOK DEF BurstsTakenWhole, clock, data, waits
<1>1. CASE StartResolve
  <2>1. /\ op = "do_resolve" /\ op' = op
        /\ \/ pc' = "enter" /\ outcome' = outcome
           \/ pc' = "over" /\ outcome' = "failed"
        /\ done' = done /\ whole' = whole /\ outcome = "none"
    BY <1>1 DEF StartResolve, Return, BurstInv
  <2>2. QED
    BY <2>1 DEF BurstInv
<1>2. CASE StartAddresses
  BY <1>2 DEF StartAddresses, Opened, Fault, Return, BurstInv, TypeOK
<1>3. CASE Loop
  <2>1. /\ Remaining \in Nat /\ AsMillis(Remaining) \in Nat /\ Remaining < AsMillis(Remaining) + Unit
        /\ Remaining # 0 => now + Remaining = deadline
        /\ Remaining = 0 => now >= deadline
    BY RemainingIsNat, RoundsDown
  <2>2. /\ op' = op /\ UNCHANGED <<now, deadline, done, whole, faults>>
        /\ \/ pc' = "over" /\ outcome' = "found" /\ (done \/ Remaining = 0)
           \/ pc' = "enter" /\ Remaining # 0 /\ budget' = AsMillis(Remaining) /\ outcome' = outcome
    BY <1>3 DEF Loop, Return
  <2>3. done = whole /\ outcome = "none"
    BY <1>3 DEF Loop, BurstInv
  <2>4. now \in Nat /\ deadline \in Nat
    BY DEF TypeOK
  <2>5. QED
    BY <2>1, <2>2, <2>3, <2>4 DEF BurstInv
<1>4. CASE EnterPoll
  BY <1>4 DEF EnterPoll, BurstInv, TypeOK
<1>5. CASE PollEnds
  <2>1. /\ op' = op /\ UNCHANGED <<now, deadline, done, whole>> /\ pc = "poll" /\ outcome = "none"
        /\ \/ /\ pc' = "over" /\ outcome' = IF op = "do_resolve" THEN "failed" ELSE "found"
              /\ now >= wake \/ faults' # 0
           \/ /\ pc' = "read" /\ outcome' = outcome
              /\ (queue' = queue /\ queue # <<>>) \/ faults' # 0
    <3>1. Fault => faults' # 0
      BY CountsFault
    <3>2. QED
      BY <1>5, <3>1 DEF PollEnds, GiveUp, Return, TimeIsUp, BurstInv
  <2>2. now \in Nat /\ wake \in Nat /\ deadline \in Nat /\ Unit \in Nat
    BY DEF TypeOK
  <2>3. done = whole /\ (op # "do_resolve" /\ now >= wake => now + Unit > deadline)
    <3>1. op # "do_resolve" => op = "get_addresses"
      BY DEF TypeOK
    <3>2. done = whole /\ (op # "do_resolve" => wake + Unit > deadline)
      BY <2>1, <3>1 DEF BurstInv
    <3>3. QED
      BY <2>2, <3>2
  <2>4. CASE pc' = "over"
    BY <2>1, <2>3, <2>4 DEF BurstInv
  <2>5. CASE pc' = "read"
    BY <2>1, <2>3, <2>5 DEF BurstInv
  <2>6. QED
    BY <2>1, <2>4, <2>5
<1>6. CASE ResolveCallback
  BY <1>6 DEF ResolveCallback, BurstInv, TypeOK
<1>7. CASE GetaddrCallback
  BY <1>7 DEF GetaddrCallback, Last, BurstInv, TypeOK
<1>8. CASE ProcessReturns
  BY <1>8 DEF ProcessReturns, GiveUp, Return, Deallocate, BurstInv, TypeOK
<1>9. CASE ProcessFails
  BY <1>9 DEF ProcessFails, GiveUp, Return, Deallocate, Fault, BurstInv, TypeOK
<1>10. CASE Reply
  <2>1. queue' # <<>> /\ UNCHANGED <<op, pc, now, deadline, budget, wake, done, whole, outcome, fresh, faults>>
    BY <1>10, SMTT(30) DEF Reply, TypeOK
  <2>2. QED
    BY <2>1 DEF BurstInv
<1>11. CASE Tick
  <2>1. /\ UNCHANGED <<op, pc, queue, deadline, budget, wake, done, whole, outcome, fresh, faults>>
        /\ pc = "poll" /\ now' = now + 1 /\ now \in Nat
    BY <1>11 DEF Tick, TypeOK
  <2>2. outcome = "none"
    BY <2>1 DEF BurstInv
  <2>3. QED
    BY <2>1, <2>2 DEF BurstInv
<1>12. CASE Preempted
  <2>1. /\ UNCHANGED <<op, pc, queue, deadline, budget, wake, done, whole, outcome, fresh, faults>>
        /\ pc \notin {"poll", "over"} /\ now' = now + 1 /\ now \in Nat
    BY <1>12 DEF Preempted, TypeOK
  <2>2. outcome = "none" /\ budget \in Nat /\ deadline \in Nat
    BY <2>1 DEF BurstInv, TypeOK
  <2>3. op = "get_addresses" /\ pc = "enter" => now' + budget + Unit > deadline
    BY <2>1, <2>2 DEF BurstInv
  <2>4. QED
    BY <2>1, <2>2, <2>3 DEF BurstInv
<1>13. CASE Returned \/ UNCHANGED vars
  BY <1>13 DEF Returned, vars, BurstInv
<1>14. QED
  BY <1>1, <1>2, <1>3, <1>4, <1>5, <1>6, <1>7, <1>8, <1>9, <1>10, <1>11, <1>12, <1>13
     DEF Next, Thread

-----------------------------------------------------------------------------
(* What every step keeps. *)
IInv == TypeOK /\ ContextOnStack /\ TimeInv /\ AnswerInv /\ BurstInv

(* The invariant is inductive. *)
LEMMA InvHolds == Spec => []IInv
<1>1. Init => IInv
  <2> SUFFICES ASSUME Init PROVE IInv
    OBVIOUS
  <2>1. ContextOnStack /\ TimeInv
    BY LookupConstantsOK DEF Init, ContextOnStack, TimeInv
  <2>2. AnswerInv
    <3>1. taken = <<>> /\ DOMAIN <<>> = {} /\ ~result.got /\ result.txt = None
      BY DEF Init, NoResult
    <3>2. WithTxt = {}
      BY <3>1 DEF WithTxt
    <3>3. QED
      BY <3>1, <3>2 DEF Init, AnswerInv
  <2>3. BurstInv
    BY DEF Init, BurstInv, BurstsTakenWhole
  <2>4. QED
    BY <2>1, <2>2, <2>3, InitTypeOK DEF IInv
<1>2. IInv /\ [Next]_vars => IInv'
  BY NextTypeOK, NextContext, NextTime, NextAnswer, NextBurst DEF IInv
<1>3. QED
  BY <1>1, <1>2, PTL DEF Spec

(* Type correctness of the lookup. *)
THEOREM LookupTypeCorrect == Spec => []TypeOK
BY InvHolds, PTL DEF IInv

(* However the replies trickle in and the thread is delayed, a lookup      *)
(* blocks its thread no longer than its two budgets.                       *)
THEOREM BudgetKept == Spec => []BlockingBudget
<1>1. IInv => BlockingBudget
  BY LookupConstantsOK, SMTT(30) DEF IInv, TimeInv, TypeOK, BlockingBudget
<1>2. QED
  BY <1>1, InvHolds, PTL

(* No callback can run after the function whose local it writes to has     *)
(* returned.                                                               *)
THEOREM ContextsOutliveCallbacks == Spec => []ContextOnStack
BY InvHolds, PTL DEF IInv

(* What is reported is what the newest reply said, with the newest TXT     *)
(* data any reply brought: those of an earlier reply, if the newest had    *)
(* none.                                                                   *)
THEOREM AnswersAreNewest == Spec => []AnswerIsNewest
<1>1. IInv => AnswerIsNewest
  BY DEF IInv, AnswerInv, AnswerIsNewest
<1>2. QED
  BY <1>1, InvHolds, PTL

(* Without a failure, only the end of the budget cuts a burst.             *)
THEOREM BurstsAreNotCut == Spec => []BurstsTakenWhole
<1>1. IInv => BurstsTakenWhole
  BY DEF IInv, BurstInv
<1>2. QED
  BY <1>1, InvHolds, PTL
=============================================================================
