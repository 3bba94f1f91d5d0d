----------------------------- MODULE MacLookup -----------------------------
(***************************************************************************)
(* One blocking lookup on macOS (src/macos/browse.rs): do_resolve, then    *)
(* get_addresses, as resolve_service and resolve_once call them, against a *)
(* daemon that answers when it likes.                                      *)
(*                                                                         *)
(* Time passes while poll waits; `late` counts the time the thread loses   *)
(* anywhere else to the scheduler. DNSServiceProcessResult calls back once *)
(* or several times, for replies that have come in.                        *)
(*                                                                         *)
(* A definition D_X is a variant of D with a bug, for mutation runs only.  *)
(***************************************************************************)
EXTENDS Integers, Sequences

CONSTANTS
  Hosts, Txts,     (* what a service's SRV and TXT records may say         *)
  Addrs,           (* addresses of its host                                *)
  None,
  Unit,            (* units of the clock in a millisecond                  *)
  ResolveTimeout,  (* RESOLVE_TIMEOUT_MS and GETADDR_TIMEOUT_MS,           *)
  GetaddrTimeout,  (* in units of the clock                                *)
  MaxReplies,      (* bound: replies of the daemon to one operation        *)
  MaxLate,         (* bound: time lost to the scheduler                    *)
  MaxFaults        (* bound: failures of the daemon and of poll            *)

ASSUME LookupConstantsOK ==
  /\ None \notin Hosts \cup Txts \cup Addrs
  /\ Unit \in Nat \ {0} /\ ResolveTimeout \in Nat /\ GetaddrTimeout \in Nat
  /\ MaxReplies \in Nat /\ MaxLate \in Nat /\ MaxFaults \in Nat

VARIABLES
  op,       (* the function on the stack: "do_resolve" or "get_addresses"  *)
  pc,       (* "start", "loop", "enter", "poll", "read", "over"            *)
  refs,     (* the DNSServiceRefs not yet deallocated, by their function   *)
  queue,    (* replies on the socket of the operation                      *)
  now, late,
  deadline, (* of get_addresses                                            *)
  budget,   (* the timeout poll is about to be given                       *)
  wake,     (* when the poll under way gives up                            *)
  result,   (* ResolveResult                                               *)
  addrs,    (* AddrResult                                                  *)
  done,
  outcome,  (* "none", "failed" or "found"                                 *)
  fresh,    (* this DNSServiceProcessResult has called back                *)
  taken,    (* the replies that do_resolve took, in their order            *)
  whole,    (* a burst of address replies has been taken to its end        *)
  sent, faults

clock == <<now, late>>
waits == <<deadline, budget, wake>>
data == <<result, addrs, done, taken, whole>>
vars == <<op, pc, refs, queue, clock, waits, data, outcome, fresh, sent, faults>>

(* A reply may come without TXT data: no pointer, or no bytes. Nobody      *)
(* looks at the data of an error.                                          *)
Failure == [error |-> TRUE, host |-> None, txt |-> None]
Resolved == [error : {FALSE}, host : Hosts, txt : Txts \cup {None}] \cup {Failure}
Address == [ip : Addrs \cup {None}, more : BOOLEAN]
RepliesTo(o) == IF o = "do_resolve" THEN Resolved ELSE Address
NoResult == [got |-> FALSE, error |-> FALSE, host |-> None, txt |-> None]

Init ==
  /\ op = "do_resolve" /\ pc = "start"
  /\ refs = {} /\ queue = <<>>
  /\ now = 0 /\ late = 0
  /\ deadline = 0 /\ budget = 0 /\ wake = 0
  /\ result = NoResult /\ addrs = <<>> /\ done = FALSE
  /\ outcome = "none" /\ fresh = FALSE
  /\ taken = <<>> /\ whole = FALSE
  /\ sent = 0 /\ faults = 0

-----------------------------------------------------------------------------
Fault == faults < MaxFaults /\ faults' = faults + 1

(* DNSServiceRefDeallocate. *)
Deallocate == refs' = refs \ {op} /\ queue' = <<>>

Return(r) == pc' = "over" /\ outcome' = r /\ UNCHANGED op

Opened == refs' = refs \cup {op} /\ queue' = <<>> /\ sent' = 0

(* DNSServiceResolve. *)
StartResolve ==
  /\ op = "do_resolve" /\ pc = "start"
  /\ \/ /\ Opened
        /\ budget' = ResolveTimeout
        /\ pc' = "enter"
        /\ UNCHANGED <<op, outcome, faults>>
     \/ /\ Fault
        /\ Return("failed")
        /\ UNCHANGED <<refs, queue, sent, budget>>
  /\ UNCHANGED <<clock, deadline, wake, data, fresh>>

(* DNSServiceGetAddrInfo; without it the service is reported with no       *)
(* address.                                                                *)
StartAddresses ==
  /\ op = "get_addresses" /\ pc = "start"
  /\ \/ /\ Opened
        /\ deadline' = now + GetaddrTimeout
        /\ pc' = "loop"
        /\ UNCHANGED <<op, outcome, faults>>
     \/ /\ Fault
        /\ Return("found")
        /\ UNCHANGED <<refs, queue, sent, deadline>>
  /\ UNCHANGED <<clock, budget, wake, data, fresh>>

Remaining == IF now < deadline THEN deadline - now ELSE 0

(* as_millis: whole milliseconds, rounded down. *)
AsMillis_Up(d) == ((d + Unit - 1) \div Unit) * Unit
AsMillis(d) == (d \div Unit) * Unit

(* The head of the loop of get_addresses. *)
Loop ==
  /\ pc = "loop"
  /\ IF done \/ Remaining = 0
       THEN Return("found") /\ Deallocate /\ UNCHANGED budget
       ELSE pc' = "enter" /\ budget' = AsMillis(Remaining) /\ UNCHANGED <<op, refs, queue, outcome>>
  /\ UNCHANGED <<clock, deadline, wake, data, fresh, sent, faults>>

EnterPoll ==
  /\ pc = "enter"
  /\ pc' = "poll"
  /\ wake' = now + budget
  /\ UNCHANGED <<op, refs, queue, clock, deadline, budget, data, outcome, fresh, sent, faults>>

(* What poll and DNSServiceProcessResult leave to do when they fail:       *)
(* do_resolve releases its operation and fails, get_addresses keeps what   *)
(* it has.                                                                 *)
GiveUp_Leaks == Return(IF op = "do_resolve" THEN "failed" ELSE "found") /\ UNCHANGED <<refs, queue>>
GiveUp == Return(IF op = "do_resolve" THEN "failed" ELSE "found") /\ Deallocate

(* poll returns 0: its time is up and nothing has come in. *)
TimeIsUp_Never == FALSE
TimeIsUp == now >= wake /\ queue = <<>>

PollEnds ==
  /\ pc = "poll"
  /\ \/ TimeIsUp /\ GiveUp /\ UNCHANGED <<fresh, faults>>
     \/ Fault /\ GiveUp /\ UNCHANGED fresh
     \/ /\ queue # <<>>
        /\ pc' = "read" /\ fresh' = FALSE
        /\ UNCHANGED <<op, refs, queue, outcome, faults>>
     \/ /\ Fault (* the daemon has closed the socket *)
        /\ pc' = "read" /\ fresh' = FALSE
        /\ UNCHANGED <<op, refs, queue, outcome>>
  /\ UNCHANGED <<clock, waits, data, sent>>

(* resolve_callback: an error leaves the data of an earlier reply alone,   *)
(* and so does a reply without TXT data the TXT data.                      *)
Fill_KeepsTxt(r) ==
  IF r.error THEN [result EXCEPT !.got = TRUE, !.error = TRUE]
  ELSE [got |-> TRUE, error |-> FALSE, host |-> r.host,
        txt |-> IF result.txt = None THEN r.txt ELSE result.txt]
Fill(r) ==
  IF r.error THEN [result EXCEPT !.got = TRUE, !.error = TRUE]
  ELSE [got |-> TRUE, error |-> FALSE, host |-> r.host,
        txt |-> IF r.txt = None THEN result.txt ELSE r.txt]

ResolveCallback ==
  /\ pc = "read" /\ op = "do_resolve" /\ queue # <<>>
  /\ result' = Fill(Head(queue))
  /\ taken' = Append(taken, Head(queue))
  /\ queue' = Tail(queue)
  /\ fresh' = TRUE
  /\ UNCHANGED <<op, pc, refs, clock, waits, addrs, done, outcome, whole, sent, faults>>

(* sockaddr_to_ip: a reply with an error, without an address, or of        *)
(* another family adds nothing.                                            *)
Push(r) == IF r.ip = None THEN addrs ELSE Append(addrs, r.ip)

(* A reply without MoreComing ends the burst. *)
Last_Any(r) == TRUE
Last(r) == ~r.more

GetaddrCallback ==
  /\ pc = "read" /\ op = "get_addresses" /\ queue # <<>>
  /\ addrs' = Push(Head(queue))
  /\ done' = (done \/ Last(Head(queue)))
  /\ whole' = (whole \/ ~Head(queue).more)
  /\ queue' = Tail(queue)
  /\ fresh' = TRUE
  /\ UNCHANGED <<op, pc, refs, clock, waits, result, outcome, taken, sent, faults>>

(* do_resolve looks at what the callback left behind. *)
Complete == result.got /\ ~result.error

ProcessReturns ==
  /\ pc = "read"
  /\ fresh \/ queue = <<>>
  /\ \/ /\ op = "get_addresses"
        /\ pc' = "loop"
        /\ UNCHANGED <<op, refs, queue, outcome>>
     \/ /\ op = "do_resolve" /\ Complete
        /\ Deallocate
        /\ op' = "get_addresses" /\ pc' = "start"
        /\ UNCHANGED outcome
     \/ op = "do_resolve" /\ ~Complete /\ GiveUp
  /\ UNCHANGED <<clock, waits, data, fresh, sent, faults>>

ProcessFails ==
  /\ pc = "read"
  /\ (queue = <<>> /\ ~fresh /\ UNCHANGED faults) \/ Fault
  /\ GiveUp
  /\ UNCHANGED <<clock, waits, data, fresh, sent>>

-----------------------------------------------------------------------------
(* The daemon and the clock.                                               *)

Reply ==
  /\ op \in refs
  /\ sent < MaxReplies
  /\ \E r \in RepliesTo(op) : queue' = Append(queue, r)
  /\ sent' = sent + 1
  /\ UNCHANGED <<op, pc, refs, clock, waits, data, outcome, fresh, faults>>

Tick ==
  /\ pc = "poll" /\ queue = <<>> /\ now < wake
  /\ now' = now + 1
  /\ UNCHANGED <<op, pc, refs, queue, late, waits, data, outcome, fresh, sent, faults>>

Preempted ==
  /\ pc \notin {"poll", "over"}
  /\ late < MaxLate
  /\ now' = now + 1 /\ late' = late + 1
  /\ UNCHANGED <<op, pc, refs, queue, waits, data, outcome, fresh, sent, faults>>

Returned == pc = "over" /\ UNCHANGED vars

Thread == StartResolve \/ StartAddresses \/ Loop \/ EnterPoll \/ PollEnds
            \/ ResolveCallback \/ GetaddrCallback \/ ProcessReturns \/ ProcessFails

Next == Thread \/ Reply \/ Tick \/ Preempted \/ Returned

Spec == Init /\ [][Next]_vars

(* The thread runs and time passes; the daemon need not answer. *)
FairSpec == Spec /\ WF_vars(Thread) /\ WF_vars(Tick)

-----------------------------------------------------------------------------
TypeOK ==
  /\ op \in {"do_resolve", "get_addresses"}
  /\ pc \in {"start", "loop", "enter", "poll", "read", "over"}
  /\ refs \subseteq {"do_resolve", "get_addresses"}
  /\ queue \in Seq(RepliesTo(op))
  /\ now \in Nat /\ late \in 0..MaxLate
  /\ deadline \in Nat /\ budget \in Nat /\ wake \in Nat
  /\ result \in [got : BOOLEAN, error : BOOLEAN, host : Hosts \cup {None}, txt : Txts \cup {None}]
  /\ addrs \in Seq(Addrs)
  /\ done \in BOOLEAN /\ fresh \in BOOLEAN /\ whole \in BOOLEAN
  /\ outcome \in {"none", "failed", "found"}
  /\ taken \in Seq(Resolved)
  /\ sent \in 0..MaxReplies /\ faults \in 0..MaxFaults

(* A lookup blocks its thread for RESOLVE_TIMEOUT_MS and                   *)
(* GETADDR_TIMEOUT_MS at most, plus what the scheduler takes: however the  *)
(* replies trickle in, each poll gets only what is left of the budget.     *)
BlockingBudget == now <= ResolveTimeout + GetaddrTimeout + late

(* The callbacks write through a raw pointer to a local of the function    *)
(* that opened the operation: while a reference is live, that function is  *)
(* on the stack, and it returns with none, by `?` and by break too.        *)
ContextOnStack == refs = IF pc \in {"start", "over"} THEN {} ELSE {op}

NewestReply == taken[Len(taken)]
WithTxt == {k \in DOMAIN taken : ~taken[k].error /\ taken[k].txt # None}

(* A service is reported found only on an answer, and as the newest reply  *)
(* of the dispatch has it, which was no error: its host is the one of that *)
(* reply, and its TXT data are those of the newest reply that brought any. *)
(* Replies that all bring TXT data are so never mixed. A reply that brings *)
(* none is: resolve_callback then leaves what an earlier reply said.       *)
AnswerIsNewest ==
  outcome = "found" =>
    /\ taken # <<>> /\ ~NewestReply.error /\ result.host = NewestReply.host
    /\ WithTxt = {} => result.txt = None
    /\ \A k \in WithTxt : (\A j \in WithTxt : j <= k) => result.txt = taken[k].txt

(* Without a failure, get_addresses leaves a burst of replies half taken   *)
(* only when less than a millisecond is left of its budget.                *)
BurstsTakenWhole ==
  outcome = "found" /\ faults = 0 => whole \/ now + Unit > deadline

(* Whatever the daemon does, or omits to do, the lookup comes to its end   *)
(* and the thread goes back to the pool.                                   *)
LookupEnds == <>(pc = "over")
=============================================================================
