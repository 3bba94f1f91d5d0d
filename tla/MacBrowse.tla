----------------------------- MODULE MacBrowse -----------------------------
(***************************************************************************)
(* The macOS back-end (src/macos/browse.rs): one browse() call, from       *)
(* browse_start to the drop of the ServiceBrowser.                         *)
(*                                                                         *)
(* One pump thread owns one connection to mDNSResponder and every browse   *)
(* operation that shares it; it polls the socket, dispatches the replies   *)
(* to browse_callback and starts the browses the meta-query calls for.     *)
(* Resolves run on tokio's blocking pool, each on a connection of its own: *)
(* nothing cancels them.  The drop of the ServiceBrowser only sets a flag. *)
(*                                                                         *)
(* One action is one call of the pump into dns_sd, or one callback.        *)
(* A definition D_X is a variant of D with a bug, for mutation runs only.  *)
(***************************************************************************)
EXTENDS Naturals, FiniteSets, Sequences, SequencesExt

CONSTANTS
  Types,      (* the (service_type, domain) pairs that may be advertised   *)
  Instances,  (* (name, type, domain, interface): what Found and Removed   *)
              (* name                                                      *)
  TypeOf,     (* [Instances -> Types]                                      *)
  Pump,       (* the pump thread                                           *)
  Resolvers,  (* ids for the resolve_service jobs                          *)
  AllTypes,   (* the meta-query                                            *)
  None,       (* no value                                                  *)
  PoolSize,   (* threads of the blocking pool                              *)
  MaxChurn,   (* bound: appearances and disappearances on the network      *)
  MaxFaults   (* bound: failures of dns_sd and of the socket               *)

ASSUME MacConstantsOK ==
  /\ IsFiniteSet(Types) /\ IsFiniteSet(Instances) /\ IsFiniteSet(Resolvers)
  /\ TypeOf \in [Instances -> Types]
  /\ Pump \notin Resolvers
  /\ AllTypes \notin Types
  /\ None \notin Types \cup Instances \cup {AllTypes}
  /\ PoolSize \in Nat \ {0} /\ MaxChurn \in Nat /\ MaxFaults \in Nat

Threads == {Pump} \cup Resolvers

VARIABLES
  request,  (* what browse() was asked for: a type, or AllTypes            *)
  handle,   (* the ServiceBrowser, as in LinuxBrowse                       *)
  stop,     (* the flag the guard shares with the pump                     *)
  pump,     (* where the pump thread is                                    *)
  result,   (* what run_pump is to return: "ok" or "err"                   *)
  shared,   (* the connection: "none", "open", "closed"                    *)
  ops,      (* the operations on it, by type, as in SharedConnection.ops   *)
  contexts, (* PumpState and the OpContexts: "none", "alive", "freed"      *)
  queue,    (* replies of the daemon not yet read from the socket          *)
  seen,     (* types the meta-query has reported                           *)
  pending,  (* types waiting for their browse                              *)
  skipped,  (* types whose browse could not be started                     *)
  job,      (* where each resolve is                                       *)
  target,   (* the instance it resolves                                    *)
  chan,     (* the unbounded channel to the consumer                       *)
  ended,    (* recv() has answered None                                    *)
  warned,   (* recv() has answered some BrowseFailed                       *)
  view,     (* the last event the consumer received of each instance       *)
  present,  (* the instances now on the network                            *)
  churn,    (* changes of the network so far                               *)
  faults    (* failures injected so far                                    *)

client == <<handle, ended, warned, view>>
conn == <<shared, ops, contexts>>
types == <<seen, pending, skipped>>
jobs == <<job, target>>
network == <<present, churn>>
vars == <<request, client, stop, pump, result, conn, queue, types, jobs, chan, network,
          faults>>

PumpPCs == {"unborn", "create", "fd", "browse", "loop", "poll", "dispatch", "pending",
            "teardown", "report", "done"}
JobPCs == {"idle", "queued", "resolve", "addresses", "done"}

ReplyOf(op, kind, item) == [op |-> op, kind |-> kind, item |-> item]
Replies ==
  [op : Types \cup {AllTypes}, kind : {"Add", "Remove", "Error"},
   item : Types \cup Instances \cup {None}]

EventOf(kind, id) == [kind |-> kind, id |-> id]
Events ==
  [kind : {"Found", "Removed", "ResolveFailed", "BrowseFailed"},
   id : Instances \cup {None}]

Init ==
  /\ request \in Types \cup {AllTypes}
  /\ handle = "unstarted"
  /\ stop = FALSE
  /\ pump = "unborn"
  /\ result = "ok"
  /\ shared = "none"
  /\ ops = <<>>
  /\ contexts = "none"
  /\ queue = <<>>
  /\ seen = {} /\ pending = <<>> /\ skipped = {}
  /\ job = [r \in Resolvers |-> "idle"]
  /\ target = [r \in Resolvers |-> None]
  /\ chan = <<>>
  /\ ended = FALSE
  /\ warned = FALSE
  /\ view = [x \in Instances |-> "unknown"]
  /\ present = {}
  /\ churn = 0
  /\ faults = 0

-----------------------------------------------------------------------------
(* Building blocks.                                                        *)

PumpRuns == pump \notin {"unborn", "done"}
JobRuns(r) == job[r] \notin {"idle", "done"}

(* The pump's closure owns a sender until the thread ends, a resolve until *)
(* its job ends.                                                           *)
Senders_PumpOnly == {t \in {Pump} : PumpRuns}
Senders_Leaked == {t \in {Pump} : pump # "unborn"} \cup {r \in Resolvers : JobRuns(r)}
Senders == {t \in {Pump} : PumpRuns} \cup {r \in Resolvers : JobRuns(r)}

Emit(e) == chan' = IF handle = "open" THEN Append(chan, e) ELSE chan

Fault == faults < MaxFaults /\ faults' = faults + 1

(* `?` in run_pump and pump_loop: the error unwinds to the closure. *)
Fails == Fault /\ result' = "err" /\ pump' = "teardown"

FreshJob == CHOOSE r \in Resolvers : job[r] = "idle"

(* What the daemon queues at once for a new operation: all it has cached. *)
Cached(t) ==
  IF t = AllTypes
    THEN {ReplyOf(t, "Add", TypeOf[i]) : i \in present}
    ELSE {ReplyOf(t, "Add", i) : i \in {j \in present : TypeOf[j] = t}}

Enqueue(replies) == \E burst \in SetToSeqs(replies) : queue' = queue \o burst

(* SharedConnection::browse, when DNSServiceBrowse succeeds. *)
StartBrowse(t) == ops' = Append(ops, t) /\ Enqueue(Cached(t))

-----------------------------------------------------------------------------
(* The consumer.                                                           *)

(* browse_start never fails: the contexts live on the pump's stack. *)
BrowseStart ==
  /\ handle = "unstarted"
  /\ handle' = "open"
  /\ pump' = "create"
  /\ contexts' = "alive"
  /\ UNCHANGED <<request, ended, warned, view, stop, result, shared, ops, queue, types,
                 jobs, chan, network, faults>>

Recv ==
  /\ handle = "open"
  /\ chan # <<>>
  /\ chan' = Tail(chan)
  /\ LET e == Head(chan) IN
       /\ warned' = (warned \/ e.kind = "BrowseFailed")
       /\ view' = CASE e.kind = "Found"   -> [view EXCEPT ![e.id] = "found"]
                    [] e.kind = "Removed" -> [view EXCEPT ![e.id] = "removed"]
                    [] OTHER -> view
  /\ UNCHANGED <<request, handle, ended, stop, pump, result, conn, queue, types, jobs,
                 network, faults>>

RecvNone ==
  /\ handle = "open"
  /\ chan = <<>>
  /\ Senders = {}
  /\ ended' = TRUE
  /\ UNCHANGED <<request, handle, warned, view, stop, pump, result, conn, queue, types,
                 jobs, chan, network, faults>>

(* The receiver drops first ... *)
DropReceiver ==
  /\ handle = "open"
  /\ handle' = "rxdropped"
  /\ chan' = <<>>
  /\ UNCHANGED <<request, ended, warned, view, stop, pump, result, conn, queue, types,
                 jobs, network, faults>>

(* ... then the guard, which raises the flag and waits for nobody. *)
DropGuard ==
  /\ handle = "rxdropped"
  /\ handle' = "dropped"
  /\ stop' = TRUE
  /\ UNCHANGED <<request, ended, warned, view, pump, result, conn, queue, types, jobs,
                 chan, network, faults>>

-----------------------------------------------------------------------------
(* run_pump: the connection, its descriptor, the first browse.             *)

CreateConnection ==
  /\ pump = "create"
  /\ \/ shared' = "open" /\ pump' = "fd" /\ UNCHANGED <<result, faults>>
     \/ Fails /\ UNCHANGED shared
  /\ UNCHANGED <<request, client, stop, ops, contexts, queue, types, jobs, chan, network>>

SocketFd ==
  /\ pump = "fd"
  /\ \/ pump' = "browse" /\ UNCHANGED <<result, faults>>
     \/ Fails
  /\ UNCHANGED <<request, client, stop, conn, queue, types, jobs, chan, network>>

BrowseRoot ==
  /\ pump = "browse"
  /\ \/ StartBrowse(request) /\ pump' = "loop" /\ UNCHANGED <<result, faults>>
     \/ Fails /\ UNCHANGED <<ops, queue>>
  /\ UNCHANGED <<request, client, stop, shared, contexts, types, jobs, chan, network>>

-----------------------------------------------------------------------------
(* pump_loop.                                                              *)

Stopped_Never == FALSE
Stopped == stop

CheckStop ==
  /\ pump = "loop"
  /\ pump' = IF Stopped THEN "teardown" ELSE "poll"
  /\ UNCHANGED <<request, client, stop, result, conn, queue, types, jobs, chan, network,
                 faults>>

(* poll: replies to read, 200 ms without any, EINTR, an error, or a hangup *)
(* without data, which ends the loop with no error.                        *)
Poll ==
  /\ pump = "poll"
  /\ \/ queue # <<>> /\ pump' = "dispatch" /\ UNCHANGED <<result, faults>>
     \/ queue = <<>> /\ pump' = "loop" /\ UNCHANGED <<result, faults>>
     \/ Fault /\ pump' = "loop" /\ UNCHANGED result
     \/ Fails
     \/ Fault /\ pump' = "teardown" /\ UNCHANGED result
  /\ UNCHANGED <<request, client, stop, conn, queue, types, jobs, chan, network>>

(* After a reply: the next one, or on to the pending browses. *)
AfterReply_NoPending == {"dispatch", "loop"}
AfterReply == {"dispatch", "pending"}

(* DNSServiceProcessResult reads a reply, and further ones if the library  *)
(* finds them, each through browse_callback; then it returns.              *)
Dispatching ==
  /\ pump = "dispatch"
  /\ queue # <<>>
  /\ queue' = Tail(queue)
  /\ pump' \in AfterReply
  /\ pump' = "dispatch" => Tail(queue) # <<>>
  /\ UNCHANGED <<request, client, stop, result, conn, skipped, network, faults>>

ProcessFails ==
  /\ pump = "dispatch"
  /\ Fails
  /\ UNCHANGED <<request, client, stop, conn, queue, types, jobs, chan, network>>

(* state.seen.insert *)
Unseen_Always(t) == TRUE
Unseen(t) == t \notin seen

(* A new type is noted for later; a known one and a removal are ignored. *)
MetaReply ==
  /\ Dispatching
  /\ LET reply == Head(queue) IN
       /\ reply.op = AllTypes /\ reply.kind # "Error"
       /\ IF reply.kind = "Add" /\ Unseen(reply.item)
            THEN /\ seen' = seen \cup {reply.item}
                 /\ pending' = Append(pending, reply.item)
            ELSE UNCHANGED <<seen, pending>>
  /\ UNCHANGED <<jobs, chan>>

(* What the closure handed to spawn_blocking resolves. *)
Resolvee_OfType(reply) == reply.op
Resolvee(reply) == reply.item

InstanceAdd ==
  /\ Dispatching
  /\ LET reply == Head(queue) IN
       /\ reply.op # AllTypes /\ reply.kind = "Add"
       /\ \E r \in Resolvers : job[r] = "idle"
       /\ job' = [job EXCEPT ![FreshJob] = "queued"]
       /\ target' = [target EXCEPT ![FreshJob] = Resolvee(reply)]
  /\ UNCHANGED <<seen, pending, chan>>

InstanceRemove ==
  /\ Dispatching
  /\ LET reply == Head(queue) IN
       /\ reply.op # AllTypes /\ reply.kind = "Remove"
       /\ Emit(EventOf("Removed", reply.item))
  /\ UNCHANGED <<seen, pending, jobs>>

ErrorReply ==
  /\ Dispatching
  /\ Head(queue).kind = "Error"
  /\ Emit(EventOf("BrowseFailed", None))
  /\ UNCHANGED <<seen, pending, jobs>>

(* A type that cannot be browsed is reported, and the next one started. *)
AfterSkip_Stop == "loop"
AfterSkip == "pending"

StartPending ==
  /\ pump = "pending"
  /\ pending # <<>>
  /\ pending' = Tail(pending)
  /\ \/ /\ StartBrowse(Head(pending))
        /\ UNCHANGED <<pump, skipped, chan, faults>>
     \/ /\ Fault
        /\ Emit(EventOf("BrowseFailed", None))
        /\ skipped' = skipped \cup {Head(pending)}
        /\ pump' = AfterSkip
        /\ UNCHANGED <<ops, queue>>
  /\ UNCHANGED <<request, client, stop, result, shared, contexts, seen, jobs, network>>

PendingStarted ==
  /\ pump = "pending"
  /\ pending = <<>>
  /\ pump' = "loop"
  /\ UNCHANGED <<request, client, stop, result, conn, queue, types, jobs, chan, network,
                 faults>>

-----------------------------------------------------------------------------
(* The end of run_pump: `conn` drops first, its operations before the      *)
(* connection, then the contexts and the state they borrow.                *)

DeallocateOp ==
  /\ pump = "teardown"
  /\ ops # <<>>
  /\ ops' = Tail(ops)
  /\ UNCHANGED <<request, client, stop, pump, result, shared, contexts, queue, types,
                 jobs, chan, network, faults>>

MayClose_Early == shared = "open"
MayClose == shared = "open" /\ ops = <<>>

DeallocateShared ==
  /\ pump = "teardown"
  /\ MayClose
  /\ shared' = "closed"
  /\ queue' = <<>>
  /\ UNCHANGED <<request, client, stop, pump, result, ops, contexts, types, jobs, chan,
                 network, faults>>

DropContexts ==
  /\ pump = "teardown"
  /\ shared # "open"
  /\ contexts' = "freed"
  /\ pump' = "report"
  /\ UNCHANGED <<request, client, stop, result, shared, ops, queue, types, jobs, chan,
                 network, faults>>

(* The closure sends the error of run_pump, and the thread ends. *)
FinalWord_Dropped == UNCHANGED chan
FinalWord ==
  IF result = "err" THEN Emit(EventOf("BrowseFailed", None)) ELSE UNCHANGED chan

PumpEnds ==
  /\ pump = "report"
  /\ FinalWord
  /\ pump' = "done"
  /\ UNCHANGED <<request, client, stop, result, conn, queue, types, jobs, network, faults>>

-----------------------------------------------------------------------------
(* resolve_service on the blocking pool.                                   *)

Running == {r \in Resolvers : job[r] \in {"resolve", "addresses"}}

JobStarts(r) ==
  /\ job[r] = "queued"
  /\ Cardinality(Running) < PoolSize
  /\ job' = [job EXCEPT ![r] = "resolve"]
  /\ UNCHANGED <<request, client, stop, pump, result, conn, queue, types, target, chan,
                 network, faults>>

(* do_resolve: the daemon answers for a service it knows; otherwise, or    *)
(* when anything fails, the wait runs into its timeout or its error.       *)
Resolved(r) ==
  /\ job[r] = "resolve"
  /\ target[r] \in present
  /\ job' = [job EXCEPT ![r] = "addresses"]
  /\ UNCHANGED <<request, client, stop, pump, result, conn, queue, types, target, chan,
                 network, faults>>

ResolveFails(r) ==
  /\ job[r] = "resolve"
  /\ \/ target[r] \notin present /\ UNCHANGED faults
     \/ Fault
  /\ Emit(EventOf("ResolveFailed", target[r]))
  /\ job' = [job EXCEPT ![r] = "done"]
  /\ UNCHANGED <<request, client, stop, pump, result, conn, queue, types, target, network>>

(* get_addresses always comes back, if with no address; then Found. *)
EmitFound(r) ==
  /\ job[r] = "addresses"
  /\ Emit(EventOf("Found", target[r]))
  /\ job' = [job EXCEPT ![r] = "done"]
  /\ UNCHANGED <<request, client, stop, pump, result, conn, queue, types, target, network,
                 faults>>

-----------------------------------------------------------------------------
(* The network and the daemon.                                             *)

Operations == {ops[n] : n \in DOMAIN ops}

(* The replies owed to the operations when an item comes or goes; the      *)
(* meta-query may repeat a type for another interface.                     *)
Announce(kind, i, typeNews) ==
  \E repeat \in BOOLEAN :
    Enqueue({ReplyOf(t, kind, i) : t \in Operations \cap {TypeOf[i]}}
            \cup {ReplyOf(t, kind, TypeOf[i]) :
                    t \in {x \in Operations \cap {AllTypes} : typeNews \/ repeat}})

SameType(i) == {j \in Instances : TypeOf[j] = TypeOf[i]}

Appear(i) ==
  /\ churn < MaxChurn
  /\ i \notin present
  /\ present' = present \cup {i}
  /\ churn' = churn + 1
  /\ Announce("Add", i, SameType(i) \cap present = {})
  /\ UNCHANGED <<request, client, stop, pump, result, conn, types, jobs, chan, faults>>

Disappear(i) ==
  /\ churn < MaxChurn
  /\ i \in present
  /\ present' = present \ {i}
  /\ churn' = churn + 1
  /\ Announce("Remove", i, SameType(i) \cap present = {i})
  /\ UNCHANGED <<request, client, stop, pump, result, conn, types, jobs, chan, faults>>

(* An operation fails after it was started. *)
OperationFails(t) ==
  /\ t \in Operations
  /\ Fault
  /\ queue' = Append(queue, ReplyOf(t, "Error", None))
  /\ UNCHANGED <<request, client, stop, pump, result, conn, types, jobs, chan, network>>

-----------------------------------------------------------------------------
PumpStep ==
  \/ CreateConnection \/ SocketFd \/ BrowseRoot
  \/ CheckStop \/ Poll
  \/ MetaReply \/ InstanceAdd \/ InstanceRemove \/ ErrorReply \/ ProcessFails
  \/ StartPending \/ PendingStarted
  \/ DeallocateOp \/ DeallocateShared \/ DropContexts \/ PumpEnds

JobStep(r) == JobStarts(r) \/ Resolved(r) \/ ResolveFails(r) \/ EmitFound(r)

Environment ==
  \/ \E i \in Instances : Appear(i) \/ Disappear(i)
  \/ \E t \in Types \cup {AllTypes} : OperationFails(t)

Terminated ==
  /\ handle = "dropped"
  /\ ~PumpRuns /\ \A r \in Resolvers : ~JobRuns(r)
  /\ UNCHANGED vars

Next ==
  \/ BrowseStart \/ Recv \/ RecvNone \/ DropReceiver \/ DropGuard
  \/ PumpStep
  \/ \E r \in Resolvers : JobStep(r)
  \/ Environment
  \/ Terminated

Spec == Init /\ [][Next]_vars

(* The threads run, every wait in dns_sd ends (poll, the 5 s resolve and   *)
(* the 2 s address lookup have timeouts), the consumer keeps receiving and *)
(* finishes a drop it started.                                             *)
Fairness ==
  /\ WF_vars(PumpStep)
  /\ \A r \in Resolvers : WF_vars(JobStep(r))
  /\ WF_vars(Recv \/ RecvNone)
  /\ WF_vars(DropGuard)

FairSpec == Spec /\ Fairness

-----------------------------------------------------------------------------
(* Safety.                                                                 *)

(* Type correctness of the pump, the jobs, the client and the network.     *)
TypeOK ==
  /\ request \in Types \cup {AllTypes}
  /\ handle \in {"unstarted", "open", "rxdropped", "dropped"}
  /\ stop \in BOOLEAN
  /\ pump \in PumpPCs
  /\ result \in {"ok", "err"}
  /\ shared \in {"none", "open", "closed"}
  /\ ops \in Seq(Types \cup {AllTypes})
  /\ contexts \in {"none", "alive", "freed"}
  /\ queue \in Seq(Replies)
  /\ seen \in SUBSET Types /\ pending \in Seq(Types) /\ skipped \in SUBSET Types
  /\ job \in [Resolvers -> JobPCs]
  /\ target \in [Resolvers -> Instances \cup {None}]
  /\ chan \in Seq(Events)
  /\ ended \in BOOLEAN /\ warned \in BOOLEAN
  /\ view \in [Instances -> {"unknown", "found", "removed"}]
  /\ present \in SUBSET Instances
  /\ churn \in 0..MaxChurn
  /\ faults \in 0..MaxFaults

(* What Drop for SharedConnection and the declaration order in run_pump    *)
(* are there for: on every way out, an operation never outlives the        *)
(* connection it shares nor the contexts its callback dereferences, and a  *)
(* context is not freed while a reply could still be dispatched to it.     *)
CallbacksSafe ==
  /\ ops # <<>> => shared = "open" /\ contexts = "alive"
  /\ contexts = "freed" => shared # "open" /\ pump \in {"report", "done"}

(* PumpState.seen: no type has two operations, or waits to have a second,  *)
(* whatever the meta-query repeats before and after the browse starts.     *)
OneBrowsePerType ==
  \A m, n \in DOMAIN (ops \o pending) :
    (ops \o pending)[m] = (ops \o pending)[n] => m = n

(* Nothing the meta-query reported is forgotten: when the pump goes back   *)
(* to sleep, every type seen is being browsed or was reported as failed,   *)
(* whatever failed before it in the same batch.                            *)
NoTypeForgotten ==
  pump \in {"loop", "poll"} =>
    /\ pending = <<>>
    /\ request = AllTypes => seen = (Operations \ {AllTypes}) \cup skipped

(* A pump that stops on an error says so before the stream ends. *)
ErrorBeforeEnd == ended /\ result = "err" => warned

RxOf(h) == CASE h = "unstarted" -> "none" [] h = "open" -> "open" [] OTHER -> "closed"

ES == INSTANCE EventStream
        WITH Holders <- Threads, senders <- Senders, rx <- RxOf(handle)

(* The pump and the resolves implement the event stream of ServiceBrowser: *)
(* in particular None waits for resolves that outlive the pump.            *)
StreamRefinement == ES!Safety

-----------------------------------------------------------------------------
(* Liveness.                                                               *)

Wanted(i) == request \in {AllTypes, TypeOf[i]}

(* A service of interest that stays on the network ends up Found, also     *)
(* when its type was learned late or the blocking pool was full.           *)
PresentEndsFound ==
  \A i \in Instances :
    <>[](handle = "open" /\ faults = 0 /\ i \in present /\ Wanted(i) => view[i] = "found")

(* Dropping the ServiceBrowser releases every native operation and the     *)
(* connection, ends the thread, and lets the resolves run out.             *)
DropReleasesAll ==
  handle = "dropped" ~> pump = "done" /\ ops = <<>> /\ shared # "open" /\ Senders = {}

(* Whatever ends the pump, the consumer gets its None. *)
StreamEnds == pump = "done" /\ handle = "open" ~> ended \/ handle # "open"

-----------------------------------------------------------------------------
(* Nothing is on its way to the consumer and no failure ever happened. *)
Settled ==
  /\ handle = "open" /\ faults = 0
  /\ chan = <<>> /\ queue = <<>>
  /\ pump \in {"loop", "poll"}
  /\ \A r \in Resolvers : ~JobRuns(r)

(* "Found: A service appeared and was resolved": when all has been said,   *)
(* a service last reported Found is on the network.                        *)
NoGhost == Settled => \A i \in Instances : view[i] = "found" => i \in present
=============================================================================
