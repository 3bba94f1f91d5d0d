----------------------------- MODULE WinBrowse -----------------------------
(***************************************************************************)
(* The Windows back-end (src/windows/browse.rs): one browse() call, from   *)
(* browse_start to the drop of the ServiceBrowser.                         *)
(*                                                                         *)
(* There is no task and no thread of the crate's own: everything happens   *)
(* in browse_start, in the drop of the guard, and in callbacks that the    *)
(* DNS client runs on its threads.  A browse operation lives as long as    *)
(* its BrowseEntry in the registry, an Arc<Mutex<Vec<BrowseEntry>>> owned  *)
(* by the guard; the callbacks hold it weakly and upgrade it to register   *)
(* the browses of the cascade.  Whoever drops the last owner cancels every *)
(* operation and frees every context.                                      *)
(*                                                                         *)
(* Of the DNS client the model assumes what the source relies on: the      *)
(* callbacks of one operation run one at a time, a cancelled operation has *)
(* no further callback, and the cancellation waits for one that runs on    *)
(* another thread.                                                         *)
(*                                                                         *)
(* A definition D_X is a variant of D with a bug, for mutation runs only.  *)
(***************************************************************************)
EXTENDS Naturals, FiniteSets, Sequences, SequencesExt

CONSTANTS
  Types,      (* the (service_type, domain) pairs that may be advertised   *)
  Instances,  (* service instances                                         *)
  Domains,    (* the domains                                               *)
  TypeOf,     (* [Instances -> Types]                                      *)
  DomainOf,   (* [Types -> Domains]                                        *)
  Local,      (* the domain of META_QUERY_TYPE, and the default            *)
  Root,       (* the operation browse_start starts                         *)
  Children,   (* ids for the operations of the cascade                     *)
  Resolves,   (* ids for the resolves                                      *)
  Guard,      (* the client: browse_start, then BrowseGuard                *)
  AllTypes,   (* the request with no service type                          *)
  None,       (* no value                                                  *)
  MaxChurn,   (* bound: appearances and disappearances on the network      *)
  MaxFaults   (* bound: failures of the DNS client                         *)

ASSUME WinConstantsOK ==
  /\ IsFiniteSet(Types) /\ IsFiniteSet(Instances)
  /\ TypeOf \in [Instances -> Types]
  /\ DomainOf \in [Types -> Domains]
  /\ Local \in Domains
  /\ AllTypes \notin Types
  /\ None \notin Types \cup Instances \cup Children \cup {AllTypes, Root, Guard}
  /\ Root \notin Children
  /\ ({Root} \cup Children) \cap Resolves = {}
  /\ Guard \notin {Root} \cup Children \cup Resolves
  /\ MaxChurn \in Nat /\ MaxFaults \in Nat

Ops == {Root} \cup Children

VARIABLES
  request,  (* what browse() was asked for: a type, or AllTypes            *)
  domain,   (* ... and in which domain                                     *)
  handle,   (* the ServiceBrowser: "unstarted", "starting", "failed",      *)
            (* "open", then "rxdropped", "dropping" and "dropped"          *)
  os,       (* each operation: "none", "active", "cancelled"               *)
  ctx,      (* its BrowseContext: "none", "alive", "freed"                 *)
  btype,    (* what it browses                                             *)
  seen,     (* BrowseContext.seen: the names it has handled                *)
  batches,  (* the record lists the DNS client owes its callback           *)
  cb,       (* its callback: "idle", "running", "upgraded", "pushing",     *)
            (* "releasing"                                                 *)
  records,  (* what that callback has left to handle                       *)
  newborn,  (* the operation it started and has not registered yet         *)
  entries,  (* the registry                                                *)
  owners,   (* who holds a strong reference to the registry                *)
  dropper,  (* who is dropping the registry                                *)
  job,      (* each resolve: "idle", "pending", "done"                     *)
  target,   (* the instance it resolves                                    *)
  chan,     (* the unbounded channel to the consumer                       *)
  view,     (* the last event the consumer received of each instance       *)
  dead,     (* a callback has used a context after it was freed            *)
  present,  (* the instances now on the network                            *)
  churn,    (* changes of the network so far                               *)
  faults    (* failures injected so far                                    *)

asked == <<request, domain>>
client == <<handle, view>>
operations == <<os, ctx, btype, seen>>
callbacks == <<batches, cb, records, newborn>>
registry == <<entries, owners, dropper>>
jobs == <<job, target>>
network == <<present, churn>>
vars == <<asked, client, operations, callbacks, registry, jobs, chan, dead, network,
          faults>>

(* A record list is a sequence of PTR targets, and a status. *)
BatchOf(status, targets) == [status |-> status, targets |-> targets]
Batches == [status : {"ok", "failed"}, targets : Seq(Types \cup Instances)]

EventOf(kind, id) == [kind |-> kind, id |-> id]
Events ==
  [kind : {"Found", "ResolveFailed", "BrowseFailed"}, id : Instances \cup {None}]

Init ==
  /\ request \in Types \cup {AllTypes}
  /\ domain \in Domains
  /\ request \in Types => domain = DomainOf[request]
  /\ handle = "unstarted"
  /\ os = [o \in Ops |-> "none"]
  /\ ctx = [o \in Ops |-> "none"]
  /\ btype = [o \in Ops |-> None]
  /\ seen = [o \in Ops |-> {}]
  /\ batches = [o \in Ops |-> <<>>]
  /\ cb = [o \in Ops |-> "idle"]
  /\ records = [o \in Ops |-> <<>>]
  /\ newborn = [o \in Ops |-> None]
  /\ entries = <<>>
  /\ owners = {}
  /\ dropper = None
  /\ job = [r \in Resolves |-> "idle"]
  /\ target = [r \in Resolves |-> None]
  /\ chan = <<>>
  /\ view = [x \in Instances |-> "unknown"]
  /\ dead = FALSE
  /\ present = {}
  /\ churn = 0
  /\ faults = 0

-----------------------------------------------------------------------------
(* Building blocks.                                                        *)

(* Every context and every pending resolve owns a sender. *)
Senders_ContextsHoldNone == {r \in Resolves : job[r] = "pending"}
Senders == {o \in Ops : ctx[o] = "alive"} \cup {r \in Resolves : job[r] = "pending"}

ReceiverAlive == handle \in {"starting", "open"}

Emit(e) == chan' = IF ReceiverAlive THEN Append(chan, e) ELSE chan

Fault == faults < MaxFaults /\ faults' = faults + 1

FreshChild == CHOOSE c \in Children : os[c] = "none"
FreshJob == CHOOSE r \in Resolves : job[r] = "idle"

(* What the DNS client knows and reports to a new operation.  The meta-    *)
(* query is for `local`, whatever domain was asked for.                    *)
Cached(t) ==
  IF t = AllTypes
    THEN {TypeOf[i] : i \in {j \in present : DomainOf[TypeOf[j]] = Local}}
    ELSE {j \in present : TypeOf[j] = t}

(* DnsServiceBrowse, when it returns DNS_REQUEST_PENDING. *)
DnsServiceBrowse(o, t) ==
  /\ os' = [os EXCEPT ![o] = "active"]
  /\ ctx' = [ctx EXCEPT ![o] = "alive"]
  /\ btype' = [btype EXCEPT ![o] = t]
  /\ \E targets \in SetToSeqs(Cached(t)) :
       batches' = [batches EXCEPT ![o] =
         IF targets = <<>> THEN <<>> ELSE <<BatchOf("ok", targets)>>]

-----------------------------------------------------------------------------
(* The client.                                                             *)

BrowseStart ==
  /\ handle = "unstarted"
  /\ \/ /\ handle' = "starting"
        /\ owners' = {Guard}
        /\ DnsServiceBrowse(Root, request)
        /\ UNCHANGED faults
     \/ /\ Fault
        /\ handle' = "failed"
        /\ UNCHANGED <<owners, os, ctx, btype, batches>>
  /\ UNCHANGED <<asked, view, seen, cb, records, newborn, entries, dropper, jobs, chan,
                 dead, network>>

(* start_browse registers the operation, which may already call back. *)
RegisterRoot ==
  /\ handle = "starting"
  /\ handle' = "open"
  /\ entries' = Append(entries, Root)
  /\ UNCHANGED <<asked, view, operations, callbacks, owners, dropper, jobs, chan, dead,
                 network, faults>>

Recv ==
  /\ handle = "open"
  /\ chan # <<>>
  /\ chan' = Tail(chan)
  /\ view' = IF Head(chan).kind = "Found" THEN [view EXCEPT ![Head(chan).id] = "found"]
                                          ELSE view
  /\ UNCHANGED <<asked, handle, operations, callbacks, registry, jobs, dead, network,
                 faults>>

DropReceiver ==
  /\ handle = "open"
  /\ handle' = "rxdropped"
  /\ chan' = <<>>
  /\ UNCHANGED <<asked, view, operations, callbacks, registry, jobs, dead, network, faults>>

(* Giving up a strong reference: the last owner drops the registry. *)
Release_ByGuard(x) ==
  owners' = owners \ {x} /\ dropper' = IF x = Guard /\ owners = {x} THEN x ELSE dropper
Release_NotCounted(x) == owners' = owners \ {x} /\ dropper' = x
Release(x) ==
  /\ owners' = owners \ {x}
  /\ dropper' = IF owners = {x} THEN x ELSE dropper

DropGuard ==
  /\ handle = "rxdropped"
  /\ Release(Guard)
  /\ handle' = IF dropper' = Guard THEN "dropping" ELSE "dropped"
  /\ UNCHANGED <<asked, view, operations, callbacks, entries, jobs, chan, dead, network,
                 faults>>

(* The drop of one BrowseEntry: cancel, then free the context. *)
DropEntry ==
  /\ dropper # None
  /\ entries # <<>>
  /\ LET o == Head(entries) IN
       /\ cb[o] = "idle" \/ dropper = o
       /\ os' = [os EXCEPT ![o] = "cancelled"]
       /\ ctx' = [ctx EXCEPT ![o] = "freed"]
       /\ batches' = [batches EXCEPT ![o] = <<>>]
  /\ entries' = Tail(entries)
  /\ UNCHANGED <<asked, client, btype, seen, cb, records, newborn, owners, dropper, jobs,
                 chan, dead, network, faults>>

RegistryDropped ==
  /\ dropper # None
  /\ entries = <<>>
  /\ dropper' = None
  /\ handle' = IF handle = "dropping" THEN "dropped" ELSE handle
  /\ UNCHANGED <<asked, view, operations, callbacks, entries, owners, jobs, chan, dead,
                 network, faults>>

-----------------------------------------------------------------------------
(* browse_callback.                                                        *)

(* The whole list is walked. *)
RecordsOf_First(batch) == IF batch.targets = <<>> THEN <<>> ELSE <<Head(batch.targets)>>
RecordsOf(batch) == batch.targets

(* A failure is reported; the records that came with it are still handled. *)
CallbackBegins(o) ==
  /\ os[o] = "active"
  /\ cb[o] = "idle"
  /\ batches[o] # <<>>
  /\ cb' = [cb EXCEPT ![o] = "running"]
  /\ records' = [records EXCEPT ![o] = RecordsOf(Head(batches[o]))]
  /\ batches' = [batches EXCEPT ![o] = Tail(@)]
  /\ IF Head(batches[o]).status = "ok" THEN UNCHANGED chan
                                       ELSE Emit(EventOf("BrowseFailed", None))
  /\ UNCHANGED <<asked, client, operations, newborn, registry, jobs, dead, network, faults>>

(* handle_ptr reads the context; what the program does with a freed one is *)
(* undefined, and the callback is not followed any further.                *)
Handling(o) ==
  /\ cb[o] = "running" /\ dropper # o
  /\ records[o] # <<>>
  /\ ctx[o] = "alive"
  /\ records' = [records EXCEPT ![o] = Tail(@)]

UseAfterFree(o) ==
  /\ ~dead
  /\ cb[o] = "running" /\ dropper # o
  /\ records[o] # <<>>
  /\ ctx[o] = "freed"
  /\ dead' = TRUE
  /\ UNCHANGED <<asked, client, operations, callbacks, registry, jobs, chan, network,
                 faults>>

(* seen.insert *)
Unseen_Always(o, x) == TRUE
Unseen(o, x) == x \notin seen[o]
Note(o, x) == seen' = [seen EXCEPT ![o] = @ \cup {x}]

KnownTarget(o) ==
  /\ Handling(o)
  /\ ~Unseen(o, Head(records[o]))
  /\ UNCHANGED <<asked, client, operations, batches, cb, newborn, registry, jobs, chan,
                 dead, network, faults>>

(* ctx.is_meta *)
IsMeta_Never(o) == FALSE
IsMeta(o) == btype[o] = AllTypes

Upgrade_Not(o) == owners
Upgrade(o) == owners \cup {o}

(* A new type: upgrade the registry to start and register its browse. *)
NewType(o) ==
  /\ Handling(o)
  /\ IsMeta(o)
  /\ LET t == Head(records[o]) IN
       /\ Unseen(o, t)
       /\ Note(o, t)
       /\ IF owners # {}
            THEN /\ cb' = [cb EXCEPT ![o] = "upgraded"]
                 /\ newborn' = [newborn EXCEPT ![o] = t]
                 /\ owners' = Upgrade(o)
            ELSE UNCHANGED <<cb, newborn, owners>>
  /\ UNCHANGED <<asked, client, os, ctx, btype, batches, entries, dropper, jobs, chan, dead,
                 network, faults>>

(* start_browse for the new type; its failure is not reported. *)
StartChild(o) ==
  /\ cb[o] = "upgraded"
  /\ \E c \in Children : os[c] = "none"
  /\ \/ /\ DnsServiceBrowse(FreshChild, newborn[o])
        /\ newborn' = [newborn EXCEPT ![o] = FreshChild]
        /\ cb' = [cb EXCEPT ![o] = "pushing"]
        /\ UNCHANGED faults
     \/ /\ Fault
        /\ newborn' = [newborn EXCEPT ![o] = None]
        /\ cb' = [cb EXCEPT ![o] = "releasing"]
        /\ UNCHANGED <<os, ctx, btype, batches>>
  /\ UNCHANGED <<asked, client, seen, records, registry, jobs, chan, dead, network>>

RegisterChild(o) ==
  /\ cb[o] = "pushing"
  /\ entries' = Append(entries, newborn[o])
  /\ newborn' = [newborn EXCEPT ![o] = None]
  /\ cb' = [cb EXCEPT ![o] = "releasing"]
  /\ UNCHANGED <<asked, client, operations, batches, records, owners, dropper, jobs, chan,
                 dead, network, faults>>

(* The upgraded Arc goes out of scope: it may be the last one. *)
ReleaseRegistry(o) ==
  /\ cb[o] = "releasing"
  /\ Release(o)
  /\ cb' = [cb EXCEPT ![o] = "running"]
  /\ UNCHANGED <<asked, client, operations, batches, records, newborn, entries, jobs, chan,
                 dead, network, faults>>

(* A new instance: start_resolve. *)
NewInstance(o) ==
  /\ Handling(o)
  /\ ~IsMeta(o)
  /\ LET i == Head(records[o]) IN
       /\ Unseen(o, i)
       /\ Note(o, i)
       /\ \/ /\ \E r \in Resolves : job[r] = "idle"
             /\ job' = [job EXCEPT ![FreshJob] = "pending"]
             /\ target' = [target EXCEPT ![FreshJob] = i]
             /\ UNCHANGED <<chan, faults>>
          \/ /\ Fault
             /\ Emit(EventOf("ResolveFailed", i))
             /\ UNCHANGED jobs
  /\ UNCHANGED <<asked, client, os, ctx, btype, batches, cb, newborn, registry, dead,
                 network>>

CallbackReturns(o) ==
  /\ cb[o] = "running" /\ dropper # o
  /\ records[o] = <<>>
  /\ cb' = [cb EXCEPT ![o] = "idle"]
  /\ UNCHANGED <<asked, client, operations, batches, records, newborn, registry, jobs, chan,
                 dead, network, faults>>

-----------------------------------------------------------------------------
(* resolve_callback: the DNS client resolves what is on the network, and   *)
(* reports a status otherwise.  Nothing cancels a resolve.                 *)
ResolveCallback(r) ==
  /\ job[r] = "pending"
  /\ \/ target[r] \in present /\ Emit(EventOf("Found", target[r])) /\ UNCHANGED faults
     \/ target[r] \notin present /\ Emit(EventOf("ResolveFailed", target[r]))
          /\ UNCHANGED faults
     \/ Fault /\ Emit(EventOf("ResolveFailed", target[r]))
  /\ job' = [job EXCEPT ![r] = "done"]
  /\ UNCHANGED <<asked, client, operations, callbacks, registry, target, dead, network>>

-----------------------------------------------------------------------------
(* The network and the DNS client.                                         *)

Deliver(o, batch) == batches' = [batches EXCEPT ![o] = Append(@, batch)]

Watching(t) == {o \in Ops : os[o] = "active" /\ btype[o] = t}

(* An item that appears is reported to the operations of its type; the     *)
(* meta-query is told of its type, again perhaps.                          *)
Appear(i) ==
  /\ churn < MaxChurn
  /\ i \notin present
  /\ present' = present \cup {i}
  /\ churn' = churn + 1
  /\ \E meta \in SUBSET Watching(AllTypes) :
       /\ DomainOf[TypeOf[i]] # Local => meta = {}
       /\ (DomainOf[TypeOf[i]] = Local /\ \A j \in present : TypeOf[j] # TypeOf[i])
            => meta = Watching(AllTypes)
       /\ batches' = [o \in Ops |->
            IF o \in Watching(TypeOf[i]) THEN Append(batches[o], BatchOf("ok", <<i>>))
            ELSE IF o \in meta THEN Append(batches[o], BatchOf("ok", <<TypeOf[i]>>))
            ELSE batches[o]]
  /\ UNCHANGED <<asked, client, operations, cb, records, newborn, registry, jobs, chan,
                 dead, faults>>

(* Removals are not reported on Windows. *)
Disappear(i) ==
  /\ churn < MaxChurn
  /\ i \in present
  /\ present' = present \ {i}
  /\ churn' = churn + 1
  /\ UNCHANGED <<asked, client, operations, callbacks, registry, jobs, chan, dead, faults>>

OperationFails(o) ==
  /\ os[o] = "active"
  /\ Fault
  /\ Deliver(o, BatchOf("failed", <<>>))
  /\ UNCHANGED <<asked, client, operations, cb, records, newborn, registry, jobs, chan,
                 dead, network>>

-----------------------------------------------------------------------------
CallbackStep(o) ==
  \/ CallbackBegins(o) \/ KnownTarget(o) \/ NewType(o) \/ NewInstance(o)
  \/ StartChild(o) \/ RegisterChild(o) \/ ReleaseRegistry(o)
  \/ CallbackReturns(o) \/ UseAfterFree(o)

DropStep == DropEntry \/ RegistryDropped

(* Over: nothing is left to run. *)
Terminated ==
  /\ handle \in {"failed", "dropped"}
  /\ dropper = None
  /\ \A o \in Ops : cb[o] = "idle" \/ dead
  /\ \A r \in Resolves : job[r] # "pending"
  /\ UNCHANGED vars

Next ==
  \/ BrowseStart \/ RegisterRoot \/ Recv \/ DropReceiver \/ DropGuard \/ DropStep
  \/ \E o \in Ops : CallbackStep(o) \/ OperationFails(o)
  \/ \E r \in Resolves : ResolveCallback(r)
  \/ \E i \in Instances : Appear(i) \/ Disappear(i)
  \/ Terminated

Spec == Init /\ [][Next]_vars

(* The DNS client runs its callbacks, a drop that began completes, the     *)
(* consumer receives.                                                      *)
Fairness ==
  /\ WF_vars(RegisterRoot)
  /\ WF_vars(DropGuard)
  /\ WF_vars(DropStep)
  /\ WF_vars(Recv)
  /\ \A o \in Ops : WF_vars(CallbackStep(o))
  /\ \A r \in Resolves : WF_vars(ResolveCallback(r))

FairSpec == Spec /\ Fairness

-----------------------------------------------------------------------------
(* Safety.                                                                 *)

(* Type correctness of operations, callbacks, registry and resolves.       *)
TypeOK ==
  /\ request \in Types \cup {AllTypes} /\ domain \in Domains
  /\ handle \in {"unstarted", "starting", "failed", "open", "rxdropped", "dropping",
                 "dropped"}
  /\ os \in [Ops -> {"none", "active", "cancelled"}]
  /\ ctx \in [Ops -> {"none", "alive", "freed"}]
  /\ btype \in [Ops -> Types \cup {AllTypes, None}]
  /\ seen \in [Ops -> SUBSET (Types \cup Instances)]
  /\ batches \in [Ops -> Seq(Batches)]
  /\ cb \in [Ops -> {"idle", "running", "upgraded", "pushing", "releasing"}]
  /\ records \in [Ops -> Seq(Types \cup Instances)]
  /\ newborn \in [Ops -> Types \cup Children \cup {None}]
  /\ entries \in Seq(Ops)
  /\ owners \in SUBSET (Ops \cup {Guard})
  /\ dropper \in Ops \cup {Guard, None}
  /\ job \in [Resolves -> {"idle", "pending", "done"}]
  /\ target \in [Resolves -> Instances \cup {None}]
  /\ chan \in Seq(Events)
  /\ view \in [Instances -> {"unknown", "found"}]
  /\ dead \in BOOLEAN
  /\ present \in SUBSET Instances
  /\ churn \in 0..MaxChurn
  /\ faults \in 0..MaxFaults

Entries == {entries[n] : n \in DOMAIN entries}

(* Once the browser is dropped and no callback holds the registry, no      *)
(* operation is left running: a browse that a callback registers while the *)
(* guard is being dropped is cancelled with the others.                    *)
NoLeakedBrowse ==
  handle = "dropped" /\ owners = {} /\ dropper = None => \A o \in Ops : os[o] # "active"

(* The registry holds running operations with their context, each once.    *)
RegistrySound ==
  /\ \A m, n \in DOMAIN entries : entries[m] = entries[n] => m = n
  /\ \A o \in Entries : os[o] = "active" /\ ctx[o] = "alive"
  /\ \A o \in Ops : os[o] = "active" =>
       \/ o \in Entries
       \/ o = Root /\ handle = "starting"
       \/ \E p \in Ops : cb[p] = "pushing" /\ newborn[p] = o /\ p \in owners

(* The `seen` set of the meta operation: one browse per type, ever.        *)
OneBrowsePerType ==
  \A c, d \in Children : os[c] # "none" /\ os[d] # "none" /\ btype[c] = btype[d] => c = d

(* While the ServiceBrowser is open somebody holds a sender: recv() waits  *)
(* and never answers None (hence no RecvNone here).                        *)
NeverEndsWhileOpen == handle = "open" => Senders # {}

RxOf(h) == CASE h \in {"unstarted", "failed"} -> "none"
             [] h \in {"starting", "open"} -> "open"
             [] OTHER -> "closed"

ES == INSTANCE EventStream
        WITH Holders <- Ops \cup Resolves, senders <- Senders, rx <- RxOf(handle),
             ended <- FALSE

(* Contexts, resolves and callbacks implement the event stream. *)
StreamRefinement == ES!Safety

-----------------------------------------------------------------------------
(* Liveness.                                                               *)

(* Dropping the ServiceBrowser cancels every operation, frees every        *)
(* context and lets the resolves run out, unless a callback outlived its   *)
(* context.                                                                *)
DropCancelsAll ==
  handle = "dropped" ~> (dead \/ (Senders = {} /\ \A o \in Ops : os[o] # "active"))

(* A service whose only change is to appear is found in the end.           *)
Wanted(i) ==
  request \in {AllTypes, TypeOf[i]} /\ (request = AllTypes => DomainOf[TypeOf[i]] = Local)

AppearanceEndsFound ==
  \A i \in Instances :
    <>[](handle = "open" /\ faults = 0 /\ i \in present /\ churn = Cardinality(present)
           /\ Wanted(i) => view[i] = "found")

-----------------------------------------------------------------------------
(* What comments and docs say, for the runs that refute it.                *)

(* browse_callback: the context "outlives the operation (cancelled before  *)
(* free)": a callback never works on a freed context.                      *)
ContextOutlivesCallback == ~dead

(* ServiceBrowserBuilder::domain "Browses a specific domain".              *)
DomainRespected == \A i \in Instances : view[i] = "found" => DomainOf[TypeOf[i]] = domain

(* "Appearances and resolution are [reported]": when all has been said, a  *)
(* service that is on the network was found.                               *)
AppearancesReported ==
  handle = "open" /\ faults = 0 /\ chan = <<>>
    /\ (\A r \in Resolves : job[r] # "pending")
    /\ (\A o \in Ops : cb[o] = "idle" /\ batches[o] = <<>>)
  => \A i \in present : Wanted(i) => view[i] = "found"
=============================================================================
