---------------------------- MODULE LinuxBrowse ----------------------------
(***************************************************************************)
(* The Linux/BSD back-end (src/linux/browse.rs): one browse() call, from   *)
(* browse_start to the drop of the ServiceBrowser, as the tokio tasks that *)
(* run it.                                                                 *)
(*                                                                         *)
(*   Root      browse_all_types, or browse_one_type when a type was asked  *)
(*   Children  the browse_one_type tasks of the meta-query cascade         *)
(*   Resolvers the resolve_and_emit tasks, one per ItemNew of an instance  *)
(*                                                                         *)
(* A browse task holds the handles of the tasks it spawned (AbortOnDrop):  *)
(* when its future is dropped, by returning or by cancellation, they are   *)
(* aborted.  Around the tasks: Avahi, which announces the services of the  *)
(* network on one D-Bus connection per browse task, and the consumer.      *)
(*                                                                         *)
(* A definition D_X is a variant of D with a bug, for mutation runs only.  *)
(*                                                                         *)
(* One action is what a task does between two awaits.  abort() only flags  *)
(* a task; its future is dropped when the task next comes to rest at an    *)
(* await.  A flagged task may therefore be in the middle of a poll and     *)
(* take some more steps before Cancel takes it.                            *)
(***************************************************************************)
EXTENDS Naturals, FiniteSets, Sequences, SequencesExt

CONSTANTS
  Types,      (* the (service_type, domain) pairs that may be advertised   *)
  Instances,  (* Avahi's items: service name, type, domain, interface,     *)
              (* protocol                                                  *)
  Identities, (* the same without the protocol: what Found and Removed say *)
  TypeOf,     (* [Instances -> Types]                                      *)
  Identity,   (* [Instances -> Identities]                                 *)
  Root,       (* the root browse task                                      *)
  Children,   (* task ids for the per-type browses of the cascade          *)
  Resolvers,  (* task ids for the resolvers                                *)
  AllTypes,   (* the request with no service type                          *)
  None,       (* no value                                                  *)
  MaxChurn,   (* bound: appearances and disappearances on the network      *)
  MaxFaults   (* bound: failures of D-Bus and Avahi                        *)

ASSUME ConstantsOK ==
  /\ IsFiniteSet(Types) /\ IsFiniteSet(Instances)
  /\ TypeOf \in [Instances -> Types]
  /\ Identity \in [Instances -> Identities]
  /\ \A i, j \in Instances : Identity[i] = Identity[j] => TypeOf[i] = TypeOf[j]
  /\ AllTypes \notin Types
  /\ None \notin Types \cup Instances \cup Identities \cup {AllTypes}
  /\ Root \notin Children \cup Resolvers
  /\ Children \cap Resolvers = {}
  /\ MaxChurn \in Nat /\ MaxFaults \in Nat

BrowseTasks == {Root} \cup Children
Tasks == BrowseTasks \cup Resolvers

VARIABLES
  request,  (* what browse() was asked for: a type, or AllTypes            *)
  handle,   (* the ServiceBrowser: "unstarted", "failed", "open", then,    *)
            (* while it is dropped, "rxdropped" and "dropped"              *)
  pc,       (* where each task is                                          *)
  btype,    (* what a browse task browses                                  *)
  target,   (* the instance a resolver resolves                            *)
  inbox,    (* signals queued on the connection of a browse task           *)
  seen,     (* the types browse_all_types has met                          *)
  handles,  (* the AbortOnDrop handles a browse task holds                 *)
  aborted,  (* tasks flagged by abort() and not yet at rest                *)
  chan,     (* the unbounded channel to the consumer                       *)
  ended,    (* recv() has answered None                                    *)
  view,     (* the last event the consumer received of each identity       *)
  present,  (* the instances now on the network                            *)
  churn,    (* changes of the network so far                               *)
  faults    (* failures injected so far                                    *)

tasks == <<pc, btype, target, inbox, seen, handles, aborted>>
client == <<handle, ended, view>>
network == <<present, churn>>
vars == <<request, client, tasks, chan, network, faults>>

BrowsePCs == {"idle", "connect", "create", "loop", "free", "done", "cancelled"}
ResolvePCs == {"idle", "call", "resolved", "refused", "done", "cancelled"}

SignalOf(kind, item) == [kind |-> kind, item |-> item]
Signals ==
  [kind : {"ItemNew", "ItemRemove", "Failure", "Other", "Eof"},
   item : Types \cup Instances \cup {None}]

EventOf(kind, id) == [kind |-> kind, id |-> id]
Events ==
  [kind : {"Found", "Removed", "ResolveFailed", "Unavailable", "BrowseFailed"},
   id : Identities \cup {None}]

Init ==
  /\ request \in Types \cup {AllTypes}
  /\ handle = "unstarted"
  /\ pc = [t \in Tasks |-> "idle"]
  /\ btype = [b \in BrowseTasks |-> None]
  /\ target = [r \in Resolvers |-> None]
  /\ inbox = [b \in BrowseTasks |-> <<>>]
  /\ seen = {}
  /\ handles = [b \in BrowseTasks |-> {}]
  /\ aborted = {}
  /\ chan = <<>>
  /\ ended = FALSE
  /\ view = [x \in Identities |-> "unknown"]
  /\ present = {}
  /\ churn = 0
  /\ faults = 0

-----------------------------------------------------------------------------
(* Building blocks.                                                        *)

Live(t) == pc[t] \notin {"idle", "done", "cancelled"}

(* A task owns its clone of the sender until its future is dropped. *)
Senders_BrowsesOnly == {t \in BrowseTasks : Live(t)}
Senders == {t \in Tasks : Live(t)}

Goto(t, l) == pc' = [pc EXCEPT ![t] = l]

(* tx.send: an error the callers ignore once the receiver is dropped. *)
Emit(e) == chan' = IF handle = "open" THEN Append(chan, e) ELSE chan

(* The unfinished tasks whose handles task t holds. *)
Owned_NotBrowses(t) == {x \in handles[t] \cap Resolvers : Live(x)}
Owned_None(t) == {}
Owned(t) == {x \in handles[t] : Live(x)}

(* The end of a future: its handles drop, which aborts what still runs. *)
Finish(t, how) ==
  /\ Goto(t, how)
  /\ IF t \in BrowseTasks
       THEN /\ aborted' = (aborted \ {t}) \cup Owned(t)
            /\ handles' = [handles EXCEPT ![t] = {}]
            /\ inbox' = [inbox EXCEPT ![t] = <<>>]
       ELSE /\ aborted' = aborted \ {t}
            /\ UNCHANGED <<handles, inbox>>
  /\ UNCHANGED <<btype, target, seen>>

(* A failure outside the crate: D-Bus, the Avahi daemon, the connection. *)
Fault == faults < MaxFaults /\ faults' = faults + 1

FreshChild == CHOOSE c \in Children : pc[c] = "idle"
FreshResolver == CHOOSE r \in Resolvers : pc[r] = "idle"

-----------------------------------------------------------------------------
(* The consumer: browse(), recv(), and the drop of the ServiceBrowser.     *)

(* Avahi is probed and the interface index checked before anything starts. *)
BrowseStart ==
  /\ handle = "unstarted"
  /\ \/ /\ Fault
        /\ handle' = "failed"
        /\ UNCHANGED tasks
     \/ /\ handle' = "open"
        /\ Goto(Root, "connect")
        /\ btype' = [btype EXCEPT ![Root] = request]
        /\ UNCHANGED <<target, inbox, seen, handles, aborted, faults>>
  /\ UNCHANGED <<request, ended, view, chan, network>>

(* The consumer folds what it receives into the last event per identity. *)
Recv ==
  /\ handle = "open"
  /\ chan # <<>>
  /\ chan' = Tail(chan)
  /\ LET e == Head(chan) IN
       view' = CASE e.kind = "Found"   -> [view EXCEPT ![e.id] = "found"]
                 [] e.kind = "Removed" -> [view EXCEPT ![e.id] = "removed"]
                 [] OTHER -> view
  /\ UNCHANGED <<request, handle, ended, tasks, network, faults>>

RecvNone ==
  /\ handle = "open"
  /\ chan = <<>>
  /\ Senders = {}
  /\ ended' = TRUE
  /\ UNCHANGED <<request, handle, view, tasks, chan, network, faults>>

(* The fields of ServiceBrowser drop in order: first the receiver ... *)
DropReceiver ==
  /\ handle = "open"
  /\ handle' = "rxdropped"
  /\ chan' = <<>>
  /\ UNCHANGED <<request, ended, view, tasks, network, faults>>

(* ... then the guard, which aborts the root task. *)
DropGuard ==
  /\ handle = "rxdropped"
  /\ handle' = "dropped"
  /\ aborted' = aborted \cup {t \in {Root} : Live(t)}
  /\ UNCHANGED <<request, ended, view, pc, btype, target, inbox, seen, handles,
                 chan, network, faults>>

-----------------------------------------------------------------------------
(* The browse tasks.                                                       *)

(* connect_and_subscribe: the signals are subscribed to before the browser *)
(* object exists.  Any of its four awaits may fail.                        *)
ConnectAndSubscribe(b) ==
  /\ pc[b] = "connect"
  /\ \/ /\ Goto(b, "create")
        /\ UNCHANGED <<btype, target, inbox, seen, handles, aborted, chan, faults>>
     \/ /\ Fault
        /\ \E kind \in {"Unavailable", "BrowseFailed"} : Emit(EventOf(kind, None))
        /\ Finish(b, "done")
  /\ UNCHANGED <<request, client, network>>

(* What Avahi announces at once to a new browser: everything it knows. *)
Cached(b) ==
  IF btype[b] = AllTypes
    THEN {SignalOf("ItemNew", TypeOf[i]) : i \in present}
    ELSE {SignalOf("ItemNew", i) : i \in {j \in present : TypeOf[j] = btype[b]}}

(* The match rule is in place before the browser exists, so the burst of   *)
(* cached entries is queued.                                               *)
Heard_LateSubscription(burst) == <<>>
Heard(burst) == burst

CreateBrowser(b) ==
  /\ pc[b] = "create"
  /\ \/ /\ Goto(b, "loop")
        /\ \E burst \in SetToSeqs(Cached(b)) :
             inbox' = [inbox EXCEPT ![b] = @ \o Heard(burst)]
        /\ UNCHANGED <<btype, target, seen, handles, aborted, chan, faults>>
     \/ /\ Fault
        /\ Emit(EventOf("BrowseFailed", None))
        /\ Finish(b, "done")
  /\ UNCHANGED <<request, client, network>>

Receives(b, kind) ==
  /\ pc[b] = "loop"
  /\ inbox[b] # <<>>
  /\ Head(inbox[b]).kind = kind

Item(b) == Head(inbox[b]).item
Consume(b) == inbox' = [inbox EXCEPT ![b] = Tail(@)]

(* seen.insert *)
Unseen_Always(t) == TRUE
Unseen(t) == t \notin seen

(* browse_all_types: the first ItemNew of a type starts its browse. *)
TypeItemNew ==
  /\ btype[Root] = AllTypes
  /\ Receives(Root, "ItemNew")
  /\ Consume(Root)
  /\ \/ /\ Unseen(Item(Root))
        /\ \E c \in Children : pc[c] = "idle"
        /\ seen' = seen \cup {Item(Root)}
        /\ Goto(FreshChild, "connect")
        /\ btype' = [btype EXCEPT ![FreshChild] = Item(Root)]
        /\ handles' = [handles EXCEPT ![Root] = @ \cup {FreshChild}]
     \/ /\ ~Unseen(Item(Root))
        /\ UNCHANGED <<pc, btype, seen, handles>>
  /\ UNCHANGED <<request, client, target, aborted, chan, network, faults>>

(* The removal of a type is ignored. *)
TypeItemRemove ==
  /\ btype[Root] = AllTypes
  /\ Receives(Root, "ItemRemove")
  /\ Consume(Root)
  /\ UNCHANGED <<request, client, pc, btype, target, seen, handles, aborted, chan,
                 network, faults>>

(* resolvers.retain(|r| !r.0.is_finished()) *)
Retained_Finished(b) == {r \in handles[b] : ~Live(r)}
Retained(b) == {r \in handles[b] : Live(r)}

(* browse_one_type: every ItemNew starts a resolver. *)
ItemNew(b) ==
  /\ btype[b] # AllTypes
  /\ Receives(b, "ItemNew")
  /\ Consume(b)
  /\ \E r \in Resolvers : pc[r] = "idle"
  /\ Goto(FreshResolver, "call")
  /\ target' = [target EXCEPT ![FreshResolver] = Item(b)]
  /\ handles' = [handles EXCEPT ![b] = Retained(b) \cup {FreshResolver}]
  /\ aborted' = aborted \cup {r \in handles[b] \ Retained(b) : Live(r)}
  /\ UNCHANGED <<request, client, btype, seen, chan, network, faults>>

(* A removal is reported at once; a consumer that is gone ends the loop. *)
ItemRemove(b) ==
  /\ btype[b] # AllTypes
  /\ Receives(b, "ItemRemove")
  /\ Consume(b)
  /\ Emit(EventOf("Removed", Identity[Item(b)]))
  /\ IF handle = "open" THEN UNCHANGED pc ELSE Goto(b, "free")
  /\ UNCHANGED <<request, client, btype, target, seen, handles, aborted, network,
                 faults>>

Failure(b) ==
  /\ Receives(b, "Failure")
  /\ Consume(b)
  /\ Emit(EventOf("BrowseFailed", None))
  /\ UNCHANGED <<request, client, pc, btype, target, seen, handles, aborted, network,
                 faults>>

(* Undecodable messages, malformed bodies, AllForNow and CacheExhausted. *)
OtherSignal(b) ==
  /\ Receives(b, "Other")
  /\ Consume(b)
  /\ UNCHANGED <<request, client, pc, btype, target, seen, handles, aborted, chan,
                 network, faults>>

(* The message stream ends with the connection. *)
EndOfSignals(b) ==
  /\ Receives(b, "Eof")
  /\ Goto(b, "free")
  /\ Consume(b)
  /\ UNCHANGED <<request, client, btype, target, seen, handles, aborted, chan, network,
                 faults>>

(* browser.free().await, then the task returns and its handles drop. *)
Free(b) ==
  /\ pc[b] = "free"
  /\ Finish(b, "done")
  /\ UNCHANGED <<request, client, chan, network, faults>>

(* The runtime drops the future of an aborted task. *)
Cancel(t) ==
  /\ t \in aborted
  /\ Live(t)
  /\ Finish(t, "cancelled")
  /\ UNCHANGED <<request, client, chan, network, faults>>

-----------------------------------------------------------------------------
(* The resolvers.  Avahi answers the ResolveService call with the service  *)
(* while it is announced, and with an error when it is not or, at the cost *)
(* of a fault, when the call fails.                                        *)
AvahiReply(r) ==
  /\ r \in Resolvers
  /\ pc[r] = "call"
  /\ \/ target[r] \in present /\ Goto(r, "resolved") /\ UNCHANGED faults
     \/ target[r] \notin present /\ Goto(r, "refused") /\ UNCHANGED faults
     \/ Fault /\ Goto(r, "refused")
  /\ UNCHANGED <<request, client, btype, target, inbox, seen, handles, aborted, chan,
                 network>>

Outcome(r) ==
  EventOf(IF pc[r] = "resolved" THEN "Found" ELSE "ResolveFailed", Identity[target[r]])

(* The rest of resolve_and_emit once the reply is in. *)
EmitResult(r) ==
  /\ pc[r] \in {"resolved", "refused"}
  /\ Emit(Outcome(r))
  /\ Finish(r, "done")
  /\ UNCHANGED <<request, client, network, faults>>

-----------------------------------------------------------------------------
(* The network, and Avahi that reports on it.                              *)

(* The browsers to which Avahi still sends signals. *)
Connected(b) ==
  pc[b] = "loop" /\ \A n \in DOMAIN inbox[b] : inbox[b][n].kind # "Eof"

Watches(b, t) == Connected(b) /\ btype[b] = t

(* Each watcher of the item's type hears of it.  The meta-query hears of   *)
(* the type when its first item appears or its last one goes (typeNews),   *)
(* and may hear of it again for another interface or protocol.             *)
Announce(kind, i, typeNews) ==
  \E repeat \in BOOLEAN :
    inbox' = [b \in BrowseTasks |->
      CASE Watches(b, TypeOf[i]) -> Append(inbox[b], SignalOf(kind, i))
        [] Watches(b, AllTypes) /\ (typeNews \/ repeat) ->
             Append(inbox[b], SignalOf(kind, TypeOf[i]))
        [] OTHER -> inbox[b]]

SameType(i) == {j \in Instances : TypeOf[j] = TypeOf[i]}

Appear(i) ==
  /\ churn < MaxChurn
  /\ i \notin present
  /\ present' = present \cup {i}
  /\ churn' = churn + 1
  /\ Announce("ItemNew", i, SameType(i) \cap present = {})
  /\ UNCHANGED <<request, client, pc, btype, target, seen, handles, aborted, chan,
                 faults>>

Disappear(i) ==
  /\ churn < MaxChurn
  /\ i \in present
  /\ present' = present \ {i}
  /\ churn' = churn + 1
  /\ Announce("ItemRemove", i, SameType(i) \cap present = {i})
  /\ UNCHANGED <<request, client, pc, btype, target, seen, handles, aborted, chan,
                 faults>>

(* A Failure signal, one the loop cannot use, or the loss of the D-Bus     *)
(* connection.                                                             *)
AvahiFault(b) ==
  /\ Connected(b)
  /\ Fault
  /\ \E kind \in {"Failure", "Other", "Eof"} :
       inbox' = [inbox EXCEPT ![b] = Append(@, SignalOf(kind, None))]
  /\ UNCHANGED <<request, client, pc, btype, target, seen, handles, aborted, chan,
                 network>>

-----------------------------------------------------------------------------
(* One step of a browse task, of a resolver. *)
BrowseStep(b) ==
  \/ ConnectAndSubscribe(b) \/ CreateBrowser(b)
  \/ ItemNew(b) \/ ItemRemove(b) \/ Failure(b) \/ OtherSignal(b) \/ EndOfSignals(b)
  \/ Free(b)

TypeStep == TypeItemNew \/ TypeItemRemove

ResolverStep(r) == AvahiReply(r) \/ EmitResult(r)

Environment ==
  \/ \E i \in Instances : Appear(i) \/ Disappear(i)
  \/ \E b \in BrowseTasks : AvahiFault(b)

(* Nothing is left to run and nobody to listen. *)
Terminated ==
  /\ handle \in {"failed", "dropped"}
  /\ Senders = {}
  /\ UNCHANGED vars

Next ==
  \/ BrowseStart \/ Recv \/ RecvNone \/ DropReceiver \/ DropGuard
  \/ TypeStep
  \/ \E b \in BrowseTasks : BrowseStep(b)
  \/ \E r \in Resolvers : ResolverStep(r)
  \/ \E t \in Tasks : Cancel(t)
  \/ Environment
  \/ Terminated

Spec == Init /\ [][Next]_vars

(* The runtime polls every task that can run, drops the aborted ones, and  *)
(* Avahi answers every call; the consumer keeps calling recv() and, once   *)
(* it starts to drop the ServiceBrowser, the drop completes.  Nothing      *)
(* obliges the consumer to drop it, nor the network to change.             *)
Fairness ==
  /\ WF_vars(TypeStep)
  /\ \A b \in BrowseTasks : WF_vars(BrowseStep(b))
  /\ \A r \in Resolvers : WF_vars(ResolverStep(r))
  /\ \A t \in Tasks : WF_vars(Cancel(t))
  /\ WF_vars(Recv \/ RecvNone)
  /\ WF_vars(DropGuard)

FairSpec == Spec /\ Fairness

-----------------------------------------------------------------------------
(* Safety.                                                                 *)

TasksTypeOK ==
  /\ pc \in [Tasks -> BrowsePCs \cup ResolvePCs]
  /\ \A b \in BrowseTasks : pc[b] \in BrowsePCs
  /\ \A r \in Resolvers : pc[r] \in ResolvePCs
  /\ btype \in [BrowseTasks -> Types \cup {AllTypes, None}]
  /\ target \in [Resolvers -> Instances \cup {None}]
  /\ inbox \in [BrowseTasks -> Seq(Signals)]
  /\ seen \in SUBSET Types
  /\ handles \in [BrowseTasks -> SUBSET (Children \cup Resolvers)]
  /\ aborted \in SUBSET Tasks

(* Type correctness of the tasks, the client and the network.              *)
TypeOK ==
  /\ request \in Types \cup {AllTypes}
  /\ handle \in {"unstarted", "failed", "open", "rxdropped", "dropped"}
  /\ TasksTypeOK
  /\ chan \in Seq(Events)
  /\ ended \in BOOLEAN
  /\ view \in [Identities -> {"unknown", "found", "removed"}]
  /\ present \in SUBSET Instances
  /\ churn \in 0..MaxChurn
  /\ faults \in 0..MaxFaults

(* The promise of AbortOnDrop: a running child or resolver is always in    *)
(* the hands of a running browse task, or already flagged for abort.  No   *)
(* task escapes the cascade, whatever the order of returns, aborts and     *)
(* spawns by tasks that are themselves being aborted.                      *)
NoOrphans ==
  \A t \in Children \cup Resolvers :
    Live(t) => t \in aborted \/ \E b \in BrowseTasks : Live(b) /\ t \in handles[b]

(* The `seen` set of browse_all_types: however often the meta-query repeats *)
(* a type, drops it and brings it back, one task at most ever browses it.   *)
OneBrowsePerType ==
  \A c, d \in Children :
    pc[c] # "idle" /\ pc[d] # "idle" /\ btype[c] = btype[d] => c = d

(* Pruning the finished handles (resolvers.retain) never drops, and so     *)
(* aborts, a resolver still at work: while its browse is in its loop, a    *)
(* resolver is cut short by nobody.                                        *)
ResolversRunToCompletion ==
  \A b \in BrowseTasks, r \in Resolvers :
    pc[b] = "loop" /\ pc[r] # "idle" /\ TypeOf[target[r]] = btype[b] =>
      pc[r] # "cancelled" /\ r \notin aborted

(* recv() answers None only when the whole cascade is over: the tx clones  *)
(* of the resolvers and of the per-type browses keep the stream open.      *)
EndedMeansOver ==
  ended => chan = <<>> /\ \A t \in Tasks : pc[t] \in {"idle", "done", "cancelled"}

(* The event stream is the one EventStream specifies. *)
RxOf(h) == CASE h \in {"unstarted", "failed"} -> "none"
             [] h = "open" -> "open"
             [] OTHER -> "closed"

ES == INSTANCE EventStream
        WITH Holders <- Tasks, senders <- Senders, rx <- RxOf(handle)

(* The tasks, their aborts and the drop of the ServiceBrowser implement    *)
(* the event stream promised by browse.rs: nothing sent is lost, reordered *)
(* or invented, and nothing restarts after the last sender is gone.        *)
StreamRefinement == ES!Safety

-----------------------------------------------------------------------------
(* Liveness.                                                               *)

Wanted(i) == request \in {AllTypes, TypeOf[i]}

(* The consumer's picture converges: a service of interest that stays on   *)
(* the network ends up Found, even if it was announced before the browse,  *)
(* came and went while being resolved, or is of a type discovered late.    *)
(* Stated for identities that belong to one instance.                      *)
PresentEndsFound ==
  \A i \in Instances :
    <>[](handle = "open" /\ faults = 0 /\ i \in present /\ Wanted(i)
          => view[Identity[i]] = "found")

(* Dropping the ServiceBrowser stops the whole cascade, children and       *)
(* resolvers included (browse.rs: "The underlying native browse operation  *)
(* is stopped when this handle is dropped").                               *)
DropStopsEverything == handle = "dropped" ~> Senders = {}

(* A browse whose root task is over ends the stream: recv() does not wait  *)
(* for ever on a cascade that lost its root.                               *)
StreamEnds == pc[Root] = "done" /\ handle = "open" ~> ended \/ handle # "open"

-----------------------------------------------------------------------------
(* What the documentation of BrowseEvent says, for the runs that refute it.*)

(* Nothing is on its way to the consumer and no failure ever happened. *)
Settled ==
  /\ handle = "open"
  /\ faults = 0
  /\ chan = <<>>
  /\ \A r \in Resolvers : ~Live(r)
  /\ \A b \in BrowseTasks : Live(b) => pc[b] = "loop" /\ inbox[b] = <<>>

(* "Found: A service appeared and was resolved": when all has been said,   *)
(* a service last reported Found is on the network.                        *)
NoGhost ==
  Settled => \A x \in Identities :
    view[x] = "found" => \E i \in present : Identity[i] = x

(* "Removed: A previously seen service went away": when all has been said, *)
(* a service last reported Removed is no longer on the network.            *)
NoLostService ==
  Settled => \A x \in Identities :
    view[x] = "removed" => \A i \in present : Identity[i] # x
=============================================================================
