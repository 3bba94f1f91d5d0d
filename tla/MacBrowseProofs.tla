-------------------------- MODULE MacBrowseProofs --------------------------
(***************************************************************************)
(* Proofs about MacBrowse, for every set of types, services and resolves,  *)
(* every pool and every bound.  One inductive invariant, IInv, carries all *)
(* of them.                                                                *)
(***************************************************************************)
EXTENDS MacBrowse, TLAPS, SequenceTheorems, FiniteSetTheorems

(* The parts of run_pump: before the first operation, in pump_loop, and    *)
(* after the drop of everything it owned.                                  *)
Early == {"unborn", "create", "fd", "browse"}
Serving == {"loop", "poll", "dispatch", "pending"}
Gone == {"report", "done"}

(* What the connection, its operations and the contexts are at each place. *)
PhaseInv ==
  /\ handle = "unstarted" <=> pump = "unborn"
  /\ pump = "unborn" => contexts = "none" /\ shared = "none"
  /\ pump = "create" => contexts = "alive" /\ shared = "none"
  /\ pump \in {"fd", "browse"} \cup Serving => contexts = "alive" /\ shared = "open"
  /\ pump = "teardown" => contexts = "alive" /\ (ops # <<>> => shared = "open")
  /\ pump \in Gone => contexts = "freed" /\ shared # "open" /\ ops = <<>>
  /\ pump \in Early => ops = <<>> /\ pending = <<>> /\ seen = {} /\ skipped = {}
  /\ pump \in {"loop", "poll"} => pending = <<>>
  /\ result = "err" => pump \in {"teardown"} \cup Gone

(* The replies that may come for this request: those of the meta-query     *)
(* name types and come only if it was asked for, the others name services. *)
Owed ==
  [op : {AllTypes} \cap {request}, kind : {"Add", "Remove"}, item : Types]
  \cup [op : Types, kind : {"Add", "Remove"}, item : Instances]
  \cup [op : Types \cup {AllTypes}, kind : {"Error"}, item : {None}]

QueueInv == queue \in Seq(Owed)

(* Each type is in one place: browsed, or waiting, or given up.            *)
Waiting == {pending[n] : n \in DOMAIN pending}

BrowseInv ==
  /\ \A m \in DOMAIN ops : ops[m] \in seen \cup {request}
  /\ \A m \in DOMAIN pending : pending[m] \in seen
  /\ \A m, n \in DOMAIN ops : ops[m] = ops[n] => m = n
  /\ \A m, n \in DOMAIN pending : pending[m] = pending[n] => m = n
  /\ \A m \in DOMAIN ops, n \in DOMAIN pending : ops[m] # pending[n]
  /\ seen # {} => request = AllTypes
  /\ pump \in Serving /\ request = AllTypes =>
       seen = (Operations \ {AllTypes}) \cup skipped \cup Waiting

(* The error of the pump is on its way to the consumer, or was received.   *)
EndInv ==
  /\ ended => pump = "done" /\ (result = "err" => warned)
  /\ pump = "done" /\ result = "err" /\ handle = "open" =>
       warned \/ \E n \in DOMAIN chan : chan[n].kind = "BrowseFailed"

IInv == TypeOK /\ PhaseInv /\ QueueInv /\ BrowseInv /\ EndInv

-----------------------------------------------------------------------------
(* Queues and bursts. *)

(* A burst of replies of a kind is a sequence of them. *)
LEMMA BurstTyped ==
  ASSUME NEW S, NEW T, IsFiniteSet(S), S \subseteq T, queue \in Seq(T), Enqueue(S)
  PROVE  queue' \in Seq(T)
<1>1. PICK burst \in SetToSeqs(S) : queue' = queue \o burst
  BY DEF Enqueue
<1>2. Cardinality(S) \in Nat
  BY FS_CardinalityType
<1>3. burst \in [1..Cardinality(S) -> S]
  BY <1>1 DEF SetToSeqs
<1>4. burst \in Seq(S)
  BY <1>2, <1>3, SeqDef
<1>5. burst \in Seq(T)
  BY <1>4, SeqMonotonic
<1>6. QED
  BY <1>1, <1>5, ConcatProperties

(* What the daemon has cached for an operation is owed to it. *)
LEMMA CachedOwed ==
  ASSUME present \in SUBSET Instances, NEW t \in Types \cup {AllTypes},
         t = AllTypes => request = AllTypes
  PROVE  IsFiniteSet(Cached(t)) /\ Cached(t) \subseteq Owed
<1> USE MacConstantsOK
<1>1. IsFiniteSet(present)
  BY FS_Subset
<1>2. CASE t = AllTypes
  <2> DEFINE f == [i \in present |-> ReplyOf(t, "Add", TypeOf[i])]
  <2>1. Cached(t) = {f[i] : i \in present}
    BY <1>2 DEF Cached
  <2>2. f \in Surjection(present, Cached(t))
    BY <2>1 DEF Surjection
  <2>3. IsFiniteSet(Cached(t))
    BY <1>1, <2>2, FS_Surjection
  <2>4. \A i \in present : ReplyOf(t, "Add", TypeOf[i]) \in Owed
    BY <1>2 DEF Owed, ReplyOf
  <2>5. QED
    BY <1>2, <2>3, <2>4 DEF Cached
<1>3. CASE t # AllTypes
  <2> DEFINE P == {j \in present : TypeOf[j] = t}
             g == [i \in P |-> ReplyOf(t, "Add", i)]
  <2>1. Cached(t) = {g[i] : i \in P}
    BY <1>3 DEF Cached
  <2>2. g \in Surjection(P, Cached(t))
    BY <2>1 DEF Surjection
  <2>3. IsFiniteSet(P)
    BY <1>1, FS_Subset
  <2>4. IsFiniteSet(Cached(t))
    BY <2>2, <2>3, FS_Surjection
  <2>5. \A i \in P : ReplyOf(t, "Add", i) \in Owed
    BY <1>3 DEF Owed, ReplyOf
  <2>6. QED
    BY <1>3, <2>4, <2>5 DEF Cached
<1>4. QED
  BY <1>2, <1>3

(* So is what it says when a service comes or goes. *)
LEMMA AnnounceOwed ==
  ASSUME QueueInv, NEW i \in Instances, NEW kind \in {"Add", "Remove"}, NEW news \in BOOLEAN,
         AllTypes \in Operations => request = AllTypes,
         Announce(kind, i, news), UNCHANGED request
  PROVE  QueueInv'
<1> USE MacConstantsOK
<1>1. PICK repeat \in BOOLEAN :
        Enqueue({ReplyOf(t, kind, i) : t \in Operations \cap {TypeOf[i]}}
                \cup {ReplyOf(t, kind, TypeOf[i]) :
                        t \in {x \in Operations \cap {AllTypes} : news \/ repeat}})
  BY DEF Announce
<1> DEFINE A == {ReplyOf(t, kind, i) : t \in Operations \cap {TypeOf[i]}}
           B == {ReplyOf(t, kind, TypeOf[i]) :
                   t \in {x \in Operations \cap {AllTypes} : news \/ repeat}}
<1>2. /\ \A x \in A : x = ReplyOf(TypeOf[i], kind, i)
      /\ \A x \in B : x = ReplyOf(AllTypes, kind, TypeOf[i]) /\ AllTypes \in Operations
  OBVIOUS
<1>3. IsFiniteSet(A \cup B)
  <2> HIDE DEF A, B
  <2>1. A \in SUBSET {ReplyOf(TypeOf[i], kind, i)} /\ B \in SUBSET {ReplyOf(AllTypes, kind, TypeOf[i])}
    BY <1>2
  <2>2. IsFiniteSet(A)
    BY <2>1, FS_Singleton, FS_Subset
  <2>3. IsFiniteSet(B)
    BY <2>1, FS_Singleton, FS_Subset
  <2>4. QED
    BY <2>2, <2>3, FS_Union
<1>4. A \subseteq Owed
  <2> HIDE DEF A
  <2>1. ReplyOf(TypeOf[i], kind, i) \in Owed
    BY DEF Owed, ReplyOf
  <2>2. QED
    BY <1>2, <2>1
<1>5. B \subseteq Owed
  <2> HIDE DEF B
  <2>1. AllTypes \in Operations => ReplyOf(AllTypes, kind, TypeOf[i]) \in Owed
    BY DEF Owed, ReplyOf
  <2>2. QED
    BY <1>2, <2>1
<1>6. Enqueue(A \cup B) /\ A \cup B \subseteq Owed
  BY <1>1, <1>4, <1>5
<1> HIDE DEF A, B
<1>7. queue' \in Seq(Owed)
  BY <1>3, <1>6, BurstTyped DEF QueueInv
<1>8. QED
  BY <1>7 DEF QueueInv, Owed

-----------------------------------------------------------------------------
(* The pump keeps its phases: every way out of run_pump goes through the   *)
(* same teardown.                                                          *)
LEMMA NextPhase == TypeOK /\ PhaseInv /\ [Next]_vars => PhaseInv'
<1> SUFFICES ASSUME TypeOK, PhaseInv, [Next]_vars PROVE PhaseInv'
  OBVIOUS
<1> USE DEF PhaseInv, Early, Serving, Gone, client, conn, types
<1>1. CASE BrowseStart
  BY <1>1 DEF BrowseStart
<1>2. CASE Recv \/ RecvNone \/ DropReceiver \/ DropGuard
  BY <1>2 DEF Recv, RecvNone, DropReceiver, DropGuard
<1>3. CASE CreateConnection
  BY <1>3 DEF CreateConnection, Fails
<1>4. CASE SocketFd
  BY <1>4 DEF SocketFd, Fails
<1>5. CASE BrowseRoot
  BY <1>5 DEF BrowseRoot, Fails
<1>6. CASE CheckStop
  BY <1>6 DEF CheckStop
<1>7. CASE Poll
  BY <1>7 DEF Poll, Fails
<1>8. CASE Dispatching
  BY <1>8 DEF Dispatching, AfterReply
<1>9. CASE ProcessFails
  BY <1>9 DEF ProcessFails, Fails
<1>10. CASE StartPending
  BY <1>10 DEF StartPending, AfterSkip
<1>11. CASE PendingStarted
  BY <1>11 DEF PendingStarted
<1>12. CASE DeallocateOp
  BY <1>12 DEF DeallocateOp
<1>13. CASE DeallocateShared
  BY <1>13 DEF DeallocateShared, MayClose
<1>14. CASE DropContexts
  BY <1>14 DEF DropContexts
<1>15. CASE PumpEnds
  BY <1>15 DEF PumpEnds
<1>16. CASE \E r \in Resolvers : JobStep(r)
  BY <1>16 DEF JobStep, JobStarts, Resolved, ResolveFails, EmitFound
<1>17. CASE Environment
  BY <1>17 DEF Environment, Appear, Disappear, OperationFails
<1>18. CASE Terminated \/ UNCHANGED vars
  BY <1>18 DEF Terminated, vars
<1>19. QED
  BY <1>1, <1>2, <1>3, <1>4, <1>5, <1>6, <1>7, <1>8, <1>9, <1>10, <1>11, <1>12, <1>13, <1>14,
     <1>15, <1>16, <1>17, <1>18
     DEF Next, PumpStep, MetaReply, InstanceAdd, InstanceRemove, ErrorReply

-----------------------------------------------------------------------------
(* The replies that are queued are owed to this request. *)

(* Only a request for all types runs the meta-query. *)
LEMMA MetaIsAsked ==
  ASSUME TypeOK, BrowseInv
  PROVE  AllTypes \in Operations => request = AllTypes
BY MacConstantsOK DEF TypeOK, BrowseInv, Operations

(* A reply is well typed. *)
LEMMA OwedTyped == ASSUME TypeOK PROVE Owed \subseteq Replies
BY MacConstantsOK DEF TypeOK, Owed, Replies

(* The reply at the head of the queue, and those behind it. *)
LEMMA HeadOwed ==
  ASSUME QueueInv, queue # <<>>
  PROVE  Head(queue) \in Owed /\ Tail(queue) \in Seq(Owed)
BY HeadTailProperties DEF QueueInv

(* The item of a reply is what its operation browses for. *)
LEMMA ItemTyped ==
  ASSUME QueueInv, queue # <<>>
  PROVE  /\ Head(queue).op = AllTypes /\ Head(queue).kind # "Error" =>
              Head(queue).item \in Types /\ request = AllTypes
         /\ Head(queue).op # AllTypes /\ Head(queue).kind # "Error" => Head(queue).item \in Instances
<1>1. Head(queue) \in Owed
  BY HeadOwed
<1>2. QED
  BY <1>1, MacConstantsOK DEF Owed

(* Every step leaves only such replies in the queue. *)
LEMMA NextQueue == TypeOK /\ PhaseInv /\ QueueInv /\ BrowseInv /\ [Next]_vars => QueueInv'
<1> SUFFICES ASSUME TypeOK, PhaseInv, QueueInv, BrowseInv, [Next]_vars PROVE QueueInv'
  OBVIOUS
<1>1. UNCHANGED request
  BY DEF Next, vars, BrowseStart, Recv, RecvNone, DropReceiver, DropGuard, PumpStep,
         CreateConnection, SocketFd, BrowseRoot, CheckStop, Poll, MetaReply, InstanceAdd,
         InstanceRemove, ErrorReply, Dispatching, ProcessFails, StartPending, PendingStarted,
         DeallocateOp, DeallocateShared, DropContexts, PumpEnds, JobStep, JobStarts, Resolved,
         ResolveFails, EmitFound, Environment, Appear, Disappear, OperationFails, Terminated
<1>2. ASSUME queue' \in Seq(Owed) PROVE QueueInv'
  BY <1>1, <1>2 DEF QueueInv, Owed
<1>3. CASE UNCHANGED queue
  BY <1>2, <1>3 DEF QueueInv
<1>4. ASSUME NEW t \in Types \cup {AllTypes}, t = AllTypes => request = AllTypes, StartBrowse(t)
      PROVE  QueueInv'
  <2>1. IsFiniteSet(Cached(t)) /\ Cached(t) \subseteq Owed
    BY <1>4, CachedOwed DEF TypeOK
  <2>2. QED
    BY <1>2, <1>4, <2>1, BurstTyped DEF StartBrowse, QueueInv
<1>5. CASE BrowseRoot
  BY <1>3, <1>4, <1>5 DEF BrowseRoot, TypeOK
<1>6. CASE Dispatching
  BY <1>2, <1>6, HeadOwed DEF Dispatching
<1>7. CASE StartPending
  <2>1. Head(pending) \in Types
    BY <1>7, HeadTailProperties DEF StartPending, TypeOK
  <2>2. QED
    BY <1>3, <1>4, <1>7, <2>1, MacConstantsOK DEF StartPending
<1>8. CASE DeallocateShared
  BY <1>2, <1>8, EmptySeq DEF DeallocateShared
<1>9. ASSUME NEW i \in Instances, Appear(i) \/ Disappear(i) PROVE QueueInv'
  <2>1. PICK kind \in {"Add", "Remove"}, news \in BOOLEAN : Announce(kind, i, news)
    BY <1>9 DEF Appear, Disappear
  <2>2. QED
    BY <1>1, <1>9, <2>1, AnnounceOwed, MetaIsAsked
<1>10. ASSUME NEW t \in Types \cup {AllTypes}, OperationFails(t) PROVE QueueInv'
  <2>1. ReplyOf(t, "Error", None) \in Owed
    BY DEF Owed, ReplyOf
  <2>2. QED
    BY <1>2, <1>10, <2>1, AppendProperties DEF OperationFails, QueueInv
<1>11. CASE BrowseStart \/ Recv \/ RecvNone \/ DropReceiver \/ DropGuard \/ Terminated \/ UNCHANGED vars
  BY <1>3, <1>11
     DEF BrowseStart, Recv, RecvNone, DropReceiver, DropGuard, Terminated, vars
<1>12. CASE PumpStep
  BY <1>3, <1>5, <1>6, <1>7, <1>8, <1>12
     DEF PumpStep, CreateConnection, SocketFd, CheckStop, Poll, MetaReply, InstanceAdd, InstanceRemove,
         ErrorReply, ProcessFails, PendingStarted, DeallocateOp, DropContexts, PumpEnds
<1>13. CASE \E r \in Resolvers : JobStep(r)
  BY <1>3, <1>13 DEF JobStep, JobStarts, Resolved, ResolveFails, EmitFound
<1>14. QED
  BY <1>9, <1>10, <1>11, <1>12, <1>13 DEF Next, Environment

-----------------------------------------------------------------------------
(* Each type is browsed once and none is forgotten.                        *)

(* A step that starts nothing and learns nothing. *)
LEMMA QuietBrowse ==
  ASSUME BrowseInv, UNCHANGED <<request, ops, seen, pending, skipped>>,
         pump' \in Serving => pump \in Serving
  PROVE  BrowseInv'
BY DEF BrowseInv, Operations, Waiting

(* The first operation. *)
LEMMA BrowseRootKeeps ==
  ASSUME TypeOK, PhaseInv, BrowseInv, BrowseRoot
  PROVE  BrowseInv'
<1>1. UNCHANGED <<request, seen, pending, skipped>>
  BY DEF BrowseRoot, types
<1>2. CASE ops' = Append(ops, request) /\ pump' = "loop"
  <2>1. ops = <<>> /\ pending = <<>> /\ seen = {} /\ skipped = {}
    BY DEF BrowseRoot, PhaseInv, Early
  <2>2. ops' = <<request>>
    BY <1>2, <2>1
  <2>3. DOMAIN ops' = {1} /\ ops'[1] = request /\ DOMAIN pending' = {}
    BY <1>1, <2>1, <2>2
  <2>4. Waiting' = {} /\ Operations' = {request}
    BY <2>3 DEF Waiting, Operations
  <2>5. QED
    BY <1>1, <2>1, <2>3, <2>4 DEF BrowseInv
<1>3. CASE UNCHANGED ops /\ pump' = "teardown"
  BY <1>1, <1>3, QuietBrowse DEF Serving
<1>4. QED
  BY <1>2, <1>3 DEF BrowseRoot, StartBrowse, Fails

(* A reply of the meta-query. *)
LEMMA MetaReplyKeeps ==
  ASSUME TypeOK, QueueInv, BrowseInv, MetaReply
  PROVE  BrowseInv'
<1>1. UNCHANGED <<request, ops, skipped>> /\ pump \in Serving /\ queue # <<>>
  BY DEF MetaReply, Dispatching, conn, Serving
<1>2. CASE UNCHANGED <<seen, pending>>
  BY <1>1, <1>2, QuietBrowse
<1>3. CASE \E t \in Types : t \notin seen /\ seen' = seen \cup {t} /\ pending' = Append(pending, t)
  <2>1. PICK t \in Types : t \notin seen /\ seen' = seen \cup {t} /\ pending' = Append(pending, t)
    BY <1>3
  <2>2. request = AllTypes /\ t # AllTypes
    <3>1. Head(queue).op = AllTypes /\ Head(queue).kind # "Error"
      BY DEF MetaReply
    <3>2. QED
      BY <1>1, <3>1, ItemTyped, MacConstantsOK
  <2>3. /\ pending \in Seq(Types) /\ Len(pending) \in Nat /\ DOMAIN pending = 1..Len(pending)
        /\ DOMAIN pending' = 1..(Len(pending) + 1)
        /\ \A n \in 1..Len(pending) : pending'[n] = pending[n]
        /\ pending'[Len(pending) + 1] = t
    BY <2>1 DEF TypeOK
  <2>4. \A m \in DOMAIN pending' : (m \in DOMAIN pending /\ pending'[m] = pending[m]) \/ pending'[m] = t
    BY <2>3
  <2>5. Waiting' = Waiting \cup {t}
    BY <2>3, <2>4 DEF Waiting
  <2>6. Operations' = Operations
    BY <1>1 DEF Operations
  <2>7. \A m \in DOMAIN pending' : pending'[m] \in seen'
    BY <2>1, <2>4 DEF BrowseInv
  <2>8. \A m, n \in DOMAIN pending' : pending'[m] = pending'[n] => m = n
    <3>1. \A m \in DOMAIN pending : pending[m] # t
      BY <2>1 DEF BrowseInv
    <3>2. \A m, n \in DOMAIN pending : pending[m] = pending[n] => m = n
      BY DEF BrowseInv
    <3>3. QED
      BY <2>3, <3>1, <3>2
  <2>9. \A m \in DOMAIN ops, n \in DOMAIN pending' : ops[m] # pending'[n]
    <3>1. \A m \in DOMAIN ops : ops[m] # t
      BY <2>1, <2>2 DEF BrowseInv
    <3>2. QED
      BY <2>4, <3>1 DEF BrowseInv
  <2>10. pump' \in Serving => seen' = (Operations' \ {AllTypes}) \cup skipped' \cup Waiting'
    BY <1>1, <2>1, <2>2, <2>5, <2>6 DEF BrowseInv
  <2>11. QED
    BY <1>1, <2>1, <2>2, <2>7, <2>8, <2>9, <2>10 DEF BrowseInv
<1>4. Head(queue).op = AllTypes /\ Head(queue).kind # "Error"
  BY DEF MetaReply
<1>5. Head(queue).item \in Types
  BY <1>1, <1>4, ItemTyped
<1>6. QED
  BY <1>2, <1>3, <1>5 DEF MetaReply, Unseen

(* The first of the waiting types gets its operation, or is given up. *)
LEMMA StartPendingKeeps ==
  ASSUME TypeOK, PhaseInv, BrowseInv, StartPending
  PROVE  BrowseInv'
<1> DEFINE t == Head(pending)
<1>1. UNCHANGED <<request, seen>> /\ pump \in Serving /\ pending # <<>>
  BY DEF StartPending, Serving
<1>2. /\ pending \in Seq(Types) /\ Len(pending) \in Nat \ {0} /\ DOMAIN pending = 1..Len(pending)
      /\ DOMAIN pending' = 1..(Len(pending) - 1)
      /\ \A n \in DOMAIN pending' : pending'[n] = pending[n + 1] /\ n + 1 \in DOMAIN pending
      /\ t = pending[1] /\ 1 \in DOMAIN pending /\ t \in Types
  <2>1. pending' = Tail(pending) /\ pending \in Seq(Types)
    BY DEF StartPending, TypeOK
  <2>2. QED
    BY <1>1, <2>1, HeadTailProperties
<1> HIDE DEF t
<1>3. /\ \A m \in DOMAIN pending' : pending'[m] \in seen /\ pending'[m] # t
      /\ \A m, n \in DOMAIN pending' : pending'[m] = pending'[n] => m = n
  <2>1. \A m, n \in DOMAIN pending : pending[m] = pending[n] => m = n
    BY DEF BrowseInv
  <2>2. \A m \in DOMAIN pending : pending[m] \in seen
    BY DEF BrowseInv
  <2>3. QED
    BY <1>2, <2>1, <2>2
<1>4. t \in seen /\ \A m \in DOMAIN ops : ops[m] # t
  BY <1>2 DEF BrowseInv
<1>5. \A m \in DOMAIN ops, n \in DOMAIN pending' : ops[m] # pending'[n]
  BY <1>2 DEF BrowseInv
<1>6. Waiting = Waiting' \cup {t}
  <2>1. \A m \in DOMAIN pending : m = 1 \/ (m - 1 \in DOMAIN pending' /\ pending[m] = pending'[m - 1])
    BY <1>2
  <2>2. QED
    BY <1>2, <2>1 DEF Waiting
<1>7. CASE ops' = Append(ops, t) /\ UNCHANGED <<pump, skipped>>
  <2>1. /\ ops \in Seq(Types \cup {AllTypes}) /\ Len(ops) \in Nat /\ DOMAIN ops = 1..Len(ops)
        /\ DOMAIN ops' = 1..(Len(ops) + 1)
        /\ \A n \in 1..Len(ops) : ops'[n] = ops[n]
        /\ ops'[Len(ops) + 1] = t
    BY <1>7, <1>2 DEF TypeOK
  <2>2. \A m \in DOMAIN ops' : (m \in DOMAIN ops /\ ops'[m] = ops[m]) \/ ops'[m] = t
    BY <2>1
  <2>3. Operations' = Operations \cup {t}
    BY <2>1, <2>2 DEF Operations
  <2>4. \A m, n \in DOMAIN ops' : ops'[m] = ops'[n] => m = n
    <3>1. \A m, n \in DOMAIN ops : ops[m] = ops[n] => m = n
      BY DEF BrowseInv
    <3>2. QED
      BY <1>4, <2>1, <3>1
  <2>5. \A m \in DOMAIN ops', n \in DOMAIN pending' : ops'[m] # pending'[n]
    BY <1>3, <1>5, <2>2
  <2>6. \A m \in DOMAIN ops' : ops'[m] \in seen \cup {request}
    BY <1>4, <2>2 DEF BrowseInv
  <2>7. request = AllTypes => seen = (Operations' \ {AllTypes}) \cup skipped' \cup Waiting'
    <3>1. t # AllTypes
      BY <1>2, MacConstantsOK
    <3>2. request = AllTypes => seen = (Operations \ {AllTypes}) \cup skipped \cup Waiting
      BY <1>1 DEF BrowseInv
    <3>3. QED
      BY <1>6, <1>7, <2>3, <3>1, <3>2
  <2>8. seen # {} => request = AllTypes
    BY DEF BrowseInv
  <2>9. QED
    BY <1>1, <1>3, <2>4, <2>5, <2>6, <2>7, <2>8 DEF BrowseInv
<1>8. CASE UNCHANGED ops /\ skipped' = skipped \cup {t}
  <2>1. Operations' = Operations
    BY <1>8 DEF Operations
  <2>2. request = AllTypes => seen = (Operations' \ {AllTypes}) \cup skipped' \cup Waiting'
    <3>1. request = AllTypes => seen = (Operations \ {AllTypes}) \cup skipped \cup Waiting
      BY <1>1 DEF BrowseInv
    <3>2. QED
      BY <1>6, <1>8, <2>1, <3>1
  <2>3. /\ \A m \in DOMAIN ops : ops[m] \in seen \cup {request}
        /\ \A m, n \in DOMAIN ops : ops[m] = ops[n] => m = n
        /\ seen # {} => request = AllTypes
    BY DEF BrowseInv
  <2>4. QED
    BY <1>1, <1>3, <1>5, <1>8, <2>2, <2>3 DEF BrowseInv
<1>9. QED
  BY <1>7, <1>8 DEF StartPending, StartBrowse, t

(* An operation is released in the teardown. *)
LEMMA DeallocateOpKeeps ==
  ASSUME TypeOK, BrowseInv, DeallocateOp
  PROVE  BrowseInv'
<1>1. UNCHANGED <<request, seen, pending, skipped>> /\ pump' \notin Serving
  BY DEF DeallocateOp, types, Serving
<1>2. /\ Len(ops) \in Nat /\ DOMAIN ops = 1..Len(ops)
      /\ \A n \in DOMAIN ops' : ops'[n] = ops[n + 1] /\ n + 1 \in DOMAIN ops /\ n \in Nat
  <2>1. ops' = Tail(ops) /\ ops # <<>> /\ ops \in Seq(Types \cup {AllTypes})
    BY DEF DeallocateOp, TypeOK
  <2>2. QED
    BY <2>1, HeadTailProperties
<1>3. \A m, n \in DOMAIN ops' : ops'[m] = ops'[n] => m = n
  <2>1. \A m, n \in DOMAIN ops : ops[m] = ops[n] => m = n
    BY DEF BrowseInv
  <2>2. QED
    BY <1>2, <2>1
<1>4. /\ \A m \in DOMAIN ops' : ops'[m] \in seen \cup {request}
      /\ \A m \in DOMAIN ops', n \in DOMAIN pending : ops'[m] # pending[n]
  BY <1>2 DEF BrowseInv
<1>5. /\ \A m \in DOMAIN pending : pending[m] \in seen
      /\ \A m, n \in DOMAIN pending : pending[m] = pending[n] => m = n
      /\ seen # {} => request = AllTypes
  BY DEF BrowseInv
<1>6. QED
  BY <1>1, <1>3, <1>4, <1>5 DEF BrowseInv

(* Every step. *)
LEMMA NextBrowse == TypeOK /\ PhaseInv /\ QueueInv /\ BrowseInv /\ [Next]_vars => BrowseInv'
<1> SUFFICES ASSUME TypeOK, PhaseInv, QueueInv, BrowseInv, [Next]_vars PROVE BrowseInv'
  OBVIOUS
<1> USE DEF conn, types, Serving
<1>1. CASE \/ BrowseStart \/ Recv \/ RecvNone \/ DropReceiver \/ DropGuard
           \/ Terminated \/ UNCHANGED vars
  BY <1>1, QuietBrowse
     DEF BrowseStart, Recv, RecvNone, DropReceiver, DropGuard, Terminated, vars
<1>2. CASE CreateConnection \/ SocketFd \/ CheckStop \/ Poll
  BY <1>2, QuietBrowse DEF CreateConnection, SocketFd, CheckStop, Poll, Fails
<1>3. CASE InstanceAdd \/ InstanceRemove \/ ErrorReply \/ ProcessFails \/ PendingStarted
  BY <1>3, QuietBrowse
     DEF InstanceAdd, InstanceRemove, ErrorReply, Dispatching, ProcessFails, Fails, PendingStarted
<1>4. CASE DeallocateShared \/ DropContexts \/ PumpEnds
  BY <1>4, QuietBrowse DEF DeallocateShared, DropContexts, PumpEnds
<1>5. CASE \E r \in Resolvers : JobStep(r)
  BY <1>5, QuietBrowse DEF JobStep, JobStarts, Resolved, ResolveFails, EmitFound
<1>6. CASE Environment
  BY <1>6, QuietBrowse DEF Environment, Appear, Disappear, OperationFails
<1>7. CASE BrowseRoot \/ MetaReply \/ StartPending \/ DeallocateOp
  BY <1>7, BrowseRootKeeps, MetaReplyKeeps, StartPendingKeeps, DeallocateOpKeeps
<1>8. QED
  BY <1>1, <1>2, <1>3, <1>4, <1>5, <1>6, <1>7 DEF Next, PumpStep

-----------------------------------------------------------------------------
(* What a step of a thread may do to the stream: send one event at most,   *)
(* and only while it owns a sender.                                        *)
LEMMA ThreadEffects ==
  ASSUME TypeOK, QueueInv, PumpStep \/ \E r \in Resolvers : JobStep(r)
  PROVE  /\ UNCHANGED chan \/ \E e \in Events : Emit(e)
         /\ UNCHANGED client
         /\ Senders # {}
<1>1. EventOf("BrowseFailed", None) \in Events
  BY DEF Events, EventOf
<1>2. ASSUME PumpRuns PROVE Senders # {}
  BY <1>2 DEF Senders
<1>3. ASSUME NEW r \in Resolvers, JobRuns(r) PROVE Senders # {}
  BY <1>3 DEF Senders
<1>4. CASE CreateConnection \/ SocketFd \/ BrowseRoot \/ CheckStop \/ Poll \/ ProcessFails
  BY <1>2, <1>4 DEF CreateConnection, SocketFd, BrowseRoot, CheckStop, Poll, ProcessFails, PumpRuns
<1>5. CASE MetaReply \/ InstanceAdd
  BY <1>2, <1>5 DEF MetaReply, InstanceAdd, Dispatching, PumpRuns
<1>6. CASE InstanceRemove
  <2>1. Head(queue).item \in Instances
    BY <1>6, ItemTyped DEF InstanceRemove, Dispatching
  <2>2. EventOf("Removed", Head(queue).item) \in Events
    BY <2>1 DEF Events, EventOf
  <2>3. QED
    BY <1>2, <1>6, <2>2 DEF InstanceRemove, Dispatching, PumpRuns
<1>7. CASE ErrorReply
  BY <1>1, <1>2, <1>7 DEF ErrorReply, Dispatching, PumpRuns
<1>8. CASE StartPending
  BY <1>1, <1>2, <1>8 DEF StartPending, PumpRuns
<1>9. CASE PendingStarted \/ DeallocateOp \/ DeallocateShared \/ DropContexts
  BY <1>2, <1>9 DEF PendingStarted, DeallocateOp, DeallocateShared, DropContexts, PumpRuns
<1>10. CASE PumpEnds
  BY <1>1, <1>2, <1>10 DEF PumpEnds, FinalWord, PumpRuns
<1>11. ASSUME NEW r \in Resolvers, JobStep(r)
       PROVE  /\ UNCHANGED chan \/ \E e \in Events : Emit(e)
              /\ UNCHANGED client
              /\ Senders # {}
  <2>1. EventOf("ResolveFailed", target[r]) \in Events /\ EventOf("Found", target[r]) \in Events
    BY DEF TypeOK, Events, EventOf
  <2>2. Senders # {}
    BY <1>3, <1>11 DEF JobStep, JobStarts, Resolved, ResolveFails, EmitFound, JobRuns
  <2>3. QED
    BY <1>11, <2>1, <2>2 DEF JobStep, JobStarts, Resolved, ResolveFails, EmitFound
<1>12. QED
  BY <1>4, <1>5, <1>6, <1>7, <1>8, <1>9, <1>10, <1>11 DEF PumpStep

-----------------------------------------------------------------------------
(* Type correctness, one part of the state after the other.                *)

(* The pump, the flags and the counters. *)
ControlTyped ==
  /\ request \in Types \cup {AllTypes}
  /\ handle \in {"unstarted", "open", "rxdropped", "dropped"}
  /\ stop \in BOOLEAN
  /\ pump \in PumpPCs
  /\ result \in {"ok", "err"}
  /\ shared \in {"none", "open", "closed"}
  /\ contexts \in {"none", "alive", "freed"}
  /\ ended \in BOOLEAN
  /\ present \in SUBSET Instances
  /\ churn \in 0..MaxChurn
  /\ faults \in 0..MaxFaults

LEMMA NextControl == TypeOK /\ [Next]_vars => ControlTyped'
<1> SUFFICES ASSUME TypeOK, [Next]_vars PROVE ControlTyped'
  OBVIOUS
<1> USE DEF ControlTyped, PumpPCs, client, conn, network
<1>1. ControlTyped
  BY DEF TypeOK
<1>2. ASSUME Fault PROVE faults' \in 0..MaxFaults
  BY <1>1, <1>2, MacConstantsOK DEF Fault
<1>3. CASE BrowseStart \/ Recv \/ RecvNone \/ DropReceiver \/ DropGuard
  BY <1>1, <1>3 DEF BrowseStart, Recv, RecvNone, DropReceiver, DropGuard
<1>4. CASE CreateConnection
  BY <1>1, <1>2, <1>4 DEF CreateConnection, Fails
<1>5. CASE SocketFd
  BY <1>1, <1>2, <1>5 DEF SocketFd, Fails
<1>6. CASE BrowseRoot
  BY <1>1, <1>2, <1>6 DEF BrowseRoot, Fails
<1>7. CASE CheckStop \/ PendingStarted
  BY <1>1, <1>7 DEF CheckStop, PendingStarted
<1>8. CASE Poll
  BY <1>1, <1>2, <1>8 DEF Poll, Fails
<1>9. CASE Dispatching
  BY <1>1, <1>9 DEF Dispatching, AfterReply
<1>10. CASE ProcessFails
  BY <1>1, <1>2, <1>10 DEF ProcessFails, Fails
<1>11. CASE StartPending
  BY <1>1, <1>2, <1>11 DEF StartPending, AfterSkip
<1>12. CASE DeallocateOp \/ DeallocateShared \/ DropContexts \/ PumpEnds
  BY <1>1, <1>12 DEF DeallocateOp, DeallocateShared, DropContexts, PumpEnds
<1>13. ASSUME NEW r \in Resolvers, JobStep(r) PROVE ControlTyped'
  BY <1>1, <1>2, <1>13 DEF JobStep, JobStarts, Resolved, ResolveFails, EmitFound
<1>14. ASSUME NEW i \in Instances, Appear(i) \/ Disappear(i) PROVE ControlTyped'
  BY <1>1, <1>14, MacConstantsOK DEF Appear, Disappear
<1>15. ASSUME NEW t \in Types \cup {AllTypes}, OperationFails(t) PROVE ControlTyped'
  BY <1>1, <1>2, <1>15 DEF OperationFails
<1>16. CASE Terminated \/ UNCHANGED vars
  BY <1>1, <1>16 DEF Terminated, vars
<1>17. QED
  BY <1>3, <1>4, <1>5, <1>6, <1>7, <1>8, <1>9, <1>10, <1>11, <1>12, <1>13, <1>14, <1>15, <1>16
     DEF Next, PumpStep, MetaReply, InstanceAdd, InstanceRemove, ErrorReply, Environment

(* The operations and the types behind them. *)
TypesTyped ==
  /\ ops \in Seq(Types \cup {AllTypes})
  /\ seen \in SUBSET Types /\ pending \in Seq(Types) /\ skipped \in SUBSET Types

LEMMA NextTypes == TypeOK /\ QueueInv /\ [Next]_vars => TypesTyped'
<1> SUFFICES ASSUME TypeOK, QueueInv, [Next]_vars PROVE TypesTyped'
  OBVIOUS
<1> USE DEF TypesTyped, conn, types
<1>1. TypesTyped /\ request \in Types \cup {AllTypes}
  BY DEF TypeOK
<1>2. CASE UNCHANGED <<ops, seen, pending, skipped>>
  BY <1>1, <1>2
<1>3. CASE BrowseRoot
  BY <1>1, <1>3, AppendProperties DEF BrowseRoot, StartBrowse
<1>4. CASE MetaReply
  <2>1. Head(queue).item \in Types
    BY <1>4, ItemTyped DEF MetaReply, Dispatching
  <2>2. Append(pending, Head(queue).item) \in Seq(Types)
    BY <1>1, <2>1, AppendProperties
  <2>3. QED
    BY <1>1, <1>4, <2>1, <2>2 DEF MetaReply, Dispatching
<1>5. CASE StartPending
  <2>1. Head(pending) \in Types /\ Tail(pending) \in Seq(Types)
    BY <1>1, <1>5, HeadTailProperties DEF StartPending
  <2>2. Append(ops, Head(pending)) \in Seq(Types \cup {AllTypes})
    BY <1>1, <2>1, AppendProperties
  <2>3. QED
    BY <1>1, <1>5, <2>1, <2>2 DEF StartPending, StartBrowse
<1>6. CASE DeallocateOp
  BY <1>1, <1>6, HeadTailProperties DEF DeallocateOp
<1>7. CASE \/ BrowseStart \/ Recv \/ RecvNone \/ DropReceiver \/ DropGuard
           \/ Terminated \/ UNCHANGED vars
  BY <1>2, <1>7 DEF BrowseStart, Recv, RecvNone, DropReceiver, DropGuard, Terminated, vars
<1>8. CASE PumpStep
  BY <1>2, <1>3, <1>4, <1>5, <1>6, <1>8
     DEF PumpStep, CreateConnection, SocketFd, CheckStop, Poll, InstanceAdd, InstanceRemove, ErrorReply,
         Dispatching, ProcessFails, PendingStarted, DeallocateShared, DropContexts, PumpEnds
<1>9. CASE (\E r \in Resolvers : JobStep(r)) \/ Environment
  BY <1>2, <1>9 DEF JobStep, JobStarts, Resolved, ResolveFails, EmitFound, Environment, Appear,
                    Disappear, OperationFails
<1>10. QED
  BY <1>7, <1>8, <1>9 DEF Next

(* The resolves. *)
JobsTyped == job \in [Resolvers -> JobPCs] /\ target \in [Resolvers -> Instances \cup {None}]

LEMMA NextJobs == TypeOK /\ QueueInv /\ [Next]_vars => JobsTyped'
<1> SUFFICES ASSUME TypeOK, QueueInv, [Next]_vars PROVE JobsTyped'
  OBVIOUS
<1> USE DEF JobsTyped, jobs
<1>1. JobsTyped
  BY DEF TypeOK
<1>2. CASE UNCHANGED jobs
  BY <1>1, <1>2
<1>3. CASE InstanceAdd
  <2>1. Head(queue).item \in Instances
    BY <1>3, ItemTyped DEF InstanceAdd, Dispatching
  <2>2. FreshJob \in Resolvers
    BY <1>3 DEF InstanceAdd, FreshJob
  <2>3. QED
    BY <1>1, <1>3, <2>1, <2>2 DEF InstanceAdd, Resolvee, JobPCs
<1>4. ASSUME NEW r \in Resolvers, JobStep(r) PROVE JobsTyped'
  BY <1>1, <1>4 DEF JobStep, JobStarts, Resolved, ResolveFails, EmitFound, JobPCs
<1>5. CASE \/ BrowseStart \/ Recv \/ RecvNone \/ DropReceiver \/ DropGuard \/ Environment
           \/ Terminated \/ UNCHANGED vars
  BY <1>2, <1>5 DEF BrowseStart, Recv, RecvNone, DropReceiver, DropGuard, Terminated, vars,
                    Environment, Appear, Disappear, OperationFails
<1>6. CASE PumpStep
  BY <1>2, <1>3, <1>6
     DEF PumpStep, CreateConnection, SocketFd, BrowseRoot, CheckStop, Poll, MetaReply, InstanceRemove,
         ErrorReply, ProcessFails, StartPending, PendingStarted, DeallocateOp, DeallocateShared,
         DropContexts, PumpEnds
<1>7. QED
  BY <1>4, <1>5, <1>6 DEF Next

(* The stream and what the consumer made of it. *)
StreamTyped ==
  /\ chan \in Seq(Events)
  /\ warned \in BOOLEAN
  /\ view \in [Instances -> {"unknown", "found", "removed"}]

LEMMA NextStream == TypeOK /\ QueueInv /\ [Next]_vars => StreamTyped'
<1> SUFFICES ASSUME TypeOK, QueueInv, [Next]_vars PROVE StreamTyped'
  OBVIOUS
<1> USE DEF StreamTyped, client
<1>1. StreamTyped
  BY DEF TypeOK
<1>2. CASE UNCHANGED <<chan, warned, view>>
  BY <1>1, <1>2
<1>3. CASE Recv
  <2>1. chan' \in Seq(Events)
    BY <1>1, <1>3, HeadTailProperties DEF Recv
  <2>2. warned' \in BOOLEAN
    BY <1>1, <1>3 DEF Recv
  <2>3. view' \in [Instances -> {"unknown", "found", "removed"}]
    BY <1>1, <1>3 DEF Recv
  <2>4. QED
    BY <2>1, <2>2, <2>3
<1>4. CASE DropReceiver
  BY <1>1, <1>4, EmptySeq DEF DropReceiver
<1>5. CASE PumpStep \/ \E r \in Resolvers : JobStep(r)
  <2>1. (UNCHANGED chan \/ \E e \in Events : Emit(e)) /\ UNCHANGED client
    BY <1>5, ThreadEffects
  <2>2. ASSUME NEW e \in Events, Emit(e) PROVE chan' \in Seq(Events)
    BY <1>1, <2>2, AppendProperties DEF Emit
  <2>3. QED
    BY <1>1, <2>1, <2>2
<1>6. CASE BrowseStart \/ RecvNone \/ DropGuard \/ Environment \/ Terminated \/ UNCHANGED vars
  BY <1>2, <1>6 DEF BrowseStart, RecvNone, DropGuard, Environment, Appear, Disappear, OperationFails,
                    Terminated, vars
<1>7. QED
  BY <1>3, <1>4, <1>5, <1>6 DEF Next

LEMMA NextTypeOK == TypeOK /\ PhaseInv /\ QueueInv /\ BrowseInv /\ [Next]_vars => TypeOK'
<1> SUFFICES ASSUME TypeOK, PhaseInv, QueueInv, BrowseInv, [Next]_vars PROVE TypeOK'
  OBVIOUS
<1>1. ControlTyped' /\ TypesTyped' /\ JobsTyped' /\ StreamTyped'
  BY NextControl, NextTypes, NextJobs, NextStream
<1>2. queue' \in Seq(Replies)
  <2>1. QueueInv'
    BY NextQueue
  <2>2. Owed' \subseteq Replies
    BY <1>1, MacConstantsOK DEF ControlTyped, Owed, Replies
  <2>3. QED
    BY <2>1, <2>2, SeqMonotonic DEF QueueInv
<1>3. QED
  BY <1>1, <1>2 DEF TypeOK, ControlTyped, TypesTyped, JobsTyped, StreamTyped

-----------------------------------------------------------------------------
(* The end of the stream. *)

(* An event that is sent leaves the others in the stream. *)
LEMMA EmitKeeps ==
  ASSUME TypeOK, NEW e \in Events, Emit(e)
  PROVE  (\E n \in DOMAIN chan : chan[n].kind = "BrowseFailed") =>
           (\E n \in DOMAIN chan' : chan'[n].kind = "BrowseFailed")
<1>1. CASE chan' = chan
  BY <1>1
<1>2. CASE chan' = Append(chan, e)
  <2>1. /\ chan \in Seq(Events) /\ Len(chan) \in Nat /\ DOMAIN chan = 1..Len(chan)
        /\ DOMAIN chan' = 1..(Len(chan) + 1)
        /\ \A n \in 1..Len(chan) : chan'[n] = chan[n]
    BY <1>2 DEF TypeOK
  <2>2. QED
    BY <2>1
<1>3. QED
  BY <1>1, <1>2 DEF Emit

LEMMA NextEnd == IInv /\ [Next]_vars => EndInv'
<1> SUFFICES ASSUME IInv, [Next]_vars PROVE EndInv'
  OBVIOUS
<1>1. TypeOK /\ PhaseInv /\ QueueInv /\ EndInv
  BY DEF IInv
<1>2. CASE BrowseStart
  BY <1>1, <1>2 DEF BrowseStart, EndInv, PhaseInv
<1>3. CASE Recv
  <2>1. UNCHANGED <<pump, result, ended, handle>> /\ chan' = Tail(chan) /\ chan # <<>>
        /\ warned' = (warned \/ Head(chan).kind = "BrowseFailed")
    BY <1>3 DEF Recv
  <2>2. /\ chan \in Seq(Events) /\ Len(chan) \in Nat \ {0} /\ DOMAIN chan = 1..Len(chan)
        /\ DOMAIN chan' = 1..(Len(chan) - 1)
        /\ \A n \in DOMAIN chan' : chan'[n] = chan[n + 1]
        /\ Head(chan) = chan[1]
    BY <1>1, <2>1, HeadTailProperties DEF TypeOK
  <2>3. ASSUME NEW n \in DOMAIN chan, chan[n].kind = "BrowseFailed"
        PROVE  warned' \/ \E m \in DOMAIN chan' : chan'[m].kind = "BrowseFailed"
    <3>1. CASE n = 1
      BY <2>1, <2>2, <2>3, <3>1
    <3>2. CASE n # 1
      <4>1. n - 1 \in DOMAIN chan' /\ chan'[n - 1] = chan[n]
        BY <2>2, <3>2
      <4>2. QED
        BY <2>3, <4>1
    <3>3. QED
      BY <3>1, <3>2
  <2>4. warned => warned'
    BY <2>1
  <2>5. QED
    BY <1>1, <2>1, <2>3, <2>4 DEF EndInv
<1>4. CASE RecvNone
  <2>1. pump = "done"
    BY <1>1, <1>4 DEF RecvNone, Senders, PumpRuns, PhaseInv
  <2>2. chan = <<>> /\ handle = "open" /\ UNCHANGED <<pump, result, handle, chan, warned>>
    BY <1>4 DEF RecvNone
  <2>3. result = "err" => warned
    BY <1>1, <2>1, <2>2 DEF EndInv
  <2>4. QED
    BY <1>1, <2>1, <2>2, <2>3 DEF EndInv
<1>5. CASE DropReceiver \/ DropGuard
  BY <1>1, <1>5 DEF DropReceiver, DropGuard, EndInv
<1>6. CASE PumpEnds
  <2>1. pump = "report" /\ pump' = "done" /\ UNCHANGED <<handle, ended, warned, result>> /\ FinalWord
    BY <1>6 DEF PumpEnds, client
  <2>2. ~ended
    BY <1>1, <2>1 DEF EndInv
  <2>3. ASSUME result = "err", handle = "open"
        PROVE  \E n \in DOMAIN chan' : chan'[n].kind = "BrowseFailed"
    <3>1. chan' = Append(chan, EventOf("BrowseFailed", None)) /\ chan \in Seq(Events)
      BY <1>1, <2>1, <2>3 DEF FinalWord, Emit, TypeOK
    <3>2. Len(chan) + 1 \in DOMAIN chan' /\ chan'[Len(chan) + 1] = EventOf("BrowseFailed", None)
      BY <3>1
    <3>3. QED
      BY <3>2 DEF EventOf
  <2>4. QED
    BY <2>1, <2>2, <2>3 DEF EndInv
<1>7. CASE PumpStep /\ ~PumpEnds
  <2>1. pump # "done" /\ pump' # "done" /\ UNCHANGED client
    <3>1. UNCHANGED client
      BY <1>1, <1>7, ThreadEffects
    <3>2. pump # "done"
      BY <1>7 DEF PumpStep, CreateConnection, SocketFd, BrowseRoot, CheckStop, Poll, MetaReply,
           InstanceAdd, InstanceRemove, ErrorReply, Dispatching, ProcessFails, StartPending,
           PendingStarted, DeallocateOp, DeallocateShared, DropContexts
    <3>3. pump' # "done"
      BY <1>7 DEF PumpStep, CreateConnection, SocketFd, BrowseRoot, CheckStop, Poll, MetaReply,
           InstanceAdd, InstanceRemove, ErrorReply, Dispatching, ProcessFails, StartPending,
           PendingStarted, DeallocateOp, DeallocateShared, DropContexts, Fails, AfterReply, AfterSkip
    <3>4. QED
      BY <3>1, <3>2, <3>3
  <2>2. QED
    BY <1>1, <2>1 DEF EndInv, client
<1>8. CASE \E r \in Resolvers : JobStep(r)
  <2>1. UNCHANGED <<pump, result>>
    BY <1>8 DEF JobStep, JobStarts, Resolved, ResolveFails, EmitFound
  <2>2. (UNCHANGED chan \/ \E e \in Events : Emit(e)) /\ UNCHANGED client
    BY <1>1, <1>8, ThreadEffects
  <2>3. (\E n \in DOMAIN chan : chan[n].kind = "BrowseFailed") =>
          (\E n \in DOMAIN chan' : chan'[n].kind = "BrowseFailed")
    BY <1>1, <2>2, EmitKeeps
  <2>4. QED
    BY <1>1, <2>1, <2>2, <2>3 DEF EndInv, client
<1>9. CASE Environment \/ Terminated \/ UNCHANGED vars
  BY <1>1, <1>9 DEF Environment, Appear, Disappear, OperationFails, Terminated, vars, client, EndInv
<1>10. QED
  BY <1>2, <1>3, <1>4, <1>5, <1>6, <1>7, <1>8, <1>9 DEF Next

-----------------------------------------------------------------------------
LEMMA Invariance == Spec => []IInv
<1>1. Init => IInv
  <2> SUFFICES ASSUME Init PROVE IInv
    OBVIOUS
  <2>1. TypeOK
    <3>1. ControlTyped
      <4>1. churn \in 0..MaxChurn /\ faults \in 0..MaxFaults
        BY MacConstantsOK DEF Init
      <4>2. stop \in BOOLEAN /\ ended \in BOOLEAN /\ present \in SUBSET Instances
        BY DEF Init
      <4>3. QED
        BY <4>1, <4>2 DEF Init, ControlTyped, PumpPCs
    <3>2. TypesTyped /\ queue \in Seq(Replies) /\ chan \in Seq(Events)
      BY EmptySeq DEF Init, TypesTyped
    <3>3. JobsTyped /\ view \in [Instances -> {"unknown", "found", "removed"}] /\ warned \in BOOLEAN
      BY DEF Init, JobsTyped, JobPCs
    <3>4. QED
      BY <3>1, <3>2, <3>3 DEF TypeOK, ControlTyped, TypesTyped, JobsTyped
  <2>2. PhaseInv
    BY DEF Init, PhaseInv, Early, Serving, Gone
  <2>3. QueueInv
    BY EmptySeq DEF Init, QueueInv
  <2>4. BrowseInv
    BY DEF Init, BrowseInv, Serving
  <2>5. EndInv
    BY DEF Init, EndInv
  <2>6. QED
    BY <2>1, <2>2, <2>3, <2>4, <2>5 DEF IInv
<1>2. IInv /\ [Next]_vars => IInv'
  BY NextTypeOK, NextPhase, NextQueue, NextBrowse, NextEnd DEF IInv
<1>3. QED
  BY <1>1, <1>2, PTL DEF Spec

(* The pump, the resolves and the client stay in their types. *)
THEOREM MacTypeCorrect == Spec => []TypeOK
BY Invariance, PTL DEF IInv

(* Drop for SharedConnection before the contexts, on every way out of      *)
(* run_pump: no operation outlives its connection or its context, and no   *)
(* context is freed while the connection could dispatch a reply to it.     *)
THEOREM ReleasedInOrder == Spec => []CallbacksSafe
<1>1. IInv => CallbacksSafe
  <2> SUFFICES ASSUME TypeOK, PhaseInv PROVE CallbacksSafe
    BY DEF IInv
  <2>1. pump \in Early \cup Serving \cup Gone \cup {"teardown"}
    BY DEF TypeOK, PumpPCs, Early, Serving, Gone
  <2>2. QED
    BY <2>1 DEF PhaseInv, CallbacksSafe, Early, Serving, Gone
<1>2. QED
  BY <1>1, Invariance, PTL

(* PumpState.seen: however often the meta-query repeats a type, it has one *)
(* operation, or one place in the queue for one, and never both.           *)
THEOREM MacTypesBrowsedOnce == Spec => []OneBrowsePerType
<1>1. IInv => OneBrowsePerType
  <2> SUFFICES ASSUME TypeOK, BrowseInv,
                      NEW m \in DOMAIN (ops \o pending), NEW n \in DOMAIN (ops \o pending),
                      (ops \o pending)[m] = (ops \o pending)[n]
               PROVE  m = n
    BY DEF IInv, OneBrowsePerType
  <2> DEFINE L == Len(ops)
  <2>1. /\ L \in Nat /\ Len(pending) \in Nat
        /\ DOMAIN ops = 1..L /\ DOMAIN pending = 1..Len(pending)
        /\ DOMAIN (ops \o pending) = 1..(L + Len(pending))
        /\ \A k \in 1..(L + Len(pending)) :
             (ops \o pending)[k] = IF k <= L THEN ops[k] ELSE pending[k - L]
    BY DEF TypeOK
  <2>2. /\ \A i, j \in DOMAIN ops : ops[i] = ops[j] => i = j
        /\ \A i, j \in DOMAIN pending : pending[i] = pending[j] => i = j
        /\ \A i \in DOMAIN ops, j \in DOMAIN pending : ops[i] # pending[j]
    BY DEF BrowseInv
  <2> HIDE DEF L
  <2>3. CASE m <= L /\ n <= L
    BY <2>1, <2>2, <2>3
  <2>4. CASE m <= L /\ ~(n <= L)
    BY <2>1, <2>2, <2>4
  <2>5. CASE ~(m <= L) /\ n <= L
    BY <2>1, <2>2, <2>5
  <2>6. CASE ~(m <= L) /\ ~(n <= L)
    <3>1. m - L \in DOMAIN pending /\ n - L \in DOMAIN pending /\ pending[m - L] = pending[n - L]
      BY <2>1, <2>6
    <3>2. m - L = n - L
      BY <2>2, <3>1
    <3>3. QED
      BY <2>1, <3>2
  <2>7. QED
    BY <2>3, <2>4, <2>5, <2>6
<1>2. QED
  BY <1>1, Invariance, PTL

(* When the pump goes back to sleep, each type the meta-query reported is  *)
(* being browsed or was reported as failed.                                *)
THEOREM NothingForgotten == Spec => []NoTypeForgotten
<1>1. IInv => NoTypeForgotten
  <2> SUFFICES ASSUME PhaseInv, BrowseInv, pump \in {"loop", "poll"}
               PROVE  /\ pending = <<>>
                      /\ request = AllTypes => seen = (Operations \ {AllTypes}) \cup skipped
    BY DEF IInv, NoTypeForgotten
  <2>1. pending = <<>>
    BY DEF PhaseInv
  <2>2. Waiting = {}
    BY <2>1 DEF Waiting
  <2>3. QED
    BY <2>1, <2>2 DEF BrowseInv, Serving
<1>2. QED
  BY <1>1, Invariance, PTL

(* The closure of the pump sends the error of run_pump before it drops its *)
(* sender: a consumer that got None has received a BrowseFailed.           *)
THEOREM ErrorsPrecedeEnd == Spec => []ErrorBeforeEnd
<1>1. IInv => ErrorBeforeEnd
  BY DEF IInv, EndInv, ErrorBeforeEnd
<1>2. QED
  BY <1>1, Invariance, PTL

(* The pump and the resolves implement the event stream: one event at most *)
(* per step and only while a sender lives, and None only after them all,   *)
(* though nothing joins the resolves that outlive the pump.                *)
THEOREM MacImplementsStream == Spec => StreamRefinement
<1> USE DEF RxOf
<1>1. Init => ES!Init
  BY DEF Init, ES!Init, Senders, PumpRuns, JobRuns
<1>2. IInv /\ [Next]_vars => [ES!Next]_(ES!vars)
  <2> SUFFICES ASSUME IInv, [Next]_vars PROVE [ES!Next]_(ES!vars)
    OBVIOUS
  <2> USE DEF ES!Next, ES!vars
  <2>1. Senders' \in SUBSET Threads
    BY DEF Senders, Threads
  <2>2. ASSUME UNCHANGED <<pump, job>> PROVE UNCHANGED Senders
    BY <2>2 DEF Senders, PumpRuns, JobRuns
  <2>3. CASE BrowseStart
    BY <2>1, <2>3 DEF BrowseStart, ES!Open
  <2>4. CASE Recv
    BY <2>2, <2>4 DEF Recv, jobs, ES!Recv
  <2>5. CASE RecvNone
    BY <2>2, <2>5 DEF RecvNone, jobs, ES!RecvNone
  <2>6. CASE DropReceiver
    BY <2>2, <2>6 DEF DropReceiver, jobs, ES!Close
  <2>7. CASE DropGuard
    BY <2>2, <2>7 DEF DropGuard, jobs
  <2>8. CASE PumpStep \/ \E r \in Resolvers : JobStep(r)
    <3>1. /\ UNCHANGED chan \/ \E e \in Events : Emit(e)
          /\ UNCHANGED <<handle, ended>>
          /\ Senders # {}
      BY <2>8, ThreadEffects DEF IInv, client
    <3>2. UNCHANGED chan \/ (handle = "open" /\ \E e \in Events : chan' = Append(chan, e))
      BY <3>1 DEF Emit
    <3>3. QED
      BY <2>1, <3>1, <3>2 DEF ES!Produce
  <2>9. CASE Environment
    BY <2>2, <2>9 DEF Environment, Appear, Disappear, OperationFails, client, jobs
  <2>10. CASE Terminated \/ UNCHANGED vars
    BY <2>2, <2>10 DEF Terminated, vars, client, jobs
  <2>11. QED
    BY <2>3, <2>4, <2>5, <2>6, <2>7, <2>8, <2>9, <2>10 DEF Next
<1>3. QED
  BY <1>1, <1>2, Invariance, PTL DEF Spec, StreamRefinement, ES!Safety

ESP == INSTANCE EventStreamProofs
         WITH Holders <- Threads, senders <- Senders, rx <- RxOf(handle)

(* What NothingFollowsNone says of every event stream, for this one: once  *)
(* recv() has answered None the pump and all the resolves are over.        *)
THEOREM MacNoneIsFinal == Spec => [](ended => Senders = {} /\ chan = <<>>)
<1>1. ESP!Safety => []ESP!NoneIsTheEnd
  BY ESP!NothingFollowsNone
<1>2. ESP!NoneIsTheEnd => (ended => Senders = {} /\ chan = <<>>)
  BY DEF ESP!NoneIsTheEnd
<1>3. StreamRefinement => ESP!Safety
  BY DEF StreamRefinement, ES!Safety, ESP!Safety, ES!Init, ESP!Init, ES!Next, ESP!Next, ES!vars, ESP!vars,
         ES!Open, ES!Produce, ES!Recv, ES!RecvNone, ES!Close, ESP!Open, ESP!Produce, ESP!Recv,
         ESP!RecvNone, ESP!Close
<1>4. QED
  BY <1>1, <1>2, <1>3, MacImplementsStream, PTL
=============================================================================
