-------------------------- MODULE WinBrowseProofs --------------------------
(***************************************************************************)
(* Proofs about WinBrowse, for every set of types, services, operations    *)
(* and resolves, and every bound.  The inductive invariant, IInv, says who *)
(* owns the registry at each moment and that only the meta-query's         *)
(* callback ever does besides the guard.                                   *)
(***************************************************************************)
EXTENDS WinBrowse, TLAPS, SequenceTheorems, FiniteSetTheorems

(* A callback that holds the registry it upgraded. *)
Holding == {"upgraded", "pushing", "releasing"}

Started(o) == os[o] # "none"

(* An operation, its context and its callback are born together.           *)
LifeInv ==
  \A o \in Ops :
    /\ os[o] = "none" <=> ctx[o] = "none"
    /\ os[o] = "active" <=> ctx[o] = "alive"
    /\ os[o] = "none" => cb[o] = "idle" /\ records[o] = <<>> /\ batches[o] = <<>>

(* What the records of an operation name: types for the meta-query,        *)
(* services for any other.                                                 *)
Named(o) == IF btype[o] = AllTypes THEN Types ELSE Instances
BatchesOf(o) == [status : {"ok", "failed"}, targets : Seq(Named(o))]

RecordInv ==
  \A o \in Ops : records[o] \in Seq(Named(o)) /\ batches[o] \in Seq(BatchesOf(o))

(* The cascade: the children browse types that the root has seen, each     *)
(* its own, and the root alone starts them.                                *)
CascadeInv ==
  /\ Started(Root) <=> handle \notin {"unstarted", "failed"}
  /\ Started(Root) => btype[Root] = request
  /\ \A o \in Ops : cb[o] \in Holding => o = Root /\ btype[Root] = AllTypes
  /\ \A c \in Children : Started(c) => Started(Root) /\ btype[c] \in Types \cap seen[Root]
  /\ \A c, d \in Children : Started(c) /\ Started(d) /\ btype[c] = btype[d] => c = d
  /\ cb[Root] = "upgraded" =>
       /\ newborn[Root] \in Types \cap seen[Root]
       /\ \A c \in Children : Started(c) => btype[c] # newborn[Root]
  /\ cb[Root] = "pushing" => newborn[Root] \in Children

(* Who owns the registry, and who is dropping it.                          *)
OwnerInv ==
  /\ \A o \in Ops : o \in owners <=> cb[o] \in Holding
  /\ Guard \in owners <=> handle \in {"starting", "open", "rxdropped"}
  /\ dropper # None => owners = {}
  /\ dropper = Guard <=> handle = "dropping"
  /\ \A o \in Ops : dropper = o => cb[o] = "running"
  /\ owners # {} => os[Root] = "active"
  /\ owners = {} /\ dropper = None => entries = <<>>

(* The registry holds each running operation once, but for the one that is *)
(* about to be registered.                                                 *)
EntryInv ==
  /\ \A m, n \in DOMAIN entries : entries[m] = entries[n] => m = n
  /\ \A o \in Entries : os[o] = "active"
  /\ handle = "starting" => Root \notin Entries
  /\ cb[Root] = "pushing" => os[newborn[Root]] = "active" /\ newborn[Root] \notin Entries
  /\ \A o \in Ops : os[o] = "active" =>
       \/ o \in Entries
       \/ o = Root /\ handle = "starting"
       \/ cb[Root] = "pushing" /\ newborn[Root] = o

IInv == TypeOK /\ LifeInv /\ RecordInv /\ CascadeInv /\ OwnerInv /\ EntryInv

-----------------------------------------------------------------------------
(* Records.                                                                *)

(* The order in which the records of a list come does not change what they *)
(* are.                                                                    *)
LEMMA ListTyped ==
  ASSUME NEW S, NEW T, IsFiniteSet(S), S \subseteq T, NEW list \in SetToSeqs(S)
  PROVE  list \in Seq(T)
<1>1. Cardinality(S) \in Nat
  BY FS_CardinalityType
<1>2. list \in [1..Cardinality(S) -> S]
  BY DEF SetToSeqs
<1>3. list \in Seq(S)
  BY <1>1, <1>2, SeqDef
<1>4. QED
  BY <1>3, SeqMonotonic

LEMMA OneRecord == ASSUME NEW T, NEW x \in T PROVE <<x>> \in Seq(T)
OBVIOUS

(* What the DNS client has cached is what the operation browses for. *)
LEMMA CachedNamed ==
  ASSUME present \in SUBSET Instances, NEW t
  PROVE  /\ IsFiniteSet(Cached(t))
         /\ Cached(t) \subseteq IF t = AllTypes THEN Types ELSE Instances
<1> USE WinConstantsOK
<1>1. CASE t = AllTypes
  <2>1. Cached(t) \subseteq Types
    BY <1>1 DEF Cached
  <2>2. QED
    BY <1>1, <2>1, FS_Subset
<1>2. CASE t # AllTypes
  <2>1. Cached(t) \subseteq Instances
    BY <1>2 DEF Cached
  <2>2. QED
    BY <1>2, <2>1, FS_Subset
<1>3. QED
  BY <1>1, <1>2

(* A list of the records of an operation is well typed. *)
LEMMA NamedTyped ==
  ASSUME NEW o \in Ops
  PROVE  Seq(Named(o)) \subseteq Seq(Types \cup Instances) /\ BatchesOf(o) \subseteq Batches
<1>1. Named(o) \subseteq Types \cup Instances
  BY DEF Named
<1>2. Seq(Named(o)) \subseteq Seq(Types \cup Instances)
  BY <1>1, SeqMonotonic
<1>3. QED
  BY <1>2 DEF BatchesOf, Batches

(* So are the lists owed to it. *)
LEMMA QueuesTyped ==
  ASSUME RecordInv, NEW o \in Ops
  PROVE  records[o] \in Seq(Types \cup Instances) /\ batches[o] \in Seq(Batches)
<1>1. records[o] \in Seq(Named(o)) /\ batches[o] \in Seq(BatchesOf(o))
  BY DEF RecordInv
<1>2. QED
  BY <1>1, NamedTyped, SeqMonotonic

(* The record that handle_ptr takes. *)
LEMMA HeadNamed ==
  ASSUME RecordInv, NEW o \in Ops, records[o] # <<>>
  PROVE  /\ Head(records[o]) \in IF IsMeta(o) THEN Types ELSE Instances
         /\ Tail(records[o]) \in Seq(Named(o))
<1>1. records[o] \in Seq(Named(o))
  BY DEF RecordInv
<1>2. Head(records[o]) \in Named(o) /\ Tail(records[o]) \in Seq(Named(o))
  BY <1>1, HeadTailProperties
<1>3. QED
  BY <1>2 DEF Named, IsMeta

(* The lists of a new operation. *)
LEMMA NewOperation ==
  ASSUME TypeOK, LifeInv, RecordInv, NEW o \in Ops, NEW t \in Types \cup {AllTypes},
         os[o] = "none", DnsServiceBrowse(o, t), UNCHANGED records
  PROVE  /\ RecordInv'
         /\ batches' \in [Ops -> Seq(Batches)]
<1>1. PICK targets \in SetToSeqs(Cached(t)) :
        batches' = [batches EXCEPT ![o] =
          IF targets = <<>> THEN <<>> ELSE <<BatchOf("ok", targets)>>]
  BY DEF DnsServiceBrowse
<1>2. btype' = [btype EXCEPT ![o] = t] /\ btype \in [Ops -> Types \cup {AllTypes, None}]
      /\ batches \in [Ops -> Seq(Batches)]
  BY DEF DnsServiceBrowse, TypeOK
<1>3. Named(o)' = IF t = AllTypes THEN Types ELSE Instances
  BY <1>2 DEF Named
<1>4. targets \in Seq(Named(o)')
  BY <1>1, <1>3, CachedNamed, ListTyped DEF TypeOK
<1>5. BatchOf("ok", targets) \in BatchesOf(o)'
  BY <1>4 DEF BatchOf, BatchesOf
<1>6. batches'[o] \in Seq(BatchesOf(o)')
  <2>1. batches'[o] = <<>> \/ batches'[o] = <<BatchOf("ok", targets)>>
    BY <1>1, <1>2
  <2>2. QED
    BY <1>5, <2>1, EmptySeq, OneRecord
<1>7. records'[o] \in Seq(Named(o)')
  BY EmptySeq DEF LifeInv
<1>8. ASSUME NEW p \in Ops, p # o
      PROVE  records'[p] \in Seq(Named(p)') /\ batches'[p] \in Seq(BatchesOf(p)')
  <2>1. btype'[p] = btype[p] /\ batches'[p] = batches[p]
    BY <1>1, <1>2, <1>8
  <2>2. Named(p)' = Named(p) /\ BatchesOf(p)' = BatchesOf(p)
    BY <2>1 DEF Named, BatchesOf
  <2>3. QED
    BY <2>1, <2>2 DEF RecordInv
<1>9. RecordInv'
  BY <1>6, <1>7, <1>8 DEF RecordInv
<1>10. batches' \in [Ops -> Seq(Batches)]
  <2>1. BatchesOf(o)' \subseteq Batches
    BY <1>3, SeqMonotonic DEF BatchesOf, Batches
  <2>2. batches'[o] \in Seq(Batches)
    BY <1>6, <2>1, SeqMonotonic
  <2>3. QED
    BY <1>1, <1>2, <2>2
<1>11. QED
  BY <1>9, <1>10

(* Every step keeps the lists typed by what their operation browses. *)
RecordTyped ==
  records \in [Ops -> Seq(Types \cup Instances)] /\ batches \in [Ops -> Seq(Batches)]

LEMMA NextRecords ==
  TypeOK /\ LifeInv /\ RecordInv /\ CascadeInv /\ [Next]_vars => RecordInv' /\ RecordTyped'
<1> SUFFICES ASSUME TypeOK, LifeInv, RecordInv, CascadeInv, [Next]_vars
             PROVE  RecordInv' /\ RecordTyped'
  OBVIOUS
<1> USE DEF operations, callbacks
<1>1. RecordTyped /\ Root \in Ops
  BY DEF TypeOK, RecordTyped, Ops
<1>2. ASSUME UNCHANGED <<btype, records, batches>> PROVE RecordInv' /\ RecordTyped'
  BY <1>1, <1>2 DEF RecordInv, RecordTyped, Named, BatchesOf
<1>3. ASSUME UNCHANGED <<btype, batches>>, NEW o \in Ops, NEW list \in Seq(Named(o)),
             records' = [records EXCEPT ![o] = list]
      PROVE  RecordInv' /\ RecordTyped'
  <2>1. \A p \in Ops : Named(p)' = Named(p) /\ BatchesOf(p)' = BatchesOf(p)
    BY <1>3 DEF Named, BatchesOf
  <2>2. list \in Seq(Types \cup Instances)
    BY <1>3, NamedTyped
  <2>3. QED
    BY <1>1, <1>3, <2>1, <2>2 DEF RecordInv, RecordTyped
<1>4. ASSUME UNCHANGED <<btype, records>>, NEW o \in Ops, NEW owed \in Seq(BatchesOf(o)),
             batches' = [batches EXCEPT ![o] = owed]
      PROVE  RecordInv' /\ RecordTyped'
  <2>1. \A p \in Ops : Named(p)' = Named(p) /\ BatchesOf(p)' = BatchesOf(p)
    BY <1>4 DEF Named, BatchesOf
  <2>2. owed \in Seq(Batches)
    BY <1>4, NamedTyped, SeqMonotonic
  <2>3. QED
    BY <1>1, <1>4, <2>1, <2>2 DEF RecordInv, RecordTyped
<1>5. CASE BrowseStart
  <2>1. CASE DnsServiceBrowse(Root, request) /\ UNCHANGED records
    <3>1. os[Root] = "none" /\ request \in Types \cup {AllTypes}
      BY <1>5 DEF BrowseStart, CascadeInv, Started, TypeOK
    <3>2. QED
      BY <1>1, <2>1, <3>1, NewOperation DEF RecordTyped
  <2>2. QED
    BY <1>2, <1>5, <2>1 DEF BrowseStart
<1>6. CASE DropEntry
  <2>1. Head(entries) \in Ops
    BY <1>6, HeadTailProperties DEF DropEntry, TypeOK
  <2>2. <<>> \in Seq(BatchesOf(Head(entries)))
    BY EmptySeq
  <2>3. UNCHANGED <<btype, records>> /\ batches' = [batches EXCEPT ![Head(entries)] = <<>>]
    BY <1>6 DEF DropEntry
  <2>4. QED
    BY <1>4, <2>1, <2>2, <2>3
<1>7. ASSUME NEW o \in Ops, CallbackBegins(o) PROVE RecordInv' /\ RecordTyped'
  <2>1. batches[o] \in Seq(BatchesOf(o)) /\ batches[o] # <<>> /\ UNCHANGED btype
    BY <1>7 DEF RecordInv, CallbackBegins
  <2>2. Head(batches[o]) \in BatchesOf(o) /\ Tail(batches[o]) \in Seq(BatchesOf(o))
    BY <2>1, HeadTailProperties
  <2>3. Head(batches[o]).targets \in Seq(Named(o))
    BY <2>2 DEF BatchesOf
  <2>4. Tail(batches[o]) \in Seq(Batches) /\ Head(batches[o]).targets \in Seq(Types \cup Instances)
    BY <2>2, <2>3, NamedTyped, SeqMonotonic
  <2>5. /\ records' = [records EXCEPT ![o] = Head(batches[o]).targets]
        /\ batches' = [batches EXCEPT ![o] = Tail(batches[o])]
    BY <1>1, <1>7 DEF CallbackBegins, RecordsOf, RecordTyped
  <2>6. \A p \in Ops : Named(p)' = Named(p) /\ BatchesOf(p)' = BatchesOf(p)
    BY <2>1 DEF Named, BatchesOf
  <2>7. RecordInv'
    BY <1>1, <2>2, <2>3, <2>5, <2>6 DEF RecordInv, RecordTyped
  <2>8. RecordTyped'
    BY <1>1, <2>4, <2>5 DEF RecordTyped
  <2>9. QED
    BY <2>7, <2>8
<1>8. ASSUME NEW o \in Ops, Handling(o), UNCHANGED <<btype, batches>> PROVE RecordInv' /\ RecordTyped'
  <2>1. records' = [records EXCEPT ![o] = Tail(records[o])] /\ records[o] # <<>>
    BY <1>1, <1>8 DEF Handling, RecordTyped
  <2>2. Tail(records[o]) \in Seq(Named(o))
    BY <2>1, HeadNamed
  <2>3. QED
    BY <1>3, <1>8, <2>1, <2>2
<1>9. ASSUME NEW o \in Ops, StartChild(o) PROVE RecordInv' /\ RecordTyped'
  <2>1. CASE DnsServiceBrowse(FreshChild, newborn[o]) /\ UNCHANGED records
    <3>1. FreshChild \in Children /\ os[FreshChild] = "none"
      BY <1>9 DEF StartChild, FreshChild
    <3>2. o = Root /\ newborn[o] \in Types
      BY <1>9 DEF StartChild, CascadeInv, Holding
    <3>3. QED
      BY <1>1, <2>1, <3>1, <3>2, NewOperation DEF RecordTyped, Ops
  <2>2. QED
    BY <1>2, <1>9, <2>1 DEF StartChild
<1>10. ASSUME NEW o \in Ops, OperationFails(o) PROVE RecordInv' /\ RecordTyped'
  <2>1. BatchOf("failed", <<>>) \in BatchesOf(o)
    BY EmptySeq DEF BatchOf, BatchesOf
  <2>2. Append(batches[o], BatchOf("failed", <<>>)) \in Seq(BatchesOf(o))
    BY <2>1, AppendProperties DEF RecordInv
  <2>3. UNCHANGED <<btype, records>>
        /\ batches' = [batches EXCEPT ![o] = Append(batches[o], BatchOf("failed", <<>>))]
    BY <1>1, <1>10 DEF OperationFails, Deliver, RecordTyped
  <2>4. QED
    BY <1>4, <2>2, <2>3
<1>11. ASSUME NEW i \in Instances, Appear(i) PROVE RecordInv' /\ RecordTyped'
  <2>1. PICK meta \in SUBSET Watching(AllTypes) :
          batches' = [o \in Ops |->
            IF o \in Watching(TypeOf[i]) THEN Append(batches[o], BatchOf("ok", <<i>>))
            ELSE IF o \in meta THEN Append(batches[o], BatchOf("ok", <<TypeOf[i]>>))
            ELSE batches[o]]
    BY <1>11 DEF Appear
  <2>2. UNCHANGED <<btype, records>>
    BY <1>11 DEF Appear
  <2>3. ASSUME NEW o \in Ops PROVE batches'[o] \in Seq(BatchesOf(o))
    <3>1. batches[o] \in Seq(BatchesOf(o))
      BY DEF RecordInv
    <3>2. CASE o \in Watching(TypeOf[i])
      <4>1. Named(o) = Instances
        BY <3>2, WinConstantsOK DEF Watching, Named
      <4>2. BatchOf("ok", <<i>>) \in BatchesOf(o)
        BY <4>1, OneRecord DEF BatchOf, BatchesOf
      <4>3. Append(batches[o], BatchOf("ok", <<i>>)) \in Seq(BatchesOf(o))
        BY <3>1, <4>2, AppendProperties
      <4>4. QED
        BY <2>1, <3>2, <4>3
    <3>3. CASE o \notin Watching(TypeOf[i]) /\ o \in meta
      <4>1. Named(o) = Types /\ TypeOf[i] \in Types
        BY <3>3, WinConstantsOK DEF Watching, Named
      <4>2. BatchOf("ok", <<TypeOf[i]>>) \in BatchesOf(o)
        BY <4>1, OneRecord DEF BatchOf, BatchesOf
      <4>3. Append(batches[o], BatchOf("ok", <<TypeOf[i]>>)) \in Seq(BatchesOf(o))
        BY <3>1, <4>2, AppendProperties
      <4>4. QED
        BY <2>1, <3>3, <4>3
    <3>4. CASE o \notin Watching(TypeOf[i]) /\ o \notin meta
      BY <2>1, <3>1, <3>4
    <3>5. QED
      BY <3>2, <3>3, <3>4
  <2>4. \A o \in Ops : Named(o)' = Named(o) /\ BatchesOf(o)' = BatchesOf(o)
    BY <2>2 DEF Named, BatchesOf
  <2>5. RecordInv'
    BY <2>2, <2>3, <2>4 DEF RecordInv
  <2>6. ASSUME NEW o \in Ops PROVE batches'[o] \in Seq(Batches)
    BY <2>3, NamedTyped, SeqMonotonic
  <2>7. RecordTyped'
    BY <1>1, <2>1, <2>2, <2>6 DEF RecordTyped
  <2>8. QED
    BY <2>5, <2>7
<1>12. CASE \/ RegisterRoot \/ Recv \/ DropReceiver \/ DropGuard \/ RegistryDropped
            \/ Terminated \/ UNCHANGED vars
  BY <1>2, <1>12 DEF RegisterRoot, Recv, DropReceiver, DropGuard, RegistryDropped, Terminated, vars
<1>13. ASSUME NEW o \in Ops, KnownTarget(o) \/ NewType(o) \/ NewInstance(o)
       PROVE  RecordInv' /\ RecordTyped'
  BY <1>8, <1>13 DEF KnownTarget, NewType, NewInstance
<1>14. ASSUME NEW o \in Ops, RegisterChild(o) \/ ReleaseRegistry(o) \/ CallbackReturns(o) \/ UseAfterFree(o)
       PROVE  RecordInv' /\ RecordTyped'
  BY <1>2, <1>14 DEF RegisterChild, ReleaseRegistry, CallbackReturns, UseAfterFree
<1>15. ASSUME NEW r \in Resolves, ResolveCallback(r) PROVE RecordInv' /\ RecordTyped'
  BY <1>2, <1>15 DEF ResolveCallback
<1>16. ASSUME NEW i \in Instances, Disappear(i) PROVE RecordInv' /\ RecordTyped'
  BY <1>2, <1>16 DEF Disappear
<1>17. QED
  BY <1>5, <1>6, <1>7, <1>9, <1>10, <1>11, <1>12, <1>13, <1>14, <1>15, <1>16
     DEF Next, DropStep, CallbackStep

-----------------------------------------------------------------------------
(* Operations, contexts and callbacks. *)
LEMMA NextLife == TypeOK /\ LifeInv /\ CascadeInv /\ EntryInv /\ [Next]_vars => LifeInv'
<1> SUFFICES ASSUME TypeOK, LifeInv, CascadeInv, EntryInv, [Next]_vars PROVE LifeInv'
  OBVIOUS
<1> USE DEF operations, callbacks
<1>1. /\ os \in [Ops -> {"none", "active", "cancelled"}] /\ ctx \in [Ops -> {"none", "alive", "freed"}]
      /\ cb \in [Ops -> {"idle", "running", "upgraded", "pushing", "releasing"}]
      /\ DOMAIN records = Ops /\ DOMAIN batches = Ops /\ Root \in Ops
  BY DEF TypeOK, Ops
<1>2. ASSUME UNCHANGED <<os, ctx, cb, records, batches>> PROVE LifeInv'
  BY <1>2 DEF LifeInv
<1>3. ASSUME NEW o \in Ops, NEW t, DnsServiceBrowse(o, t), os[o] = "none", UNCHANGED records,
             \A p \in Ops : p # o => cb'[p] = cb[p] \/ os[p] # "none"
      PROVE  LifeInv'
  <2>1. /\ os' = [os EXCEPT ![o] = "active"] /\ ctx' = [ctx EXCEPT ![o] = "alive"]
        /\ \A p \in Ops : p # o => batches'[p] = batches[p]
    BY <1>1, <1>3 DEF DnsServiceBrowse
  <2>2. QED
    BY <1>1, <1>3, <2>1 DEF LifeInv
<1>4. CASE BrowseStart
  BY <1>1, <1>2, <1>3, <1>4 DEF BrowseStart, CascadeInv, Started
<1>5. CASE DropEntry
  <2>1. Head(entries) \in Ops
    BY <1>5, HeadTailProperties DEF DropEntry, TypeOK
  <2>2. QED
    BY <1>1, <1>5, <2>1 DEF DropEntry, LifeInv
<1>6. ASSUME NEW o \in Ops, UNCHANGED <<os, ctx>>, os[o] # "none",
             \A p \in Ops : p # o => cb'[p] = cb[p] /\ records'[p] = records[p] /\ batches'[p] = batches[p]
      PROVE  LifeInv'
  BY <1>1, <1>6 DEF LifeInv
<1>7. ASSUME NEW o \in Ops, cb[o] # "idle" PROVE os[o] # "none"
  BY <1>7 DEF LifeInv
<1>8. ASSUME NEW o \in Ops, CallbackBegins(o) PROVE LifeInv'
  BY <1>1, <1>6, <1>8 DEF CallbackBegins
<1>9. ASSUME NEW o \in Ops, KnownTarget(o) \/ NewType(o) \/ NewInstance(o) PROVE LifeInv'
  BY <1>1, <1>6, <1>7, <1>9 DEF KnownTarget, NewType, NewInstance, Handling
<1>10. ASSUME NEW o \in Ops, RegisterChild(o) \/ ReleaseRegistry(o) \/ CallbackReturns(o)
       PROVE  LifeInv'
  BY <1>1, <1>6, <1>7, <1>10 DEF RegisterChild, ReleaseRegistry, CallbackReturns
<1>11. ASSUME NEW o \in Ops, StartChild(o) PROVE LifeInv'
  <2>1. FreshChild \in Ops /\ os[FreshChild] = "none"
    BY <1>11 DEF StartChild, FreshChild, Ops
  <2>2. os[o] # "none"
    BY <1>7, <1>11 DEF StartChild
  <2>3. CASE DnsServiceBrowse(FreshChild, newborn[o]) /\ cb' = [cb EXCEPT ![o] = "pushing"]
    BY <1>1, <1>3, <1>11, <2>1, <2>2, <2>3 DEF StartChild
  <2>4. CASE UNCHANGED <<os, ctx, batches>> /\ cb' = [cb EXCEPT ![o] = "releasing"]
    BY <1>1, <1>6, <1>11, <2>2, <2>4 DEF StartChild
  <2>5. QED
    BY <1>11, <2>3, <2>4 DEF StartChild
<1>12. ASSUME NEW o \in Ops, OperationFails(o) PROVE LifeInv'
  BY <1>1, <1>6, <1>12 DEF OperationFails, Deliver
<1>13. ASSUME NEW i \in Instances, Appear(i) PROVE LifeInv'
  <2>1. \A o \in Ops : os[o] = "none" => batches'[o] = batches[o]
    BY <1>13 DEF Appear, Watching
  <2>2. QED
    BY <1>13, <2>1 DEF Appear, LifeInv
<1>14. CASE \/ RegisterRoot \/ Recv \/ DropReceiver \/ DropGuard \/ RegistryDropped
            \/ Terminated \/ UNCHANGED vars
  BY <1>2, <1>14 DEF RegisterRoot, Recv, DropReceiver, DropGuard, RegistryDropped, Terminated, vars
<1>15. ASSUME NEW o \in Ops, UseAfterFree(o) PROVE LifeInv'
  BY <1>2, <1>15 DEF UseAfterFree
<1>16. ASSUME NEW r \in Resolves, ResolveCallback(r) PROVE LifeInv'
  BY <1>2, <1>16 DEF ResolveCallback
<1>17. ASSUME NEW i \in Instances, Disappear(i) PROVE LifeInv'
  BY <1>2, <1>17 DEF Disappear
<1>18. QED
  BY <1>4, <1>5, <1>8, <1>9, <1>10, <1>11, <1>12, <1>13, <1>14, <1>15, <1>16, <1>17
     DEF Next, DropStep, CallbackStep

-----------------------------------------------------------------------------
(* The cascade.                                                            *)

(* Only the meta-query's operation is meta, and it is the root. *)
LEMMA MetaIsRoot ==
  ASSUME LifeInv, CascadeInv, NEW o \in Ops, cb[o] # "idle", IsMeta(o)
  PROVE  o = Root
<1>1. Started(o)
  BY DEF LifeInv, Started
<1>2. o \in Children => btype[o] \in Types
  BY <1>1 DEF CascadeInv
<1>3. QED
  BY <1>2, WinConstantsOK DEF IsMeta, Ops

(* A step that starts no operation and upgrades nothing. *)
LEMMA QuietCascade ==
  ASSUME CascadeInv, UNCHANGED <<request, btype>>,
         \A o \in Ops : Started(o)' = Started(o),
         handle' \in {"unstarted", "failed"} <=> handle \in {"unstarted", "failed"},
         seen[Root] \subseteq seen'[Root],
         \A o \in Ops : cb'[o] \in Holding => cb[o] \in Holding,
         cb'[Root] \in {"upgraded", "pushing"} => cb'[Root] = cb[Root] /\ newborn'[Root] = newborn[Root]
  PROVE  CascadeInv'
<1>1. Root \in Ops /\ Children \subseteq Ops
  BY DEF Ops
<1>2. /\ Started(Root)' <=> handle' \notin {"unstarted", "failed"}
      /\ Started(Root)' => btype'[Root] = request'
      /\ \A o \in Ops : cb'[o] \in Holding => o = Root /\ btype'[Root] = AllTypes
  BY <1>1 DEF CascadeInv
<1>3. /\ \A c \in Children : Started(c)' => Started(Root)' /\ btype'[c] \in Types \cap seen'[Root]
      /\ \A c, d \in Children : Started(c)' /\ Started(d)' /\ btype'[c] = btype'[d] => c = d
  BY <1>1 DEF CascadeInv
<1>4. /\ cb'[Root] = "upgraded" =>
           /\ newborn'[Root] \in Types \cap seen'[Root]
           /\ \A c \in Children : Started(c)' => btype'[c] # newborn'[Root]
      /\ cb'[Root] = "pushing" => newborn'[Root] \in Children
  BY <1>1 DEF CascadeInv
<1>5. QED
  BY <1>2, <1>3, <1>4 DEF CascadeInv

(* The start of the child. *)
LEMMA StartChildKeeps ==
  ASSUME TypeOK, LifeInv, CascadeInv, NEW o \in Ops, StartChild(o)
  PROVE  CascadeInv'
<1>1. o = Root /\ cb[Root] = "upgraded"
  BY DEF StartChild, CascadeInv, Holding
<1>2. UNCHANGED <<request, handle, seen>>
  BY DEF StartChild, asked, client
<1>3. /\ os \in [Ops -> {"none", "active", "cancelled"}] /\ btype \in [Ops -> Types \cup {AllTypes, None}]
      /\ DOMAIN cb = Ops /\ DOMAIN newborn = Ops /\ Root \in Ops /\ Children \subseteq Ops
  BY DEF TypeOK, Ops
<1>4. CASE DnsServiceBrowse(FreshChild, newborn[o]) /\ newborn' = [newborn EXCEPT ![o] = FreshChild]
           /\ cb' = [cb EXCEPT ![o] = "pushing"]
  <2>1. PICK f \in Children : f = FreshChild /\ os[f] = "none" /\ f # Root
    BY WinConstantsOK DEF StartChild, FreshChild
  <2>2. PICK t \in Types \cap seen[Root] :
          t = newborn[Root] /\ \A c \in Children : Started(c) => btype[c] # t
    BY <1>1 DEF CascadeInv
  <2>3. os' = [os EXCEPT ![f] = "active"] /\ btype' = [btype EXCEPT ![f] = t]
    BY <1>1, <1>4, <2>1, <2>2 DEF DnsServiceBrowse
  <2>4. /\ Started(f)' /\ btype'[f] = t
        /\ \A c \in Ops : c # f => (Started(c)' <=> Started(c)) /\ btype'[c] = btype[c]
    BY <1>3, <2>1, <2>3 DEF Started
  <2>5. cb'[Root] = "pushing" /\ newborn'[Root] = f /\ \A p \in Ops : p # Root => cb'[p] = cb[p]
    BY <1>1, <1>3, <1>4, <2>1
  <2>6. Started(Root)
    BY <1>1, <1>3 DEF LifeInv, Started
  <2>7. \A p \in Ops : cb'[p] \in Holding => p = Root /\ btype'[Root] = AllTypes
    <3>1. \A p \in Ops : cb[p] \in Holding => p = Root /\ btype[Root] = AllTypes
      BY DEF CascadeInv
    <3>2. QED
      BY <1>1, <1>3, <2>1, <2>4, <2>5, <3>1 DEF Holding
  <2>8. \A c, d \in Children : Started(c)' /\ Started(d)' /\ btype'[c] = btype'[d] => c = d
    <3>1. \A c, d \in Children : Started(c) /\ Started(d) /\ btype[c] = btype[d] => c = d
      BY DEF CascadeInv
    <3>2. QED
      BY <1>3, <2>1, <2>2, <2>4, <3>1
  <2>9. \A c \in Children : Started(c)' => Started(Root)' /\ btype'[c] \in Types \cap seen'[Root]
    <3>1. \A c \in Children : Started(c) => btype[c] \in Types \cap seen[Root]
      BY DEF CascadeInv
    <3>2. QED
      BY <1>2, <1>3, <2>1, <2>2, <2>4, <2>6, <3>1
  <2>10. /\ Started(Root)' <=> handle' \notin {"unstarted", "failed"}
         /\ Started(Root)' => btype'[Root] = request'
    BY <1>2, <1>3, <2>1, <2>4 DEF CascadeInv
  <2>11. QED
    BY <2>1, <2>5, <2>7, <2>8, <2>9, <2>10 DEF CascadeInv
<1>5. CASE UNCHANGED <<os, btype>> /\ cb' = [cb EXCEPT ![o] = "releasing"]
  <2>1. \A p \in Ops : cb'[p] \in Holding => cb[p] \in Holding
    BY <1>1, <1>3, <1>5 DEF Holding
  <2>2. cb'[Root] = "releasing" /\ \A p \in Ops : Started(p)' = Started(p)
    BY <1>1, <1>3, <1>5 DEF Started
  <2>3. QED
    BY <1>2, <1>5, <2>1, <2>2, QuietCascade
<1>6. QED
  BY <1>4, <1>5 DEF StartChild

LEMMA NextCascade ==
  TypeOK /\ LifeInv /\ RecordInv /\ CascadeInv /\ EntryInv /\ [Next]_vars => CascadeInv'
<1> SUFFICES ASSUME TypeOK, LifeInv, RecordInv, CascadeInv, EntryInv, [Next]_vars PROVE CascadeInv'
  OBVIOUS
<1> USE DEF asked, client, operations, callbacks
<1>1. /\ os \in [Ops -> {"none", "active", "cancelled"}] /\ btype \in [Ops -> Types \cup {AllTypes, None}]
      /\ seen \in [Ops -> SUBSET (Types \cup Instances)]
      /\ DOMAIN cb = Ops /\ DOMAIN newborn = Ops /\ Root \in Ops /\ Children \subseteq Ops
  BY DEF TypeOK, Ops
<1>2. CASE BrowseStart
  <2>1. ~Started(Root) /\ \A c \in Children : ~Started(c)
    BY <1>2 DEF BrowseStart, CascadeInv
  <2>2. CASE handle' = "starting" /\ DnsServiceBrowse(Root, request)
    <3>1. os' = [os EXCEPT ![Root] = "active"] /\ btype' = [btype EXCEPT ![Root] = request]
      BY <2>2 DEF DnsServiceBrowse
    <3>2. Started(Root)' /\ btype'[Root] = request /\ \A c \in Children : ~Started(c)'
      BY <1>1, <2>1, <3>1, WinConstantsOK DEF Started
    <3>3. \A o \in Ops : cb[o] = "idle"
      BY <2>1 DEF Started, LifeInv, Ops
    <3>4. UNCHANGED <<request, cb>>
      BY <1>2 DEF BrowseStart
    <3>5. QED
      BY <1>1, <2>2, <3>2, <3>3, <3>4 DEF CascadeInv, Holding
  <2>3. CASE handle' = "failed" /\ UNCHANGED <<os, btype>>
    BY <1>2, <2>3, QuietCascade DEF BrowseStart, Started
  <2>4. QED
    BY <1>2, <2>2, <2>3 DEF BrowseStart
<1>3. CASE RegisterRoot \/ Recv \/ DropReceiver
  BY <1>3, QuietCascade DEF RegisterRoot, Recv, DropReceiver, Started
<1>4. CASE DropGuard \/ RegistryDropped
  BY <1>4, QuietCascade DEF DropGuard, RegistryDropped, Started
<1>5. CASE DropEntry
  <2>1. Head(entries) \in Entries /\ Head(entries) \in Ops
    <3>1. entries \in Seq(Ops) /\ entries # <<>>
      BY <1>5 DEF DropEntry, TypeOK
    <3>2. Head(entries) = entries[1] /\ 1 \in DOMAIN entries /\ Head(entries) \in Ops
      BY <3>1
    <3>3. QED
      BY <3>2 DEF Entries
  <2>2. os[Head(entries)] = "active"
    BY <2>1 DEF EntryInv
  <2>3. \A o \in Ops : Started(o)' = Started(o)
    BY <1>1, <1>5, <2>1, <2>2 DEF DropEntry, Started
  <2>4. QED
    BY <1>5, <2>3, QuietCascade DEF DropEntry
<1>6. ASSUME NEW o \in Ops, CallbackBegins(o) \/ CallbackReturns(o) PROVE CascadeInv'
  <2>1. \A p \in Ops : cb'[p] \in Holding => cb'[p] = cb[p]
    BY <1>1, <1>6 DEF CallbackBegins, CallbackReturns, Holding
  <2>2. QED
    BY <1>1, <1>6, <2>1, QuietCascade DEF CallbackBegins, CallbackReturns, Started, Holding
<1>7. ASSUME NEW o \in Ops, KnownTarget(o) \/ UseAfterFree(o) PROVE CascadeInv'
  BY <1>7, QuietCascade DEF KnownTarget, UseAfterFree, Started
<1>8. ASSUME NEW o \in Ops, NewInstance(o) PROVE CascadeInv'
  <2>1. seen[Root] \subseteq seen'[Root]
    BY <1>1, <1>8 DEF NewInstance, Note
  <2>2. QED
    BY <1>8, <2>1, QuietCascade DEF NewInstance, Started
<1>9. ASSUME NEW o \in Ops, NewType(o) PROVE CascadeInv'
  <2> DEFINE t == Head(records[o])
  <2>1. o = Root /\ t \in Types
    <3>1. cb[o] # "idle" /\ IsMeta(o) /\ records[o] # <<>>
      BY <1>9 DEF NewType, Handling
    <3>2. QED
      BY <3>1, MetaIsRoot, HeadNamed
  <2>2. seen' = [seen EXCEPT ![Root] = seen[Root] \cup {t}] /\ t \notin seen[Root]
    BY <1>1, <1>9, <2>1 DEF NewType, Note, Unseen
  <2> HIDE DEF t
  <2>3. seen'[Root] = seen[Root] \cup {t} /\ UNCHANGED <<request, handle, os, btype>>
    BY <1>1, <1>9, <2>2 DEF NewType
  <2>4. CASE UNCHANGED <<cb, newborn>>
    BY <2>3, <2>4, QuietCascade DEF Started
  <2>5. CASE cb' = [cb EXCEPT ![Root] = "upgraded"] /\ newborn' = [newborn EXCEPT ![Root] = t]
    <3>1. cb'[Root] = "upgraded" /\ newborn'[Root] = t /\ \A p \in Ops : p # Root => cb'[p] = cb[p]
      BY <1>1, <2>5
    <3>2. \A c \in Children : Started(c) => btype[c] # t
      BY <2>2 DEF CascadeInv
    <3>3. btype[Root] = AllTypes
      BY <1>9, <2>1 DEF NewType, IsMeta
    <3>4. \A p \in Ops : cb'[p] \in Holding => p = Root /\ btype[Root] = AllTypes
      BY <3>1, <3>3 DEF CascadeInv
    <3>5. /\ \A c \in Children : Started(c)' => Started(Root)' /\ btype'[c] \in Types \cap seen'[Root]
          /\ \A c, d \in Children : Started(c)' /\ Started(d)' /\ btype'[c] = btype'[d] => c = d
      BY <2>3 DEF CascadeInv, Started
    <3>6. /\ Started(Root)' <=> handle' \notin {"unstarted", "failed"}
          /\ Started(Root)' => btype'[Root] = request'
      BY <2>3 DEF CascadeInv, Started
    <3>7. \A c \in Children : Started(c)' => btype'[c] # newborn'[Root]
      BY <2>3, <3>1, <3>2 DEF Started
    <3>8. QED
      BY <2>1, <2>3, <3>1, <3>4, <3>5, <3>6, <3>7 DEF CascadeInv
  <2>6. QED
    BY <1>9, <2>1, <2>4, <2>5 DEF NewType, t
<1>10. ASSUME NEW o \in Ops, RegisterChild(o) \/ ReleaseRegistry(o) PROVE CascadeInv'
  <2>1. /\ cb[o] \in Holding /\ UNCHANGED <<request, handle, os, btype, seen>>
        /\ cb' = [cb EXCEPT ![o] = "releasing"] \/ cb' = [cb EXCEPT ![o] = "running"]
    BY <1>10 DEF RegisterChild, ReleaseRegistry, Holding
  <2>2. o = Root
    BY <2>1 DEF CascadeInv
  <2>3. \A p \in Ops : cb'[p] \in Holding => cb[p] \in Holding
    BY <1>1, <2>1
  <2>4. cb'[Root] \notin {"upgraded", "pushing"}
    BY <1>1, <2>1, <2>2
  <2>5. QED
    BY <2>1, <2>3, <2>4, QuietCascade DEF Started
<1>11. ASSUME NEW o \in Ops, OperationFails(o) PROVE CascadeInv'
  BY <1>11, QuietCascade DEF OperationFails, Started
<1>12. ASSUME NEW r \in Resolves, ResolveCallback(r) PROVE CascadeInv'
  BY <1>12, QuietCascade DEF ResolveCallback, Started
<1>13. ASSUME NEW i \in Instances, Appear(i) \/ Disappear(i) PROVE CascadeInv'
  BY <1>13, QuietCascade DEF Appear, Disappear, Started
<1>14. CASE Terminated \/ UNCHANGED vars
  BY <1>14, QuietCascade DEF Terminated, vars, Started
<1>15. QED
  BY <1>2, <1>3, <1>4, <1>5, <1>6, <1>7, <1>8, <1>9, <1>10, <1>11, <1>12, <1>13, <1>14, StartChildKeeps
     DEF Next, DropStep, CallbackStep

-----------------------------------------------------------------------------
(* The owners of the registry.                                             *)

(* A step that neither takes nor gives up a reference. *)
LEMMA QuietOwners ==
  ASSUME OwnerInv, UNCHANGED <<owners, dropper>>,
         \A o \in Ops : cb'[o] \in Holding <=> cb[o] \in Holding,
         \A o \in Ops : dropper = o /\ cb[o] = "running" => cb'[o] = "running",
         handle' = handle \/ {handle, handle'} \subseteq {"starting", "open", "rxdropped"}
           \/ {handle, handle'} \subseteq {"unstarted", "failed"},
         os[Root] = "active" => os'[Root] = "active",
         entries' = entries \/ owners # {}
  PROVE  OwnerInv'
<1>1. /\ \A o \in Ops : o \in owners' <=> cb'[o] \in Holding
      /\ \A o \in Ops : dropper' = o => cb'[o] = "running"
  BY DEF OwnerInv
<1>2. /\ Guard \in owners' <=> handle' \in {"starting", "open", "rxdropped"}
      /\ dropper' = Guard <=> handle' = "dropping"
  BY DEF OwnerInv
<1>3. /\ dropper' # None => owners' = {}
      /\ owners' # {} => os'[Root] = "active"
      /\ owners' = {} /\ dropper' = None => entries' = <<>>
  BY DEF OwnerInv
<1>4. QED
  BY <1>1, <1>2, <1>3 DEF OwnerInv

LEMMA NextOwners ==
  TypeOK /\ LifeInv /\ CascadeInv /\ OwnerInv /\ EntryInv /\ [Next]_vars => OwnerInv'
<1> SUFFICES ASSUME TypeOK, LifeInv, CascadeInv, OwnerInv, EntryInv, [Next]_vars PROVE OwnerInv'
  OBVIOUS
<1> USE DEF client, operations, callbacks, registry
<1>1. /\ os \in [Ops -> {"none", "active", "cancelled"}]
      /\ cb \in [Ops -> {"idle", "running", "upgraded", "pushing", "releasing"}]
      /\ Root \in Ops /\ Children \subseteq Ops /\ Root \notin Children /\ Guard \notin Ops
      /\ None # Guard /\ None \notin Ops
  BY WinConstantsOK DEF TypeOK, Ops
<1>2. CASE BrowseStart
  <2>1. owners = {} /\ dropper = None /\ entries = <<>> /\ \A o \in Ops : cb[o] = "idle"
    <3>1. ~Started(Root) /\ \A c \in Children : ~Started(c)
      BY <1>2 DEF BrowseStart, CascadeInv
    <3>2. \A o \in Ops : cb[o] = "idle"
      BY <3>1 DEF Ops, LifeInv, Started
    <3>3. owners = {} /\ dropper = None
      <4>1. \A o \in Ops : o \notin owners /\ dropper # o
        BY <3>2 DEF OwnerInv, Holding
      <4>2. Guard \notin owners /\ dropper # Guard
        BY <1>2 DEF BrowseStart, OwnerInv
      <4>3. owners \in SUBSET (Ops \cup {Guard}) /\ dropper \in Ops \cup {Guard, None}
        BY DEF TypeOK
      <4>4. QED
        BY <4>1, <4>2, <4>3
    <3>4. QED
      BY <3>2, <3>3 DEF OwnerInv
  <2>2. CASE handle' = "starting" /\ owners' = {Guard} /\ DnsServiceBrowse(Root, request)
    <3>1. os'[Root] = "active" /\ UNCHANGED <<cb, dropper>>
      BY <1>1, <1>2, <2>2 DEF BrowseStart, DnsServiceBrowse
    <3>2. QED
      BY <1>1, <2>1, <2>2, <3>1 DEF OwnerInv, Holding
  <2>3. CASE handle' = "failed" /\ UNCHANGED <<owners, os>>
    BY <1>2, <2>3, QuietOwners DEF BrowseStart
  <2>4. QED
    BY <1>2, <2>2, <2>3 DEF BrowseStart
<1>3. CASE RegisterRoot \/ Recv \/ DropReceiver
  BY <1>3, QuietOwners DEF RegisterRoot, Recv, DropReceiver, OwnerInv
<1>4. CASE DropGuard
  <2>1. /\ handle = "rxdropped" /\ owners' = owners \ {Guard} /\ UNCHANGED <<os, cb, entries>>
        /\ dropper' = IF owners = {Guard} THEN Guard ELSE dropper
        /\ handle' = IF dropper' = Guard THEN "dropping" ELSE "dropped"
    BY <1>4 DEF DropGuard, Release
  <2>2. Guard \in owners /\ dropper = None
    BY <2>1 DEF OwnerInv
  <2>3. CASE owners = {Guard}
    BY <1>1, <2>1, <2>2, <2>3 DEF OwnerInv
  <2>4. CASE owners # {Guard}
    <3>1. owners' # {} /\ dropper' = None /\ handle' = "dropped"
      BY <1>1, <2>1, <2>2, <2>4
    <3>2. QED
      BY <1>1, <2>1, <2>2, <3>1 DEF OwnerInv
  <2>5. QED
    BY <2>3, <2>4
<1>5. CASE DropEntry
  <2>1. dropper # None /\ UNCHANGED <<owners, dropper, cb, handle>>
    BY <1>5 DEF DropEntry
  <2>2. owners = {}
    BY <2>1 DEF OwnerInv
  <2>3. QED
    BY <2>1, <2>2 DEF OwnerInv
<1>6. CASE RegistryDropped
  BY <1>1, <1>6 DEF RegistryDropped, OwnerInv
<1>7. ASSUME NEW o \in Ops, CallbackBegins(o) PROVE OwnerInv'
  <2>1. cb[o] = "idle" /\ cb' = [cb EXCEPT ![o] = "running"]
    BY <1>7 DEF CallbackBegins
  <2>2. \A p \in Ops : cb'[p] = cb[p] \/ (p = o /\ cb'[p] = "running")
    BY <1>1, <2>1
  <2>3. QED
    BY <1>7, <2>1, <2>2, QuietOwners DEF CallbackBegins, Holding
<1>8. ASSUME NEW o \in Ops, CallbackReturns(o) PROVE OwnerInv'
  <2>1. cb[o] = "running" /\ dropper # o /\ cb' = [cb EXCEPT ![o] = "idle"]
    BY <1>8 DEF CallbackReturns
  <2>2. \A p \in Ops : cb'[p] = cb[p] \/ (p = o /\ cb'[p] = "idle")
    BY <1>1, <2>1
  <2>3. QED
    BY <1>8, <2>1, <2>2, QuietOwners DEF CallbackReturns, Holding
<1>9. ASSUME NEW o \in Ops, KnownTarget(o) \/ UseAfterFree(o) \/ NewInstance(o) PROVE OwnerInv'
  BY <1>9, QuietOwners DEF KnownTarget, UseAfterFree, NewInstance
<1>10. ASSUME NEW o \in Ops, NewType(o) PROVE OwnerInv'
  <2>1. UNCHANGED <<handle, os, entries, dropper>> /\ cb[o] = "running"
    BY <1>10 DEF NewType, Handling
  <2>2. CASE owners = {}
    BY <1>10, <2>1, <2>2, QuietOwners DEF NewType
  <2>3. CASE owners # {}
    <3>1. cb' = [cb EXCEPT ![o] = "upgraded"] /\ owners' = owners \cup {o}
      BY <1>10, <2>3 DEF NewType, Upgrade
    <3>2. dropper = None
      BY <2>3 DEF OwnerInv
    <3>3. cb'[o] = "upgraded" /\ \A p \in Ops : p # o => cb'[p] = cb[p]
      BY <1>1, <3>1
    <3>4. \A p \in Ops : p \in owners' <=> cb'[p] \in Holding
      BY <3>1, <3>3 DEF OwnerInv, Holding
    <3>5. Guard \in owners' <=> Guard \in owners
      BY <1>1, <3>1
    <3>6. QED
      BY <1>1, <2>1, <2>3, <3>1, <3>2, <3>4, <3>5 DEF OwnerInv
  <2>4. QED
    BY <2>2, <2>3
<1>11. ASSUME NEW o \in Ops, StartChild(o) PROVE OwnerInv'
  <2>1. cb[o] = "upgraded" /\ UNCHANGED <<owners, dropper, handle, entries>>
    BY <1>11 DEF StartChild
  <2>2. cb' = [cb EXCEPT ![o] = "pushing"] \/ cb' = [cb EXCEPT ![o] = "releasing"]
    BY <1>11 DEF StartChild
  <2>3. \A p \in Ops : cb'[p] = cb[p] \/ (p = o /\ cb'[p] \in Holding)
    BY <1>1, <2>2 DEF Holding
  <2>4. os[Root] = "active" => os'[Root] = "active"
    <3>1. FreshChild # Root /\ FreshChild \in Ops
      BY <1>1, <1>11 DEF StartChild, FreshChild
    <3>2. QED
      BY <1>1, <1>11, <3>1 DEF StartChild, DnsServiceBrowse
  <2>5. QED
    BY <2>1, <2>3, <2>4, QuietOwners DEF Holding
<1>12. ASSUME NEW o \in Ops, RegisterChild(o) PROVE OwnerInv'
  <2>1. cb[o] = "pushing" /\ cb' = [cb EXCEPT ![o] = "releasing"]
    BY <1>12 DEF RegisterChild
  <2>2. \A p \in Ops : cb'[p] = cb[p] \/ (p = o /\ cb'[p] \in Holding)
    BY <1>1, <2>1 DEF Holding
  <2>3. o \in owners
    BY <2>1 DEF OwnerInv, Holding
  <2>4. QED
    BY <1>12, <2>1, <2>2, <2>3, QuietOwners DEF RegisterChild, Holding
<1>13. ASSUME NEW o \in Ops, ReleaseRegistry(o) PROVE OwnerInv'
  <2>1. /\ cb[o] = "releasing" /\ owners' = owners \ {o} /\ UNCHANGED <<os, handle, entries>>
        /\ dropper' = IF owners = {o} THEN o ELSE dropper
        /\ cb' = [cb EXCEPT ![o] = "running"]
    BY <1>13 DEF ReleaseRegistry, Release
  <2>2. o \in owners /\ dropper = None
    BY <2>1 DEF OwnerInv, Holding
  <2>3. cb'[o] = "running" /\ \A p \in Ops : p # o => cb'[p] = cb[p]
    BY <1>1, <2>1
  <2>4. \A p \in Ops : p \in owners' <=> cb'[p] \in Holding
    BY <2>1, <2>3 DEF OwnerInv, Holding
  <2>5. Guard \in owners' <=> handle' \in {"starting", "open", "rxdropped"}
    BY <1>1, <2>1 DEF OwnerInv
  <2>6. handle # "dropping"
    BY <1>1, <2>2 DEF OwnerInv
  <2>7. CASE owners = {o}
    <3>1. owners' = {} /\ dropper' = o
      BY <2>1, <2>7
    <3>2. QED
      BY <1>1, <2>1, <2>3, <2>4, <2>5, <2>6, <3>1 DEF OwnerInv
  <2>8. CASE owners # {o}
    <3>1. owners' # {} /\ dropper' = None /\ os[Root] = "active"
      BY <2>1, <2>2, <2>8 DEF OwnerInv
    <3>2. QED
      BY <1>1, <2>1, <2>4, <2>5, <2>6, <3>1 DEF OwnerInv
  <2>9. QED
    BY <2>7, <2>8
<1>14. ASSUME NEW o \in Ops, OperationFails(o) PROVE OwnerInv'
  BY <1>14, QuietOwners DEF OperationFails
<1>15. ASSUME NEW r \in Resolves, ResolveCallback(r) PROVE OwnerInv'
  BY <1>15, QuietOwners DEF ResolveCallback
<1>16. ASSUME NEW i \in Instances, Appear(i) \/ Disappear(i) PROVE OwnerInv'
  BY <1>16, QuietOwners DEF Appear, Disappear
<1>17. CASE Terminated \/ UNCHANGED vars
  BY <1>17, QuietOwners DEF Terminated, vars
<1>18. QED
  BY <1>2, <1>3, <1>4, <1>5, <1>6, <1>7, <1>8, <1>9, <1>10, <1>11, <1>12, <1>13, <1>14, <1>15, <1>16, <1>17
     DEF Next, DropStep, CallbackStep

-----------------------------------------------------------------------------
(* The entries of the registry.                                            *)

(* A step that leaves the operations and the registry alone. *)
LEMMA QuietEntries ==
  ASSUME EntryInv, UNCHANGED <<entries, os>>,
         handle' = "starting" <=> handle = "starting",
         cb'[Root] = "pushing" <=> cb[Root] = "pushing",
         cb[Root] = "pushing" => newborn'[Root] = newborn[Root]
  PROVE  EntryInv'
BY DEF EntryInv, Entries

(* A new entry goes to the end of the registry. *)
LEMMA PushedEntry ==
  ASSUME TypeOK, NEW x \in Ops, entries' = Append(entries, x), x \notin Entries,
         \A m, n \in DOMAIN entries : entries[m] = entries[n] => m = n
  PROVE  /\ Entries' = Entries \cup {x}
         /\ \A m, n \in DOMAIN entries' : entries'[m] = entries'[n] => m = n
<1>1. /\ Len(entries) \in Nat /\ DOMAIN entries = 1..Len(entries)
      /\ DOMAIN entries' = 1..(Len(entries) + 1)
      /\ \A n \in 1..Len(entries) : entries'[n] = entries[n]
      /\ entries'[Len(entries) + 1] = x
  BY DEF TypeOK
<1>2. \A n \in DOMAIN entries' : (n \in DOMAIN entries /\ entries'[n] = entries[n]) \/ entries'[n] = x
  BY <1>1
<1>3. Entries' = Entries \cup {x}
  BY <1>1, <1>2 DEF Entries
<1>4. \A n \in DOMAIN entries : entries[n] # x
  BY DEF Entries
<1>5. QED
  BY <1>1, <1>3, <1>4

(* The first entry of the registry leaves it. *)
LEMMA PoppedEntry ==
  ASSUME TypeOK, entries # <<>>, entries' = Tail(entries),
         \A m, n \in DOMAIN entries : entries[m] = entries[n] => m = n
  PROVE  /\ Head(entries) \in Entries /\ Head(entries) \in Ops
         /\ Entries' = Entries \ {Head(entries)}
         /\ \A m, n \in DOMAIN entries' : entries'[m] = entries'[n] => m = n
<1>1. /\ Len(entries) \in Nat \ {0} /\ DOMAIN entries = 1..Len(entries)
      /\ DOMAIN entries' = 1..(Len(entries) - 1)
      /\ \A n \in DOMAIN entries' : entries'[n] = entries[n + 1] /\ n + 1 \in DOMAIN entries
      /\ Head(entries) = entries[1] /\ 1 \in DOMAIN entries /\ Head(entries) \in Ops
  BY HeadTailProperties DEF TypeOK
<1>2. \A n \in DOMAIN entries : n # 1 => n - 1 \in DOMAIN entries' /\ entries'[n - 1] = entries[n]
  BY <1>1
<1>3. \A n \in DOMAIN entries' : entries'[n] # entries[1]
  BY <1>1
<1>4. Entries' = Entries \ {entries[1]}
  BY <1>1, <1>2, <1>3 DEF Entries
<1>5. \A m, n \in DOMAIN entries' : entries'[m] = entries'[n] => m = n
  BY <1>1
<1>6. entries[1] \in Entries
  BY <1>1 DEF Entries
<1>7. QED
  BY <1>1, <1>4, <1>5, <1>6

LEMMA NextEntries ==
  TypeOK /\ LifeInv /\ CascadeInv /\ OwnerInv /\ EntryInv /\ [Next]_vars => EntryInv'
<1> SUFFICES ASSUME TypeOK, LifeInv, CascadeInv, OwnerInv, EntryInv, [Next]_vars PROVE EntryInv'
  OBVIOUS
<1> USE DEF client, operations, callbacks, registry
<1>1. /\ os \in [Ops -> {"none", "active", "cancelled"}]
      /\ cb \in [Ops -> {"idle", "running", "upgraded", "pushing", "releasing"}]
      /\ Root \in Ops /\ Children \subseteq Ops /\ Root \notin Children
      /\ DOMAIN newborn = Ops
  BY WinConstantsOK DEF TypeOK, Ops
<1>2. CASE BrowseStart
  <2>1. ~Started(Root) /\ \A c \in Children : ~Started(c)
    BY <1>2 DEF BrowseStart, CascadeInv
  <2>2. CASE handle' = "starting" /\ DnsServiceBrowse(Root, request)
    <3>1. os'[Root] = "active" /\ \A o \in Ops : o # Root => os'[o] = "none"
      BY <1>1, <2>1, <2>2 DEF DnsServiceBrowse, Started, Ops
    <3>2. cb[Root] = "idle" /\ UNCHANGED <<cb, entries>>
      BY <1>1, <1>2, <2>1 DEF LifeInv, Started, BrowseStart
    <3>3. Root \notin Entries /\ \A c \in Children : c \notin Entries
      BY <2>1 DEF EntryInv, Started
    <3>4. Entries \subseteq Ops
      BY DEF TypeOK, Entries
    <3>5. Entries' = Entries /\ Entries = {}
      BY <3>2, <3>3, <3>4 DEF Entries, Ops
    <3>6. QED
      BY <2>2, <3>1, <3>2, <3>5 DEF EntryInv
  <2>3. CASE handle' = "failed" /\ UNCHANGED os
    BY <1>2, <2>3, QuietEntries DEF BrowseStart
  <2>4. QED
    BY <1>2, <2>2, <2>3 DEF BrowseStart
<1>3. CASE RegisterRoot
  <2>1. handle = "starting" /\ handle' = "open" /\ entries' = Append(entries, Root)
        /\ UNCHANGED <<os, cb, newborn>>
    BY <1>3 DEF RegisterRoot
  <2>2. Root \notin Entries /\ os[Root] = "active"
    BY <2>1 DEF EntryInv, OwnerInv
  <2>3. /\ Entries' = Entries \cup {Root}
        /\ \A m, n \in DOMAIN entries' : entries'[m] = entries'[n] => m = n
    BY <1>1, <2>1, <2>2, PushedEntry DEF EntryInv
  <2>4. cb[Root] = "pushing" => newborn[Root] # Root
    BY <1>1 DEF CascadeInv
  <2>5. QED
    BY <2>1, <2>2, <2>3, <2>4 DEF EntryInv
<1>4. CASE Recv \/ DropReceiver \/ DropGuard \/ RegistryDropped
  BY <1>4, QuietEntries DEF Recv, DropReceiver, DropGuard, RegistryDropped
<1>5. CASE DropEntry
  <2>1. PICK x \in Ops : x = Head(entries)
    BY <1>5, HeadTailProperties DEF DropEntry, TypeOK
  <2>2. /\ x \in Entries /\ Entries' = Entries \ {x}
        /\ \A m, n \in DOMAIN entries' : entries'[m] = entries'[n] => m = n
    BY <1>5, <2>1, PoppedEntry DEF DropEntry, EntryInv
  <2>3. os' = [os EXCEPT ![x] = "cancelled"] /\ UNCHANGED <<handle, cb, newborn>>
    BY <1>5, <2>1 DEF DropEntry
  <2>4. owners = {}
    BY <1>5 DEF DropEntry, OwnerInv
  <2>5. handle # "starting" /\ cb[Root] # "pushing"
    BY <1>1, <2>4 DEF OwnerInv, Holding
  <2>6. os'[x] = "cancelled" /\ \A o \in Ops : o # x => os'[o] = os[o]
    BY <1>1, <2>3
  <2>7. Entries \subseteq Ops
    BY DEF TypeOK, Entries
  <2>8. QED
    BY <2>2, <2>3, <2>5, <2>6, <2>7 DEF EntryInv
<1>6. ASSUME NEW o \in Ops, CallbackBegins(o) \/ CallbackReturns(o) PROVE EntryInv'
  <2>1. cb'[Root] = "pushing" <=> cb[Root] = "pushing"
    BY <1>1, <1>6 DEF CallbackBegins, CallbackReturns
  <2>2. QED
    BY <1>6, <2>1, QuietEntries DEF CallbackBegins, CallbackReturns
<1>7. ASSUME NEW o \in Ops, KnownTarget(o) \/ UseAfterFree(o) \/ NewInstance(o) PROVE EntryInv'
  BY <1>7, QuietEntries DEF KnownTarget, UseAfterFree, NewInstance
<1>8. ASSUME NEW o \in Ops, NewType(o) PROVE EntryInv'
  <2>1. cb'[Root] = "pushing" <=> cb[Root] = "pushing"
    BY <1>1, <1>8 DEF NewType, Handling
  <2>2. cb[Root] = "pushing" => newborn'[Root] = newborn[Root]
    BY <1>1, <1>8 DEF NewType, Handling
  <2>3. QED
    BY <1>8, <2>1, <2>2, QuietEntries DEF NewType
<1>9. ASSUME NEW o \in Ops, StartChild(o) PROVE EntryInv'
  <2>1. o = Root /\ cb[Root] = "upgraded" /\ UNCHANGED <<handle, entries>>
    BY <1>9 DEF StartChild, CascadeInv, Holding
  <2>2. PICK f \in Children : f = FreshChild /\ os[f] = "none"
    BY <1>9 DEF StartChild, FreshChild
  <2>3. CASE DnsServiceBrowse(FreshChild, newborn[o]) /\ newborn' = [newborn EXCEPT ![o] = FreshChild]
             /\ cb' = [cb EXCEPT ![o] = "pushing"]
    <3>1. cb'[Root] = "pushing" /\ newborn'[Root] = f
      BY <1>1, <2>1, <2>2, <2>3
    <3>2. os'[f] = "active" /\ \A p \in Ops : p # f => os'[p] = os[p]
      BY <1>1, <2>2, <2>3 DEF DnsServiceBrowse
    <3>3. f \notin Entries /\ Entries' = Entries
      BY <2>1, <2>2 DEF EntryInv, Entries
    <3>4. Entries \subseteq Ops
      BY DEF TypeOK, Entries
    <3>5. \A p \in Ops : os'[p] = "active" => p \in Entries \/ (p = Root /\ handle = "starting") \/ p = f
      BY <2>1, <3>2 DEF EntryInv
    <3>6. QED
      BY <2>1, <3>1, <3>2, <3>3, <3>4, <3>5 DEF EntryInv
  <2>4. CASE UNCHANGED os /\ cb' = [cb EXCEPT ![o] = "releasing"]
    <3>1. cb'[Root] = "releasing"
      BY <1>1, <2>1, <2>4
    <3>2. QED
      BY <2>1, <2>4, <3>1, QuietEntries
  <2>5. QED
    BY <1>9, <2>3, <2>4 DEF StartChild
<1>10. ASSUME NEW o \in Ops, RegisterChild(o) PROVE EntryInv'
  <2>1. o = Root /\ cb[Root] = "pushing" /\ UNCHANGED <<handle, os>>
    BY <1>10 DEF RegisterChild, CascadeInv, Holding
  <2>2. PICK x \in Children : x = newborn[Root] /\ os[x] = "active" /\ x \notin Entries
    BY <2>1 DEF CascadeInv, EntryInv
  <2>3. /\ Entries' = Entries \cup {x}
        /\ \A m, n \in DOMAIN entries' : entries'[m] = entries'[n] => m = n
    BY <1>1, <1>10, <2>1, <2>2, PushedEntry DEF EntryInv, RegisterChild
  <2>4. cb'[Root] = "releasing"
    BY <1>1, <1>10, <2>1 DEF RegisterChild
  <2>5. QED
    BY <1>1, <2>1, <2>2, <2>3, <2>4 DEF EntryInv
<1>11. ASSUME NEW o \in Ops, ReleaseRegistry(o) PROVE EntryInv'
  <2>1. cb'[Root] = "pushing" <=> cb[Root] = "pushing"
    BY <1>1, <1>11 DEF ReleaseRegistry
  <2>2. QED
    BY <1>11, <2>1, QuietEntries DEF ReleaseRegistry
<1>12. ASSUME NEW o \in Ops, OperationFails(o) PROVE EntryInv'
  BY <1>12, QuietEntries DEF OperationFails
<1>13. ASSUME NEW r \in Resolves, ResolveCallback(r) PROVE EntryInv'
  BY <1>13, QuietEntries DEF ResolveCallback
<1>14. ASSUME NEW i \in Instances, Appear(i) \/ Disappear(i) PROVE EntryInv'
  BY <1>14, QuietEntries DEF Appear, Disappear
<1>15. CASE Terminated \/ UNCHANGED vars
  BY <1>15, QuietEntries DEF Terminated, vars
<1>16. QED
  BY <1>2, <1>3, <1>4, <1>5, <1>6, <1>7, <1>8, <1>9, <1>10, <1>11, <1>12, <1>13, <1>14, <1>15
     DEF Next, DropStep, CallbackStep

-----------------------------------------------------------------------------
(* What callbacks and drops may do to the stream: send one event at most,  *)
(* and only while a context or a resolve owns a sender.                    *)
LEMMA ProducerEffects ==
  ASSUME TypeOK, LifeInv, RecordInv, CascadeInv, OwnerInv, EntryInv,
         \/ DropEntry
         \/ \E o \in Ops : CallbackStep(o)
         \/ \E r \in Resolves : ResolveCallback(r)
  PROVE  /\ UNCHANGED client
         /\ \/ UNCHANGED <<chan, ctx, job>>
            \/ Senders # {} /\ (UNCHANGED chan \/ \E e \in Events : Emit(e))
<1> DEFINE Quiet == UNCHANGED <<chan, ctx, job>>
           Sends == Senders # {} /\ (UNCHANGED chan \/ \E e \in Events : Emit(e))
<1> USE DEF operations, jobs
<1>1. EventOf("BrowseFailed", None) \in Events
  BY DEF Events, EventOf
<1>2. ASSUME NEW o \in Ops, os[o] = "active" \/ ctx[o] = "alive" PROVE Senders # {}
  BY <1>2 DEF LifeInv, Senders
<1>3. CASE DropEntry
  <2>1. Head(entries) \in Ops /\ os[Head(entries)] = "active"
    <3>1. entries \in Seq(Ops) /\ entries # <<>>
      BY <1>3 DEF DropEntry, TypeOK
    <3>2. Head(entries) = entries[1] /\ 1 \in DOMAIN entries /\ Head(entries) \in Ops
      BY <3>1
    <3>3. QED
      BY <3>2 DEF Entries, EntryInv
  <2>2. Senders # {}
    BY <1>2, <2>1
  <2>3. QED
    BY <1>3, <2>2 DEF DropEntry
<1>4. ASSUME NEW o \in Ops, CallbackBegins(o) PROVE UNCHANGED client /\ Sends
  BY <1>1, <1>2, <1>4 DEF CallbackBegins
<1>5. ASSUME NEW o \in Ops,
             \/ KnownTarget(o) \/ NewType(o) \/ RegisterChild(o) \/ ReleaseRegistry(o)
             \/ CallbackReturns(o) \/ UseAfterFree(o)
      PROVE  UNCHANGED client /\ Quiet
  BY <1>5 DEF KnownTarget, NewType, RegisterChild, ReleaseRegistry, CallbackReturns, UseAfterFree
<1>6. ASSUME NEW o \in Ops, NewInstance(o) PROVE UNCHANGED client /\ Sends
  <2>1. Head(records[o]) \in Instances
    BY <1>6, HeadNamed DEF NewInstance, Handling
  <2>2. EventOf("ResolveFailed", Head(records[o])) \in Events
    BY <2>1 DEF Events, EventOf
  <2>3. Senders # {}
    BY <1>2, <1>6 DEF NewInstance, Handling
  <2>4. QED
    BY <1>6, <2>2, <2>3 DEF NewInstance
<1>7. ASSUME NEW o \in Ops, StartChild(o) PROVE UNCHANGED client /\ Sends
  <2>1. o \in owners /\ Root \in Ops
    BY <1>7 DEF StartChild, OwnerInv, Holding, Ops
  <2>2. os[Root] = "active"
    BY <2>1 DEF OwnerInv
  <2>3. Senders # {}
    BY <1>2, <2>1, <2>2
  <2>4. QED
    BY <1>7, <2>3 DEF StartChild
<1>8. ASSUME NEW r \in Resolves, ResolveCallback(r) PROVE UNCHANGED client /\ Sends
  <2>1. EventOf("Found", target[r]) \in Events /\ EventOf("ResolveFailed", target[r]) \in Events
    BY DEF TypeOK, Events, EventOf
  <2>2. Senders # {}
    BY <1>8 DEF ResolveCallback, Senders
  <2>3. QED
    BY <1>8, <2>1, <2>2 DEF ResolveCallback
<1>9. QED
  BY <1>3, <1>4, <1>5, <1>6, <1>7, <1>8 DEF CallbackStep

-----------------------------------------------------------------------------
(* Type correctness, one part of the state after the other.                *)

(* The request, the counters, the network. *)
ControlTyped ==
  /\ request \in Types \cup {AllTypes} /\ domain \in Domains
  /\ dead \in BOOLEAN
  /\ present \in SUBSET Instances
  /\ churn \in 0..MaxChurn
  /\ faults \in 0..MaxFaults

LEMMA NextControl == TypeOK /\ [Next]_vars => ControlTyped'
<1> SUFFICES ASSUME TypeOK, [Next]_vars PROVE ControlTyped'
  OBVIOUS
<1> USE DEF ControlTyped, asked, network
<1>1. ControlTyped
  BY DEF TypeOK
<1>2. ASSUME Fault PROVE faults' \in 0..MaxFaults
  BY <1>1, <1>2, WinConstantsOK DEF Fault
<1>3. CASE BrowseStart
  BY <1>1, <1>2, <1>3 DEF BrowseStart
<1>4. CASE RegisterRoot \/ Recv \/ DropReceiver \/ DropGuard \/ DropStep
  BY <1>1, <1>4 DEF RegisterRoot, Recv, DropReceiver, DropGuard, DropStep, DropEntry, RegistryDropped
<1>5. ASSUME NEW o \in Ops,
             \/ CallbackBegins(o) \/ KnownTarget(o) \/ NewType(o) \/ RegisterChild(o)
             \/ ReleaseRegistry(o) \/ CallbackReturns(o) \/ UseAfterFree(o)
      PROVE  ControlTyped'
  BY <1>1, <1>5 DEF CallbackBegins, KnownTarget, NewType, RegisterChild, ReleaseRegistry,
                    CallbackReturns, UseAfterFree
<1>6. ASSUME NEW o \in Ops, NewInstance(o) \/ StartChild(o) \/ OperationFails(o) PROVE ControlTyped'
  BY <1>1, <1>2, <1>6 DEF NewInstance, StartChild, OperationFails
<1>7. ASSUME NEW r \in Resolves, ResolveCallback(r) PROVE ControlTyped'
  BY <1>1, <1>2, <1>7 DEF ResolveCallback
<1>8. ASSUME NEW i \in Instances, Appear(i) \/ Disappear(i) PROVE ControlTyped'
  BY <1>1, <1>8, WinConstantsOK DEF Appear, Disappear
<1>9. CASE Terminated \/ UNCHANGED vars
  BY <1>1, <1>9 DEF Terminated, vars
<1>10. QED
  BY <1>3, <1>4, <1>5, <1>6, <1>7, <1>8, <1>9 DEF Next, CallbackStep

(* The operations and their callbacks. *)
OperationsTyped ==
  /\ os \in [Ops -> {"none", "active", "cancelled"}]
  /\ ctx \in [Ops -> {"none", "alive", "freed"}]
  /\ btype \in [Ops -> Types \cup {AllTypes, None}]
  /\ seen \in [Ops -> SUBSET (Types \cup Instances)]
  /\ cb \in [Ops -> {"idle", "running", "upgraded", "pushing", "releasing"}]
  /\ newborn \in [Ops -> Types \cup Children \cup {None}]

LEMMA NextOperations == TypeOK /\ RecordInv /\ CascadeInv /\ [Next]_vars => OperationsTyped'
<1> SUFFICES ASSUME TypeOK, RecordInv, CascadeInv, [Next]_vars PROVE OperationsTyped'
  OBVIOUS
<1> USE DEF OperationsTyped, operations, callbacks
<1>1. OperationsTyped /\ request \in Types \cup {AllTypes} /\ Root \in Ops /\ Children \subseteq Ops
  BY DEF TypeOK, Ops
<1>2. CASE UNCHANGED <<os, ctx, btype, seen, cb, newborn>>
  BY <1>1, <1>2
<1>3. CASE BrowseStart
  BY <1>1, <1>3 DEF BrowseStart, DnsServiceBrowse
<1>4. CASE DropEntry
  BY <1>1, <1>4 DEF DropEntry
<1>5. ASSUME NEW o \in Ops, CallbackBegins(o) \/ CallbackReturns(o) \/ ReleaseRegistry(o)
      PROVE  OperationsTyped'
  BY <1>1, <1>5 DEF CallbackBegins, CallbackReturns, ReleaseRegistry
<1>6. ASSUME NEW o \in Ops, NewType(o) \/ NewInstance(o) PROVE OperationsTyped'
  <2>1. PICK x \in Types \cup Instances : x = Head(records[o]) /\ (IsMeta(o) => x \in Types)
    BY <1>6, HeadNamed DEF NewType, NewInstance, Handling
  <2>2. seen' = [seen EXCEPT ![o] = seen[o] \cup {x}] /\ UNCHANGED <<os, ctx, btype>>
    BY <1>1, <1>6, <2>1 DEF NewType, NewInstance, Note
  <2>3. seen' \in [Ops -> SUBSET (Types \cup Instances)]
    BY <1>1, <2>1, <2>2
  <2>4. CASE NewType(o)
    BY <1>1, <2>1, <2>2, <2>3, <2>4 DEF NewType
  <2>5. CASE NewInstance(o)
    BY <1>1, <2>2, <2>3, <2>5 DEF NewInstance
  <2>6. QED
    BY <1>6, <2>4, <2>5
<1>7. ASSUME NEW o \in Ops, StartChild(o) PROVE OperationsTyped'
  <2>1. FreshChild \in Children /\ newborn[o] \in Types
    BY <1>7 DEF StartChild, FreshChild, CascadeInv, Holding
  <2>2. QED
    BY <1>1, <1>7, <2>1 DEF StartChild, DnsServiceBrowse
<1>8. ASSUME NEW o \in Ops, RegisterChild(o) PROVE OperationsTyped'
  BY <1>1, <1>8 DEF RegisterChild
<1>9. CASE \/ RegisterRoot \/ Recv \/ DropReceiver \/ DropGuard \/ RegistryDropped
           \/ Terminated \/ UNCHANGED vars
  BY <1>2, <1>9 DEF RegisterRoot, Recv, DropReceiver, DropGuard, RegistryDropped, Terminated, vars
<1>10. ASSUME NEW o \in Ops, KnownTarget(o) \/ UseAfterFree(o) \/ OperationFails(o)
       PROVE  OperationsTyped'
  BY <1>2, <1>10 DEF KnownTarget, UseAfterFree, OperationFails
<1>11. ASSUME NEW r \in Resolves, ResolveCallback(r) PROVE OperationsTyped'
  BY <1>2, <1>11 DEF ResolveCallback
<1>12. ASSUME NEW i \in Instances, Appear(i) \/ Disappear(i) PROVE OperationsTyped'
  BY <1>2, <1>12 DEF Appear, Disappear
<1>13. QED
  BY <1>3, <1>4, <1>5, <1>6, <1>7, <1>8, <1>9, <1>10, <1>11, <1>12 DEF Next, DropStep, CallbackStep

(* The registry and the handle. *)
RegistryTyped ==
  /\ handle \in {"unstarted", "starting", "failed", "open", "rxdropped", "dropping", "dropped"}
  /\ entries \in Seq(Ops)
  /\ owners \in SUBSET (Ops \cup {Guard})
  /\ dropper \in Ops \cup {Guard, None}

LEMMA NextRegistry == TypeOK /\ CascadeInv /\ [Next]_vars => RegistryTyped'
<1> SUFFICES ASSUME TypeOK, CascadeInv, [Next]_vars PROVE RegistryTyped'
  OBVIOUS
<1> USE DEF RegistryTyped, client, registry
<1>1. RegistryTyped /\ Root \in Ops /\ Children \subseteq Ops
  BY DEF TypeOK, Ops
<1>2. CASE UNCHANGED <<handle, entries, owners, dropper>>
  BY <1>1, <1>2
<1>3. CASE BrowseStart \/ DropReceiver \/ DropGuard \/ RegistryDropped
  BY <1>1, <1>3 DEF BrowseStart, DropReceiver, DropGuard, Release, RegistryDropped
<1>4. CASE RegisterRoot
  BY <1>1, <1>4, AppendProperties DEF RegisterRoot
<1>5. CASE DropEntry
  BY <1>1, <1>5, HeadTailProperties DEF DropEntry
<1>6. ASSUME NEW o \in Ops, NewType(o) \/ ReleaseRegistry(o) PROVE RegistryTyped'
  BY <1>1, <1>6 DEF NewType, Upgrade, ReleaseRegistry, Release
<1>7. ASSUME NEW o \in Ops, RegisterChild(o) PROVE RegistryTyped'
  <2>1. newborn[o] \in Ops
    BY <1>1, <1>7 DEF RegisterChild, CascadeInv, Holding
  <2>2. QED
    BY <1>1, <1>7, <2>1, AppendProperties DEF RegisterChild
<1>8. CASE Recv \/ Terminated \/ UNCHANGED vars
  BY <1>2, <1>8 DEF Recv, Terminated, vars
<1>9. ASSUME NEW o \in Ops,
             \/ CallbackBegins(o) \/ KnownTarget(o) \/ NewInstance(o) \/ StartChild(o)
             \/ CallbackReturns(o) \/ UseAfterFree(o) \/ OperationFails(o)
      PROVE  RegistryTyped'
  BY <1>2, <1>9 DEF CallbackBegins, KnownTarget, NewInstance, StartChild, CallbackReturns,
                    UseAfterFree, OperationFails
<1>10. ASSUME NEW r \in Resolves, ResolveCallback(r) PROVE RegistryTyped'
  BY <1>2, <1>10 DEF ResolveCallback
<1>11. ASSUME NEW i \in Instances, Appear(i) \/ Disappear(i) PROVE RegistryTyped'
  BY <1>2, <1>11 DEF Appear, Disappear
<1>12. QED
  BY <1>3, <1>4, <1>5, <1>6, <1>7, <1>8, <1>9, <1>10, <1>11 DEF Next, DropStep, CallbackStep

(* The resolves, the stream and what the consumer made of it. *)
StreamTyped ==
  /\ job \in [Resolves -> {"idle", "pending", "done"}]
  /\ target \in [Resolves -> Instances \cup {None}]
  /\ chan \in Seq(Events)
  /\ view \in [Instances -> {"unknown", "found"}]

LEMMA NextStream == IInv /\ [Next]_vars => StreamTyped'
<1> SUFFICES ASSUME IInv, [Next]_vars PROVE StreamTyped'
  OBVIOUS
<1> USE DEF StreamTyped, client, jobs
<1>1. StreamTyped
  BY DEF IInv, TypeOK
<1>2. CASE UNCHANGED <<jobs, chan, view>>
  BY <1>1, <1>2
<1>3. CASE Recv
  <2>1. chan' \in Seq(Events)
    BY <1>1, <1>3, HeadTailProperties DEF Recv
  <2>2. view' \in [Instances -> {"unknown", "found"}]
    BY <1>1, <1>3 DEF Recv
  <2>3. QED
    BY <1>1, <1>3, <2>1, <2>2 DEF Recv
<1>4. CASE DropReceiver
  BY <1>1, <1>4, EmptySeq DEF DropReceiver
<1>5. CASE DropEntry \/ (\E o \in Ops : CallbackStep(o)) \/ (\E r \in Resolves : ResolveCallback(r))
  <2>1. UNCHANGED view /\ (UNCHANGED chan \/ \E e \in Events : Emit(e))
    BY <1>5, ProducerEffects DEF IInv
  <2>2. ASSUME NEW e \in Events, Emit(e) PROVE chan' \in Seq(Events)
    BY <1>1, <2>2, AppendProperties DEF Emit
  <2>3. ASSUME NEW o \in Ops, NewInstance(o) PROVE job' \in [Resolves -> {"idle", "pending", "done"}]
                                                  /\ target' \in [Resolves -> Instances \cup {None}]
    <3>1. Head(records[o]) \in Instances
      BY <2>3, HeadNamed DEF IInv, NewInstance, Handling
    <3>2. CASE UNCHANGED jobs
      BY <1>1, <3>2
    <3>3. CASE /\ \E r \in Resolves : job[r] = "idle"
               /\ job' = [job EXCEPT ![FreshJob] = "pending"]
               /\ target' = [target EXCEPT ![FreshJob] = Head(records[o])]
      <4>1. FreshJob \in Resolves
        BY <3>3 DEF FreshJob
      <4>2. QED
        BY <1>1, <3>1, <3>3, <4>1
    <3>4. QED
      BY <2>3, <3>2, <3>3 DEF NewInstance
  <2>4. ASSUME NEW r \in Resolves, ResolveCallback(r)
        PROVE  job' \in [Resolves -> {"idle", "pending", "done"}] /\ UNCHANGED target
    BY <1>1, <2>4 DEF ResolveCallback
  <2>5. ASSUME NEW o \in Ops, CallbackStep(o), ~NewInstance(o) PROVE UNCHANGED jobs
    BY <2>5 DEF CallbackStep, CallbackBegins, KnownTarget, NewType, StartChild, RegisterChild,
                ReleaseRegistry, CallbackReturns, UseAfterFree
  <2>6. job' \in [Resolves -> {"idle", "pending", "done"}] /\ target' \in [Resolves -> Instances \cup {None}]
    <3>1. CASE DropEntry
      BY <1>1, <3>1 DEF DropEntry
    <3>2. QED
      BY <1>1, <1>5, <2>3, <2>4, <2>5, <3>1
  <2>7. QED
    BY <1>1, <2>1, <2>2, <2>6
<1>6. CASE BrowseStart \/ RegisterRoot \/ DropGuard \/ RegistryDropped \/ Terminated \/ UNCHANGED vars
  BY <1>2, <1>6 DEF BrowseStart, RegisterRoot, DropGuard, RegistryDropped, Terminated, vars
<1>7. CASE (\E o \in Ops : OperationFails(o)) \/ \E i \in Instances : Appear(i) \/ Disappear(i)
  BY <1>2, <1>7 DEF OperationFails, Appear, Disappear
<1>8. QED
  BY <1>3, <1>4, <1>5, <1>6, <1>7 DEF Next, DropStep

-----------------------------------------------------------------------------
LEMMA Invariance == Spec => []IInv
<1>1. Init => IInv
  <2> SUFFICES ASSUME Init PROVE IInv
    OBVIOUS
  <2>1. TypeOK
    <3>1. ControlTyped
      <4>1. churn \in 0..MaxChurn /\ faults \in 0..MaxFaults
        BY WinConstantsOK DEF Init
      <4>2. dead \in BOOLEAN /\ present \in SUBSET Instances
        BY DEF Init
      <4>3. QED
        BY <4>1, <4>2 DEF Init, ControlTyped
    <3>2. OperationsTyped
      BY DEF Init, OperationsTyped
    <3>3. RegistryTyped /\ RecordTyped
      BY EmptySeq DEF Init, RegistryTyped, RecordTyped
    <3>4. StreamTyped
      BY EmptySeq DEF Init, StreamTyped
    <3>5. QED
      BY <3>1, <3>2, <3>3, <3>4 DEF TypeOK, ControlTyped, OperationsTyped, RegistryTyped, RecordTyped, StreamTyped
  <2>2. LifeInv
    BY DEF Init, LifeInv
  <2>3. RecordInv
    BY EmptySeq DEF Init, RecordInv
  <2>4. CascadeInv
    BY DEF Init, CascadeInv, Started, Ops, Holding
  <2>5. OwnerInv
    BY WinConstantsOK DEF Init, OwnerInv, Ops, Holding
  <2>6. EntryInv
    BY DEF Init, EntryInv, Entries, Ops
  <2>7. QED
    BY <2>1, <2>2, <2>3, <2>4, <2>5, <2>6 DEF IInv
<1>2. IInv /\ [Next]_vars => IInv'
  <2> SUFFICES ASSUME IInv, [Next]_vars PROVE IInv'
    OBVIOUS
  <2>1. TypeOK /\ LifeInv /\ RecordInv /\ CascadeInv /\ OwnerInv /\ EntryInv
    BY DEF IInv
  <2>2. ControlTyped' /\ OperationsTyped' /\ RegistryTyped' /\ StreamTyped' /\ RecordTyped' /\ RecordInv'
    BY <2>1, NextControl, NextOperations, NextRegistry, NextStream, NextRecords
  <2>3. TypeOK'
    BY <2>2 DEF TypeOK, ControlTyped, OperationsTyped, RegistryTyped, RecordTyped, StreamTyped
  <2>4. LifeInv' /\ CascadeInv' /\ OwnerInv' /\ EntryInv'
    BY <2>1, NextLife, NextCascade, NextOwners, NextEntries
  <2>5. QED
    BY <2>2, <2>3, <2>4 DEF IInv
<1>3. QED
  BY <1>1, <1>2, PTL DEF Spec

(* Operations, callbacks, registry, resolves and client stay in their      *)
(* types.                                                                  *)
THEOREM WinTypeCorrect == Spec => []TypeOK
BY Invariance, PTL DEF IInv

(* Whoever gives up the last reference to the registry, the guard or a     *)
(* callback that upgraded it while the guard was going away, cancels every *)
(* operation: none is left running once nobody owns the registry.          *)
THEOREM NothingLeaks == Spec => []NoLeakedBrowse
<1>1. IInv => NoLeakedBrowse
  <2> SUFFICES ASSUME OwnerInv, EntryInv, owners = {}, dropper = None, handle = "dropped",
                      NEW o \in Ops, os[o] = "active"
               PROVE  FALSE
    BY DEF IInv, NoLeakedBrowse
  <2>1. entries = <<>>
    BY DEF OwnerInv
  <2>2. o \notin Entries
    BY <2>1 DEF Entries
  <2>3. cb[Root] # "pushing"
    BY DEF OwnerInv, Holding, Ops
  <2>4. QED
    BY <2>2, <2>3 DEF EntryInv
<1>2. QED
  BY <1>1, Invariance, PTL

(* The registry never holds a cancelled operation or the same one twice,   *)
(* so that no context is freed twice, and each running operation is in it  *)
(* or in the hands of the start_browse that is about to push it.           *)
THEOREM RegistryIsSound == Spec => []RegistrySound
<1>1. IInv => RegistrySound
  <2> SUFFICES ASSUME TypeOK, LifeInv, OwnerInv, EntryInv PROVE RegistrySound
    BY DEF IInv
  <2>1. Entries \subseteq Ops /\ Root \in Ops
    BY DEF TypeOK, Entries, Ops
  <2>2. \A o \in Entries : os[o] = "active" /\ ctx[o] = "alive"
    BY <2>1 DEF EntryInv, LifeInv
  <2>3. cb[Root] = "pushing" => Root \in owners
    BY <2>1 DEF OwnerInv, Holding
  <2>4. \A o \in Ops : os[o] = "active" =>
          \/ o \in Entries
          \/ o = Root /\ handle = "starting"
          \/ \E p \in Ops : cb[p] = "pushing" /\ newborn[p] = o /\ p \in owners
    BY <2>1, <2>3 DEF EntryInv
  <2>5. QED
    BY <2>2, <2>4 DEF RegistrySound, EntryInv
<1>2. QED
  BY <1>1, Invariance, PTL

(* BrowseContext.seen of the meta operation: a type never has two browses, *)
(* however often its record comes.                                         *)
THEOREM WinTypesBrowsedOnce == Spec => []OneBrowsePerType
<1>1. IInv => OneBrowsePerType
  BY DEF IInv, CascadeInv, Started, OneBrowsePerType
<1>2. QED
  BY <1>1, Invariance, PTL

(* The context of the root owns a sender for as long as the guard owns the *)
(* registry: recv() of an open browser never answers None.                 *)
THEOREM OpenMeansSender == Spec => []NeverEndsWhileOpen
<1>1. IInv => NeverEndsWhileOpen
  <2> SUFFICES ASSUME LifeInv, OwnerInv, handle = "open" PROVE Senders # {}
    BY DEF IInv, NeverEndsWhileOpen
  <2>1. os[Root] = "active"
    BY DEF OwnerInv
  <2>2. QED
    BY <2>1 DEF LifeInv, Senders, Ops
<1>2. QED
  BY <1>1, Invariance, PTL

(* The contexts, the resolves and the drops implement the event stream:    *)
(* one event at most per step and only while a sender lives, whichever of  *)
(* the DNS client's threads takes it.                                      *)
THEOREM WinImplementsStream == Spec => StreamRefinement
<1> USE DEF RxOf
<1>1. Init => ES!Init
  BY DEF Init, ES!Init, Senders
<1>2. IInv /\ [Next]_vars => [ES!Next]_(ES!vars)
  <2> SUFFICES ASSUME IInv, [Next]_vars PROVE [ES!Next]_(ES!vars)
    OBVIOUS
  <2> USE DEF ES!Next, ES!vars, operations, jobs, client
  <2>1. Senders' \in SUBSET (Ops \cup Resolves)
    BY DEF Senders
  <2>2. ASSUME UNCHANGED <<ctx, job>> PROVE UNCHANGED Senders
    BY <2>2 DEF Senders
  <2>3. CASE BrowseStart
    <3>1. CASE handle' = "starting"
      BY <2>1, <2>3, <3>1 DEF BrowseStart, ES!Open
    <3>2. CASE handle' = "failed" /\ UNCHANGED ctx
      BY <2>2, <2>3, <3>2 DEF BrowseStart
    <3>3. QED
      BY <2>3, <3>1, <3>2 DEF BrowseStart
  <2>4. CASE RegisterRoot
    BY <2>2, <2>4 DEF RegisterRoot
  <2>5. CASE Recv
    BY <2>2, <2>5 DEF Recv, ES!Recv
  <2>6. CASE DropReceiver
    BY <2>2, <2>6 DEF DropReceiver, ES!Close
  <2>7. CASE DropGuard
    BY <2>2, <2>7 DEF DropGuard
  <2>8. CASE RegistryDropped
    BY <2>2, <2>8 DEF RegistryDropped
  <2>9. CASE DropEntry \/ (\E o \in Ops : CallbackStep(o)) \/ (\E r \in Resolves : ResolveCallback(r))
    <3>1. /\ UNCHANGED client
          /\ \/ UNCHANGED <<chan, ctx, job>>
             \/ Senders # {} /\ (UNCHANGED chan \/ \E e \in Events : Emit(e))
      BY <2>9, ProducerEffects DEF IInv
    <3>2. CASE UNCHANGED <<chan, ctx, job>>
      BY <2>2, <3>1, <3>2
    <3>3. CASE Senders # {} /\ (UNCHANGED chan \/ \E e \in Events : Emit(e))
      <4>1. UNCHANGED chan \/ (ReceiverAlive /\ \E e \in Events : chan' = Append(chan, e))
        BY <3>3 DEF Emit
      <4>2. QED
        BY <2>1, <3>1, <3>3, <4>1 DEF ES!Produce, ReceiverAlive
    <3>4. QED
      BY <3>1, <3>2, <3>3
  <2>10. CASE (\E o \in Ops : OperationFails(o)) \/ \E i \in Instances : Appear(i) \/ Disappear(i)
    BY <2>2, <2>10 DEF OperationFails, Appear, Disappear
  <2>11. CASE Terminated \/ UNCHANGED vars
    BY <2>2, <2>11 DEF Terminated, vars
  <2>12. QED
    BY <2>3, <2>4, <2>5, <2>6, <2>7, <2>8, <2>9, <2>10, <2>11 DEF Next, DropStep
<1>3. QED
  BY <1>1, <1>2, Invariance, PTL DEF Spec, StreamRefinement, ES!Safety

-----------------------------------------------------------------------------
(* Where a freed context can be met.                                       *)

(* A callback drops the registry only for the meta-query, and frees the    *)
(* context it works on only when the ServiceBrowser is gone.               *)
FreedInv ==
  /\ \A o \in Ops : dropper = o => request = AllTypes
  /\ \A o \in Ops : cb[o] # "idle" /\ ctx[o] = "freed" => request = AllTypes /\ handle = "dropped"
  /\ dead => request = AllTypes /\ handle = "dropped"

LEMMA NextFreed == IInv /\ FreedInv /\ [Next]_vars => FreedInv'
<1> SUFFICES ASSUME IInv, FreedInv, [Next]_vars PROVE FreedInv'
  OBVIOUS
<1> USE DEF asked, client, operations, callbacks, registry
<1>1. TypeOK /\ LifeInv /\ CascadeInv /\ OwnerInv /\ EntryInv
  BY DEF IInv
<1>2. /\ cb \in [Ops -> {"idle", "running", "upgraded", "pushing", "releasing"}]
      /\ ctx \in [Ops -> {"none", "alive", "freed"}]
      /\ dropper \in Ops \cup {Guard, None} /\ Guard \notin Ops /\ None \notin Ops /\ None # Guard
      /\ Root \in Ops /\ Children \subseteq Ops
  BY <1>1, WinConstantsOK DEF TypeOK, Ops
<1>3. request' = request
  BY DEF Next, BrowseStart, RegisterRoot, Recv, DropReceiver, DropGuard, DropStep, DropEntry, RegistryDropped,
         CallbackStep, CallbackBegins, KnownTarget, NewType, NewInstance, StartChild, RegisterChild,
         ReleaseRegistry, CallbackReturns, UseAfterFree, OperationFails, ResolveCallback, Appear, Disappear,
         Terminated, vars
<1>4. ASSUME UNCHANGED <<dropper, dead>>, handle' = handle \/ handle # "dropped",
             \A o \in Ops : cb'[o] # "idle" /\ ctx'[o] = "freed" => cb[o] # "idle" /\ ctx[o] = "freed"
      PROVE  FreedInv'
  BY <1>3, <1>4 DEF FreedInv
<1>5. CASE BrowseStart
  BY <1>2, <1>4, <1>5 DEF BrowseStart, DnsServiceBrowse
<1>6. CASE RegisterRoot \/ Recv \/ DropReceiver
  BY <1>4, <1>6 DEF RegisterRoot, Recv, DropReceiver
<1>7. CASE DropGuard
  BY <1>2, <1>3, <1>7 DEF DropGuard, Release, FreedInv
<1>8. CASE DropEntry
  <2> DEFINE h == Head(entries)
  <2>1. /\ dropper # None /\ (cb[h] = "idle" \/ dropper = h)
        /\ ctx' = [ctx EXCEPT ![h] = "freed"] /\ UNCHANGED <<cb, dropper, dead, handle>>
    BY <1>8 DEF DropEntry
  <2> HIDE DEF h
  <2>2. ASSUME NEW o \in Ops, cb[o] # "idle", ctx'[o] = "freed"
        PROVE  request = AllTypes /\ handle = "dropped"
    <3>1. CASE ctx[o] = "freed"
      BY <2>2, <3>1 DEF FreedInv
    <3>2. CASE ctx[o] # "freed"
      <4>1. o = h /\ dropper = o
        BY <1>2, <2>1, <2>2, <3>2
      <4>2. request = AllTypes
        BY <4>1 DEF FreedInv
      <4>3. handle \notin {"starting", "open", "rxdropped", "dropping"}
        BY <1>1, <1>2, <2>1, <4>1 DEF OwnerInv
      <4>4. Started(Root)
        <5>1. Started(o)
          BY <1>1, <2>2 DEF LifeInv, Started
        <5>2. QED
          BY <1>1, <5>1 DEF CascadeInv, Ops
      <4>5. handle \notin {"unstarted", "failed"}
        BY <1>1, <4>4 DEF CascadeInv
      <4>6. QED
        BY <1>1, <4>2, <4>3, <4>5 DEF TypeOK
    <3>3. QED
      BY <3>1, <3>2
  <2>3. QED
    BY <1>3, <2>1, <2>2 DEF FreedInv
<1>9. CASE RegistryDropped
  BY <1>2, <1>3, <1>9 DEF RegistryDropped, FreedInv
<1>10. ASSUME NEW o \in Ops, CallbackStep(o) PROVE FreedInv'
  <2>1. CASE CallbackBegins(o)
    <3>1. ctx[o] = "alive"
      BY <1>1, <2>1 DEF CallbackBegins, LifeInv
    <3>2. QED
      BY <1>2, <1>4, <2>1, <3>1 DEF CallbackBegins
  <2>2. CASE KnownTarget(o) \/ NewInstance(o) \/ CallbackReturns(o)
    BY <1>2, <1>4, <2>2 DEF KnownTarget, NewInstance, CallbackReturns
  <2>3. CASE NewType(o) \/ RegisterChild(o)
    BY <1>2, <1>4, <2>3 DEF NewType, Handling, RegisterChild
  <2>4. CASE StartChild(o)
    BY <1>2, <1>4, <2>4 DEF StartChild, DnsServiceBrowse
  <2>5. CASE ReleaseRegistry(o)
    <3>1. /\ cb[o] = "releasing" /\ UNCHANGED <<ctx, dead, handle>>
          /\ cb' = [cb EXCEPT ![o] = "running"]
          /\ dropper' = IF owners = {o} THEN o ELSE dropper
      BY <2>5 DEF ReleaseRegistry, Release
    <3>2. request = AllTypes
      <4>1. o = Root /\ btype[Root] = AllTypes /\ Started(Root)
        BY <1>1, <3>1 DEF CascadeInv, Holding, LifeInv, Started
      <4>2. QED
        BY <1>1, <4>1 DEF CascadeInv
    <3>3. QED
      BY <1>2, <1>3, <3>1, <3>2 DEF FreedInv
  <2>6. CASE UseAfterFree(o)
    BY <1>2, <1>3, <2>6 DEF UseAfterFree, FreedInv
  <2>7. QED
    BY <1>10, <2>1, <2>2, <2>3, <2>4, <2>5, <2>6 DEF CallbackStep
<1>11. CASE (\E o \in Ops : OperationFails(o)) \/ (\E i \in Instances : Appear(i) \/ Disappear(i))
            \/ \E r \in Resolves : ResolveCallback(r)
  BY <1>4, <1>11 DEF OperationFails, Appear, Disappear, ResolveCallback
<1>12. CASE Terminated \/ UNCHANGED vars
  BY <1>4, <1>12 DEF Terminated, vars
<1>13. QED
  BY <1>5, <1>6, <1>7, <1>8, <1>9, <1>10, <1>11, <1>12 DEF Next, DropStep

(* The comment on browse_callback, that the context outlives the           *)
(* operation, is wrong in one place only: a callback works on a freed      *)
(* context only when all types were asked for and the ServiceBrowser is    *)
(* gone.  A browse of one type, and any browse that is still open, is safe.*)
THEOREM ContextSafeUntilDrop == Spec => [](~ContextOutlivesCallback => request = AllTypes /\ handle = "dropped")
<1>1. Init => FreedInv
  BY WinConstantsOK DEF Init, FreedInv, Ops
<1>2. FreedInv => (~ContextOutlivesCallback => request = AllTypes /\ handle = "dropped")
  BY DEF FreedInv, ContextOutlivesCallback
<1>3. QED
  BY <1>1, <1>2, Invariance, NextFreed, PTL DEF Spec
=============================================================================
