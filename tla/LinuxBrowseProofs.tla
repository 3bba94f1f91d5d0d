------------------------- MODULE LinuxBrowseProofs -------------------------
(***************************************************************************)
(* Proofs about LinuxBrowse, for every set of types, items and tasks and   *)
(* every bound.  One inductive invariant, IInv, carries all of them.       *)
(***************************************************************************)
EXTENDS LinuxBrowse, TLAPS, SequenceTheorems, FiniteSetTheorems

(* The signals a browser for type t can receive. *)
SignalsFor(t) ==
  [kind : {"ItemNew", "ItemRemove"},
   item : IF t = AllTypes THEN Types ELSE {i \in Instances : TypeOf[i] = t}]
  \cup [kind : {"Failure", "Other", "Eof"}, item : {None}]

(* What each task in handles[b] is working on. *)
SpawnedBy(b) ==
  IF btype[b] = AllTypes
    THEN {c \in Children : pc[c] # "idle"}
    ELSE {r \in Resolvers : pc[r] # "idle" /\ TypeOf[target[r]] = btype[b]}

Unstarted == handle = "unstarted" => \A t \in Tasks : pc[t] = "idle"

IdleIsBlank ==
  \A b \in BrowseTasks : pc[b] = "idle" => inbox[b] = <<>> /\ handles[b] = {}

InboxTyped == \A b \in BrowseTasks : inbox[b] \in Seq(SignalsFor(btype[b]))

RootType == pc[Root] # "idle" => btype[Root] = request

ChildTypes ==
  \A c \in Children : pc[c] # "idle" => btype[c] \in seen /\ request = AllTypes

ResolverTypes ==
  \A r \in Resolvers : pc[r] # "idle" =>
    /\ target[r] \in Instances
    /\ TypeOf[target[r]] \in seen \cup {request}

Ownership == \A b \in BrowseTasks : handles[b] \subseteq SpawnedBy(b)

AbortedLive == \A t \in aborted : Live(t)

(* ResolversRunToCompletion from the moment the browse is spawned. *)
Uncut ==
  \A b \in BrowseTasks, r \in Resolvers :
    pc[b] \in {"connect", "create", "loop"} /\ pc[r] # "idle"
      /\ TypeOf[target[r]] = btype[b] => pc[r] # "cancelled" /\ r \notin aborted

(* The part of the invariant about the tasks. *)
TaskInv ==
  /\ TasksTypeOK
  /\ request \in Types \cup {AllTypes}
  /\ Unstarted /\ IdleIsBlank /\ InboxTyped
  /\ RootType /\ ChildTypes /\ ResolverTypes
  /\ Ownership /\ AbortedLive /\ Uncut
  /\ NoOrphans /\ OneBrowsePerType

Over == ended => handle # "unstarted" /\ EndedMeansOver

IInv == TypeOK /\ TaskInv /\ Over

-----------------------------------------------------------------------------
(* Lemmas. *)

LEMMA FreshOnes ==
  /\ (\E c \in Children : pc[c] = "idle") =>
       FreshChild \in Children /\ pc[FreshChild] = "idle"
  /\ (\E r \in Resolvers : pc[r] = "idle") =>
       FreshResolver \in Resolvers /\ pc[FreshResolver] = "idle"
BY DEF FreshChild, FreshResolver

(* Two browse tasks that have started never browse the same type. *)
LEMMA OneTaskPerType ==
  ASSUME TaskInv, NEW b \in BrowseTasks, NEW d \in BrowseTasks,
         pc[b] # "idle", pc[d] # "idle", btype[b] = btype[d]
  PROVE  b = d
<1> USE ConstantsOK DEF TaskInv
<1>1. CASE b \in Children /\ d \in Children
  BY <1>1 DEF OneBrowsePerType
<1>2. CASE b = Root /\ d \in Children
  <2>1. request = AllTypes /\ btype[d] \in Types
    BY <1>2 DEF ChildTypes, TasksTypeOK
  <2>2. btype[b] = AllTypes
    BY <1>2, <2>1 DEF RootType
  <2> QED BY <2>1, <2>2 DEF ConstantsOK
<1>3. CASE b \in Children /\ d = Root
  <2>1. request = AllTypes /\ btype[b] \in Types
    BY <1>3 DEF ChildTypes, TasksTypeOK
  <2>2. btype[d] = AllTypes
    BY <1>3, <2>1 DEF RootType
  <2> QED BY <2>1, <2>2 DEF ConstantsOK
<1> QED BY <1>1, <1>2, <1>3 DEF BrowseTasks

(* The end of a future, whichever task it is and however it ends. *)
LEMMA FinishInv ==
  ASSUME TaskInv, NEW t \in Tasks, Live(t),
         NEW how \in {"done", "cancelled"}, how = "cancelled" => t \in aborted,
         Finish(t, how), UNCHANGED <<request, handle>>
  PROVE  TaskInv'
<1> USE ConstantsOK DEF ConstantsOK, TaskInv, Tasks, BrowseTasks
<1>1. pc' = [pc EXCEPT ![t] = how] /\ UNCHANGED <<btype, target, seen, request, handle>>
  BY DEF Finish, Goto
<1>2. pc \in [Tasks -> BrowsePCs \cup ResolvePCs]
  BY DEF TasksTypeOK
<1>3. \A x \in Tasks : x # t => pc'[x] = pc[x] /\ (Live(x)' <=> Live(x))
  BY <1>1, <1>2 DEF Live
<1>4. pc'[t] = how /\ ~Live(t)' /\ pc[t] # "idle"
  BY <1>1, <1>2 DEF Live
<1>5. \A x \in Tasks : pc'[x] = "idle" <=> pc[x] = "idle"
  BY <1>3, <1>4
<1>6. \A b \in BrowseTasks : handles'[b] \subseteq handles[b] /\ (b # t => handles'[b] = handles[b])
  BY DEF Finish, TasksTypeOK
<1>7. \A b \in BrowseTasks : inbox'[b] = inbox[b] \/ inbox'[b] = <<>>
  BY DEF Finish, TasksTypeOK
<1>8. \A x \in aborted' : x # t /\ (x \in aborted \/ (t \in BrowseTasks /\ x \in handles[t] /\ Live(x)))
  <2>1. CASE t \in BrowseTasks
    <3>1. t \notin handles[t]
      BY <2>1 DEF Ownership, SpawnedBy, TasksTypeOK, ChildTypes
    <3> QED BY <2>1, <3>1 DEF Finish, Owned
  <2>2. CASE t \notin BrowseTasks
    BY <2>2 DEF Finish
  <2> QED BY <2>1, <2>2
<1>9. aborted \subseteq aborted' \cup {t}
  BY DEF Finish
<1>10. TasksTypeOK'
  <2>1. inbox' \in [BrowseTasks -> Seq(Signals)]
    <3>1. <<>> \in Seq(Signals)
      BY EmptySeq
    <3>2. inbox \in [BrowseTasks -> Seq(Signals)]
      BY DEF TasksTypeOK
    <3>3. CASE t \in BrowseTasks
      BY <3>1, <3>2, <3>3 DEF Finish
    <3>4. CASE t \notin BrowseTasks
      BY <3>2, <3>4 DEF Finish
    <3> QED BY <3>3, <3>4
  <2>2. handles' \in [BrowseTasks -> SUBSET (Children \cup Resolvers)]
    BY DEF Finish, TasksTypeOK
  <2>3. aborted' \subseteq Tasks
    BY <1>8 DEF TasksTypeOK
  <2>4. pc' \in [Tasks -> BrowsePCs \cup ResolvePCs]
    BY <1>1 DEF TasksTypeOK, BrowsePCs
  <2>5. /\ \A b \in BrowseTasks : pc'[b] \in BrowsePCs
        /\ \A r \in Resolvers : pc'[r] \in ResolvePCs
    BY <1>3, <1>4 DEF TasksTypeOK, BrowsePCs, ResolvePCs
  <2> QED BY <1>1, <2>1, <2>2, <2>3, <2>4, <2>5 DEF TasksTypeOK
<1>11. (Unstarted /\ RootType /\ ChildTypes /\ ResolverTypes)'
  BY <1>1, <1>4, <1>5 DEF Unstarted, RootType, ChildTypes, ResolverTypes
<1>12. (IdleIsBlank /\ OneBrowsePerType)'
  BY <1>1, <1>5, <1>6, <1>7 DEF IdleIsBlank, OneBrowsePerType
<1>13. InboxTyped'
  BY <1>1, <1>7, EmptySeq DEF InboxTyped, SignalsFor
<1>14. Ownership'
  BY <1>1, <1>5, <1>6 DEF Ownership, SpawnedBy
<1>15. AbortedLive'
  BY <1>3, <1>8 DEF AbortedLive, TasksTypeOK
<1>16. Uncut'
  <2> SUFFICES ASSUME NEW b \in BrowseTasks, NEW r \in Resolvers,
                      pc'[b] \in {"connect", "create", "loop"}, pc'[r] # "idle",
                      TypeOf[target'[r]] = btype'[b]
               PROVE  pc'[r] # "cancelled" /\ r \notin aborted'
    BY DEF Uncut
  <2>1. b # t /\ pc[b] = pc'[b]
    BY <1>3, <1>4
  <2>2. pc[r] # "cancelled" /\ r \notin aborted
    BY <1>1, <1>5, <2>1 DEF Uncut
  <2>3. pc'[r] # "cancelled"
    BY <1>3, <1>4, <2>2
  <2>4. ASSUME t \in BrowseTasks, r \in handles[t]
        PROVE  FALSE
    <3>1. btype[t] = TypeOf[target[r]]
      BY <2>4 DEF Ownership, SpawnedBy
    <3>2. b = t
      BY <1>1, <1>4, <2>1, <2>4, <3>1, OneTaskPerType
    <3> QED BY <2>1, <3>2
  <2> QED BY <1>8, <2>2, <2>3, <2>4
<1>17. NoOrphans'
  <2> SUFFICES ASSUME NEW x \in Children \cup Resolvers, Live(x)', x \notin aborted'
               PROVE  \E b \in BrowseTasks : Live(b)' /\ x \in handles'[b]
    BY DEF NoOrphans
  <2>1. x # t /\ Live(x) /\ x \notin aborted
    BY <1>3, <1>4, <1>9
  <2>2. PICK b \in BrowseTasks : Live(b) /\ x \in handles[b]
    BY <2>1 DEF NoOrphans
  <2>3. b # t
    BY <2>1, <2>2 DEF Finish, Owned
  <2> QED BY <1>3, <1>6, <2>2, <2>3
<1> QED BY <1>1, <1>10, <1>11, <1>12, <1>13, <1>14, <1>15, <1>16, <1>17

(* A step that changes nothing but where live tasks are and what is queued *)
(* for them.                                                               *)
LEMMA QuietInv ==
  ASSUME TaskInv,
         pc' \in [Tasks -> BrowsePCs \cup ResolvePCs],
         \A b \in BrowseTasks : pc'[b] \in BrowsePCs,
         \A r \in Resolvers : pc'[r] \in ResolvePCs,
         \A x \in Tasks : pc'[x] # pc[x] => Live(x) /\ Live(x)',
         \A b \in BrowseTasks :
           pc'[b] \in {"connect", "create", "loop"} => pc[b] \in {"connect", "create", "loop"},
         inbox' \in [BrowseTasks -> Seq(Signals)], InboxTyped',
         \A b \in BrowseTasks : pc[b] = "idle" => inbox'[b] = <<>>,
         UNCHANGED <<request, btype, target, seen, handles, aborted>>,
         handle' = "unstarted" => handle = "unstarted"
  PROVE  TaskInv'
<1> USE ConstantsOK DEF ConstantsOK, TaskInv, Tasks, BrowseTasks
<1>1. \A x \in Tasks : /\ pc'[x] = "idle" <=> pc[x] = "idle"
                       /\ Live(x)' <=> Live(x)
                       /\ pc'[x] = "cancelled" => pc[x] = "cancelled"
  BY DEF Live
<1>2. TasksTypeOK'
  BY DEF TasksTypeOK
<1>3. (Unstarted /\ IdleIsBlank /\ RootType /\ ChildTypes /\ ResolverTypes)'
  BY <1>1 DEF Unstarted, IdleIsBlank, RootType, ChildTypes, ResolverTypes
<1>4. (Ownership /\ OneBrowsePerType)'
  BY <1>1 DEF Ownership, SpawnedBy, OneBrowsePerType
<1>5. AbortedLive'
  BY <1>1 DEF AbortedLive, TasksTypeOK
<1>6. Uncut'
  BY <1>1 DEF Uncut
<1>7. NoOrphans'
  BY <1>1 DEF NoOrphans
<1> QED BY <1>2, <1>3, <1>4, <1>5, <1>6, <1>7

(* What the head of an inbox can be, and what taking it leaves. *)
LEMMA ConsumeTyped ==
  ASSUME TaskInv, NEW b \in BrowseTasks, NEW kind, Receives(b, kind), Consume(b),
         UNCHANGED btype
  PROVE  /\ Head(inbox[b]) \in SignalsFor(btype[b])
         /\ inbox' \in [BrowseTasks -> Seq(Signals)]
         /\ InboxTyped'
         /\ \A c \in BrowseTasks : pc[c] = "idle" => inbox'[c] = <<>>
<1>1. inbox \in [BrowseTasks -> Seq(Signals)] /\ inbox[b] # <<>> /\ pc[b] = "loop"
  BY DEF TaskInv, TasksTypeOK, Receives
<1>2. inbox[b] \in Seq(SignalsFor(btype[b])) /\ inbox[b] \in Seq(Signals)
  BY <1>1 DEF TaskInv, InboxTyped
<1>3. /\ Head(inbox[b]) \in SignalsFor(btype[b])
      /\ Tail(inbox[b]) \in Seq(SignalsFor(btype[b]))
      /\ Tail(inbox[b]) \in Seq(Signals)
  BY <1>1, <1>2, HeadTailProperties
<1>4. inbox' = [inbox EXCEPT ![b] = Tail(inbox[b])]
  BY DEF Consume
<1>5. inbox' \in [BrowseTasks -> Seq(Signals)]
  BY <1>1, <1>3, <1>4
<1>6. \A c \in BrowseTasks : inbox'[c] \in Seq(SignalsFor(btype[c]))
  BY <1>1, <1>3, <1>4 DEF TaskInv, InboxTyped
<1>7. InboxTyped'
  BY <1>6 DEF InboxTyped, SignalsFor
<1>8. \A c \in BrowseTasks : pc[c] = "idle" => inbox'[c] = <<>>
  BY <1>1, <1>4 DEF TaskInv, IdleIsBlank
<1> QED BY <1>3, <1>5, <1>7, <1>8

(* The item of an ItemNew or an ItemRemove. *)
LEMMA ItemTyped ==
  ASSUME TaskInv, NEW b \in BrowseTasks, NEW kind \in {"ItemNew", "ItemRemove"},
         Receives(b, kind)
  PROVE  IF btype[b] = AllTypes THEN Item(b) \in Types
                                ELSE Item(b) \in Instances /\ TypeOf[Item(b)] = btype[b]
<1>1. inbox[b] \in Seq(SignalsFor(btype[b])) /\ inbox[b] # <<>>
  BY DEF TaskInv, InboxTyped, Receives
<1>2. Head(inbox[b]) \in SignalsFor(btype[b])
  BY <1>1, HeadTailProperties
<1>3. Head(inbox[b]).kind \in {"ItemNew", "ItemRemove"}
  BY DEF Receives
<1> QED BY <1>2, <1>3 DEF SignalsFor, Item

(* Everything a new browser is told at once is of its type. *)
LEMMA CachedTyped ==
  ASSUME TaskInv, present \in SUBSET Instances, NEW b \in BrowseTasks,
         NEW burst \in SetToSeqs(Cached(b))
  PROVE  burst \in Seq(SignalsFor(btype[b])) /\ burst \in Seq(Signals)
<1>1. Cached(b) \subseteq SignalsFor(btype[b]) /\ Cached(b) \subseteq Signals
  BY ConstantsOK DEF ConstantsOK, Cached, SignalsFor, SignalOf, Signals
<1>2. IsFiniteSet(present)
  BY FS_Subset, ConstantsOK DEF ConstantsOK
<1>3. IsFiniteSet(Cached(b))
  <2>1. CASE btype[b] = AllTypes
    <3> DEFINE f == [i \in present |-> SignalOf("ItemNew", TypeOf[i])]
    <3>1. Cached(b) = {f[i] : i \in present}
      BY <2>1 DEF Cached
    <3>2. f \in Surjection(present, Cached(b))
      BY <3>1 DEF Surjection
    <3> QED BY <1>2, <3>2, FS_Surjection
  <2>2. CASE btype[b] # AllTypes
    <3> DEFINE g == [i \in {j \in present : TypeOf[j] = btype[b]} |-> SignalOf("ItemNew", i)]
    <3>1. Cached(b) = {g[i] : i \in {j \in present : TypeOf[j] = btype[b]}}
      BY <2>2 DEF Cached
    <3>2. g \in Surjection({j \in present : TypeOf[j] = btype[b]}, Cached(b))
      BY <3>1 DEF Surjection
    <3>3. IsFiniteSet({j \in present : TypeOf[j] = btype[b]})
      BY <1>2, FS_Subset
    <3> QED BY <3>2, <3>3, FS_Surjection
  <2> QED BY <2>1, <2>2
<1>4. Cardinality(Cached(b)) \in Nat
  BY <1>3, FS_CardinalityType
<1>5. burst \in [1..Cardinality(Cached(b)) -> Cached(b)]
  BY DEF SetToSeqs
<1>6. burst \in Seq(Cached(b))
  BY <1>4, <1>5, SeqDef
<1> QED BY <1>1, <1>6, SeqMonotonic

-----------------------------------------------------------------------------
(* Every action preserves TaskInv. *)

LEMMA BrowseStartInv ==
  ASSUME TaskInv, BrowseStart
  PROVE  TaskInv'
<1> USE ConstantsOK DEF ConstantsOK, TaskInv, Tasks, BrowseTasks
<1>1. CASE handle' = "failed" /\ UNCHANGED tasks
  <2>1. UNCHANGED <<request, pc, btype, target, inbox, seen, handles, aborted>>
    BY <1>1 DEF BrowseStart, tasks
  <2>2. InboxTyped'
    BY <2>1 DEF InboxTyped, SignalsFor
  <2> QED BY <1>1, <2>1, <2>2, QuietInv DEF TasksTypeOK, IdleIsBlank
<1>2. CASE /\ handle' = "open"
           /\ Goto(Root, "connect")
           /\ btype' = [btype EXCEPT ![Root] = request]
           /\ UNCHANGED <<target, inbox, seen, handles, aborted>>
  <2>1. \A t \in Tasks : pc[t] = "idle"
    BY DEF BrowseStart, Unstarted
  <2>2. UNCHANGED <<request, target, inbox, seen, handles, aborted>> /\ handle' = "open"
    BY <1>2 DEF BrowseStart
  <2>3. aborted = {}
    BY <2>1 DEF AbortedLive, Live, TasksTypeOK
  <2>4. pc' = [pc EXCEPT ![Root] = "connect"] /\ pc \in [Tasks -> BrowsePCs \cup ResolvePCs]
    BY <1>2 DEF Goto, TasksTypeOK
  <2>5. \A t \in Tasks : t # Root => pc'[t] = "idle"
    BY <2>1, <2>4
  <2>6. TasksTypeOK'
    BY <1>2, <2>2, <2>4 DEF TasksTypeOK, BrowsePCs
  <2>7. \A b \in BrowseTasks : inbox[b] = <<>> /\ handles[b] = {}
    BY <2>1 DEF IdleIsBlank
  <2>8. InboxTyped'
    BY <2>2, <2>7, EmptySeq DEF InboxTyped
  <2>9. (Unstarted /\ IdleIsBlank /\ RootType /\ ChildTypes /\ ResolverTypes)'
    BY <1>2, <2>2, <2>5, <2>7
    DEF Unstarted, IdleIsBlank, RootType, ChildTypes, ResolverTypes, TasksTypeOK
  <2>10. (Ownership /\ AbortedLive /\ Uncut /\ OneBrowsePerType)'
    BY <2>2, <2>3, <2>5, <2>7 DEF Ownership, AbortedLive, Uncut, OneBrowsePerType
  <2>11. NoOrphans'
    BY <2>5 DEF NoOrphans, Live
  <2> QED BY <2>2, <2>6, <2>8, <2>9, <2>10, <2>11
<1> QED BY <1>1, <1>2 DEF BrowseStart

LEMMA DropGuardInv ==
  ASSUME TaskInv, DropGuard
  PROVE  TaskInv'
<1> USE ConstantsOK DEF ConstantsOK, TaskInv, Tasks, BrowseTasks
<1>1. /\ UNCHANGED <<request, pc, btype, target, inbox, seen, handles>>
      /\ handle' = "dropped"
      /\ aborted' = aborted \cup {t \in {Root} : Live(t)}
  BY DEF DropGuard
<1>2. TasksTypeOK'
  BY <1>1 DEF TasksTypeOK
<1>3. (Unstarted /\ IdleIsBlank /\ RootType /\ ChildTypes /\ ResolverTypes)'
  BY <1>1 DEF Unstarted, IdleIsBlank, RootType, ChildTypes, ResolverTypes
<1>4. InboxTyped'
  BY <1>1 DEF InboxTyped, SignalsFor
<1>5. (Ownership /\ OneBrowsePerType)'
  BY <1>1 DEF Ownership, SpawnedBy, OneBrowsePerType
<1>6. (AbortedLive /\ NoOrphans)'
  BY <1>1 DEF AbortedLive, NoOrphans, Live
<1>7. Uncut'
  BY <1>1 DEF Uncut
<1> QED BY <1>1, <1>2, <1>3, <1>4, <1>5, <1>6, <1>7

LEMMA TypeItemNewInv ==
  ASSUME TaskInv, TypeItemNew
  PROVE  TaskInv'
<1> USE ConstantsOK DEF ConstantsOK, TaskInv, Tasks, BrowseTasks
<1>1. /\ btype[Root] = AllTypes /\ pc[Root] = "loop" /\ request = AllTypes
      /\ Receives(Root, "ItemNew") /\ Consume(Root)
      /\ UNCHANGED <<request, handle, target, aborted>>
  BY DEF TypeItemNew, Receives, RootType, client
<1>2. Item(Root) \in Types
  BY <1>1, ItemTyped
<1>3. CASE Unseen(Item(Root)) /\ seen' # seen
  <2> DEFINE c == FreshChild
             ty == Item(Root)
  <2>1. /\ c \in Children /\ pc[c] = "idle"
        /\ ty \notin seen
        /\ seen' = seen \cup {ty}
        /\ pc' = [pc EXCEPT ![c] = "connect"]
        /\ btype' = [btype EXCEPT ![c] = ty]
        /\ handles' = [handles EXCEPT ![Root] = @ \cup {c}]
    BY <1>3, FreshOnes DEF TypeItemNew, Unseen, Goto
  <2> HIDE DEF c, ty
  <2>2. ty \in Types /\ c # Root
    BY <1>2, <2>1 DEF ty
  <2>3. inbox' = [inbox EXCEPT ![Root] = Tail(@)] /\ inbox[Root] # <<>>
    BY <1>1 DEF Consume, Receives
  <2>4. inbox \in [BrowseTasks -> Seq(Signals)] /\ inbox[Root] \in Seq(SignalsFor(AllTypes))
    BY <1>1 DEF TasksTypeOK, InboxTyped
  <2>5. /\ Tail(inbox[Root]) \in Seq(Signals)
        /\ Tail(inbox[Root]) \in Seq(SignalsFor(AllTypes))
    BY <2>3, <2>4, HeadTailProperties
  <2>6. inbox[c] = <<>> /\ handles[c] = {} /\ c \notin aborted
    BY <2>1 DEF IdleIsBlank, AbortedLive, Live
  <2>7. pc' \in [Tasks -> BrowsePCs \cup ResolvePCs]
        /\ \A x \in Tasks : pc'[x] = IF x = c THEN "connect" ELSE pc[x]
    BY <2>1 DEF TasksTypeOK, BrowsePCs
  <2>8. \A b \in BrowseTasks : btype'[b] = IF b = c THEN ty ELSE btype[b]
    BY <2>1 DEF TasksTypeOK
  <2>9. \A b \in BrowseTasks : handles'[b] = IF b = Root THEN handles[Root] \cup {c} ELSE handles[b]
    BY <2>1 DEF TasksTypeOK
  <2>10. TasksTypeOK'
    <3>1. handles' \in [BrowseTasks -> SUBSET (Children \cup Resolvers)]
      BY <2>1 DEF TasksTypeOK
    <3>2. inbox' \in [BrowseTasks -> Seq(Signals)]
      BY <2>3, <2>4, <2>5
    <3>3. btype' \in [BrowseTasks -> Types \cup {AllTypes, None}] /\ seen' \in SUBSET Types
      BY <2>1, <2>2 DEF TasksTypeOK
    <3>4. /\ \A b \in BrowseTasks : pc'[b] \in BrowsePCs
          /\ \A r \in Resolvers : pc'[r] \in ResolvePCs
      BY <2>1, <2>7 DEF TasksTypeOK, BrowsePCs
    <3> QED BY <1>1, <2>7, <3>1, <3>2, <3>3, <3>4 DEF TasksTypeOK
  <2>11. InboxTyped'
    <3> SUFFICES ASSUME NEW b \in BrowseTasks PROVE inbox'[b] \in Seq(SignalsFor(btype'[b]))
      BY DEF InboxTyped, SignalsFor
    <3>1. CASE b = c
      BY <2>2, <2>3, <2>4, <2>6, <3>1, EmptySeq
    <3>2. CASE b = Root
      BY <1>1, <2>2, <2>3, <2>4, <2>5, <2>8, <3>2
    <3>3. CASE b # c /\ b # Root
      BY <2>3, <2>4, <2>8, <3>3 DEF InboxTyped
    <3> QED BY <3>1, <3>2, <3>3
  <2>12. (Unstarted /\ RootType)'
    BY <1>1, <2>2, <2>7, <2>8 DEF Unstarted, RootType
  <2>13. IdleIsBlank'
    BY <1>1, <2>3, <2>4, <2>7, <2>9 DEF IdleIsBlank
  <2>14. (ChildTypes /\ ResolverTypes)'
    BY <1>1, <2>1, <2>7, <2>8 DEF ChildTypes, ResolverTypes
  <2>15. Ownership'
    BY <1>1, <2>1, <2>2, <2>6, <2>7, <2>8, <2>9 DEF Ownership, SpawnedBy
  <2>16. AbortedLive'
    BY <1>1, <2>6, <2>7 DEF AbortedLive, Live, TasksTypeOK
  <2>17. Uncut'
    <3> SUFFICES ASSUME NEW b \in BrowseTasks, NEW r \in Resolvers,
                        pc'[b] \in {"connect", "create", "loop"}, pc'[r] # "idle",
                        TypeOf[target'[r]] = btype'[b]
                 PROVE  pc'[r] # "cancelled" /\ r \notin aborted'
      BY DEF Uncut
    <3>1. pc'[r] = pc[r] /\ pc[r] # "idle"
      BY <2>1, <2>7
    <3>2. TypeOf[target[r]] \in seen
      BY <1>1, <3>1 DEF ResolverTypes, TasksTypeOK
    <3>3. b # c
      BY <1>1, <2>1, <2>8, <3>2
    <3> QED BY <1>1, <2>7, <2>8, <3>1, <3>3 DEF Uncut
  <2>18. NoOrphans'
    BY <1>1, <2>1, <2>2, <2>7, <2>9 DEF NoOrphans, Live
  <2>19. OneBrowsePerType'
    BY <2>1, <2>7, <2>8 DEF OneBrowsePerType, ChildTypes
  <2> QED BY <1>1, <2>10, <2>11, <2>12, <2>13, <2>14, <2>15, <2>16, <2>17, <2>18, <2>19
<1>4. CASE UNCHANGED <<pc, btype, seen, handles>>
  BY <1>1, <1>4, ConsumeTyped, QuietInv DEF TasksTypeOK
<1> QED BY <1>3, <1>4 DEF TypeItemNew, Unseen

LEMMA ItemNewInv ==
  ASSUME TaskInv, NEW b \in BrowseTasks, ItemNew(b)
  PROVE  TaskInv'
<1> USE ConstantsOK DEF ConstantsOK, TaskInv, Tasks, BrowseTasks
<1> DEFINE r == FreshResolver
           i == Item(b)
<1>1. /\ btype[b] # AllTypes /\ pc[b] = "loop"
      /\ Receives(b, "ItemNew") /\ Consume(b)
      /\ r \in Resolvers /\ pc[r] = "idle"
      /\ pc' = [pc EXCEPT ![r] = "call"]
      /\ target' = [target EXCEPT ![r] = i]
      /\ handles' = [handles EXCEPT ![b] = Retained(b) \cup {r}]
      /\ UNCHANGED <<request, handle, btype, seen>>
  BY FreshOnes DEF ItemNew, Receives, Goto, client
<1>2. i \in Instances /\ TypeOf[i] = btype[b]
  BY <1>1, ItemTyped
<1>3. UNCHANGED aborted
  <2>1. {x \in handles[b] \ Retained(b) : Live(x)} = {}
    BY DEF Retained
  <2> QED BY <2>1 DEF ItemNew
<1> HIDE DEF r, i
<1>4. /\ inbox' \in [BrowseTasks -> Seq(Signals)]
      /\ InboxTyped'
      /\ \A d \in BrowseTasks : pc[d] = "idle" => inbox'[d] = <<>>
  BY <1>1, ConsumeTyped
<1>5. /\ pc' \in [Tasks -> BrowsePCs \cup ResolvePCs]
      /\ \A x \in Tasks : pc'[x] = IF x = r THEN "call" ELSE pc[x]
  BY <1>1 DEF TasksTypeOK, ResolvePCs
<1>6. \A x \in Resolvers : target'[x] = IF x = r THEN i ELSE target[x]
  BY <1>1 DEF TasksTypeOK
<1>7. \A d \in BrowseTasks :
        handles'[d] = IF d = b THEN {x \in handles[b] : Live(x)} \cup {r} ELSE handles[d]
  BY <1>1 DEF TasksTypeOK, Retained
<1>8. r \notin aborted /\ r \notin BrowseTasks
  BY <1>1 DEF AbortedLive, Live
<1>9. TasksTypeOK'
  <2>1. handles' \in [BrowseTasks -> SUBSET (Children \cup Resolvers)]
    BY <1>1 DEF TasksTypeOK, Retained
  <2>2. target' \in [Resolvers -> Instances \cup {None}]
    BY <1>1, <1>2 DEF TasksTypeOK
  <2>3. /\ \A d \in BrowseTasks : pc'[d] \in BrowsePCs
        /\ \A x \in Resolvers : pc'[x] \in ResolvePCs
    BY <1>5, <1>8 DEF TasksTypeOK, ResolvePCs
  <2> QED BY <1>1, <1>3, <1>4, <1>5, <2>1, <2>2, <2>3 DEF TasksTypeOK
<1>10. (Unstarted /\ RootType /\ ChildTypes /\ OneBrowsePerType)'
  BY <1>1, <1>5, <1>8 DEF Unstarted, RootType, ChildTypes, OneBrowsePerType
<1>11. IdleIsBlank'
  BY <1>1, <1>4, <1>5, <1>7, <1>8 DEF IdleIsBlank
<1>12. ResolverTypes'
  <2>1. TypeOf[i] \in seen \cup {request}
    BY <1>1, <1>2 DEF RootType, ChildTypes
  <2> QED BY <1>1, <1>2, <1>5, <1>6, <2>1 DEF ResolverTypes
<1>13. Ownership'
  <2> SUFFICES ASSUME NEW d \in BrowseTasks, NEW x \in handles'[d]
               PROVE  x \in SpawnedBy(d)'
    BY DEF Ownership
  <2>1. CASE x = r
    <3>1. r \notin handles[d]
      BY <1>1, <1>8 DEF Ownership, SpawnedBy
    <3>2. d = b
      BY <1>7, <2>1, <3>1
    <3> QED BY <1>1, <1>2, <1>5, <1>6, <2>1, <3>2 DEF SpawnedBy
  <2>2. CASE x # r
    <3>1. x \in SpawnedBy(d)
      BY <1>7, <2>2 DEF Ownership
    <3> QED BY <1>1, <1>5, <1>6, <2>2, <3>1 DEF SpawnedBy
  <2> QED BY <2>1, <2>2
<1>14. AbortedLive'
  BY <1>3, <1>5, <1>8 DEF AbortedLive, Live, TasksTypeOK
<1>15. Uncut'
  BY <1>1, <1>3, <1>5, <1>6, <1>8 DEF Uncut
<1>16. NoOrphans'
  <2> SUFFICES ASSUME NEW x \in Children \cup Resolvers, Live(x)', x \notin aborted'
               PROVE  \E d \in BrowseTasks : Live(d)' /\ x \in handles'[d]
    BY DEF NoOrphans
  <2>1. \A d \in BrowseTasks : Live(d)' <=> Live(d)
    BY <1>5, <1>8 DEF Live
  <2>2. CASE x = r
    <3>1. Live(b)
      BY <1>1 DEF Live
    <3>2. r \in handles'[b]
      BY <1>7
    <3> QED BY <2>1, <2>2, <3>1, <3>2
  <2>3. CASE x # r
    BY <1>3, <1>5, <1>7, <2>1, <2>3 DEF NoOrphans, Live
  <2> QED BY <2>2, <2>3
<1> QED BY <1>1, <1>9, <1>4, <1>10, <1>11, <1>12, <1>13, <1>14, <1>15, <1>16

(* The steps of a browse task other than spawning. *)
LEMMA BrowseStepInv ==
  ASSUME TaskInv, present \in SUBSET Instances, NEW b \in BrowseTasks, BrowseStep(b)
  PROVE  TaskInv'
<1> USE ConstantsOK DEF Tasks, BrowseTasks
<1>1. /\ pc \in [Tasks -> BrowsePCs \cup ResolvePCs]
      /\ inbox \in [BrowseTasks -> Seq(Signals)]
      /\ \A d \in BrowseTasks : pc[d] \in BrowsePCs
      /\ \A r \in Resolvers : pc[r] \in ResolvePCs
  BY DEF TaskInv, TasksTypeOK
<1>2. b \notin Resolvers
  BY DEF ConstantsOK
<1>3. ASSUME Finish(b, "done"), UNCHANGED <<request, handle>>, Live(b)
      PROVE  TaskInv'
  BY <1>3, FinishInv
<1>4. CASE ConnectAndSubscribe(b)
  <2>1. CASE Goto(b, "create") /\ UNCHANGED <<btype, target, inbox, seen, handles, aborted>>
    <3>1. pc[b] = "connect" /\ pc' = [pc EXCEPT ![b] = "create"] /\ UNCHANGED <<request, handle>>
      BY <1>4, <2>1 DEF ConnectAndSubscribe, Goto, client
    <3>2. InboxTyped'
      BY <2>1 DEF TaskInv, InboxTyped, SignalsFor
    <3>3. \A d \in BrowseTasks : pc[d] = "idle" => inbox'[d] = <<>>
      BY <2>1 DEF TaskInv, IdleIsBlank
    <3> QED BY <1>1, <1>2, <2>1, <3>1, <3>2, <3>3, QuietInv DEF Live, BrowsePCs
  <2>2. CASE Finish(b, "done")
    BY <1>3, <1>4, <2>2 DEF ConnectAndSubscribe, Live, client
  <2> QED BY <1>4, <2>1, <2>2 DEF ConnectAndSubscribe
<1>5. CASE CreateBrowser(b)
  <2>1. ASSUME NEW burst \in SetToSeqs(Cached(b)), Goto(b, "loop"),
               inbox' = [inbox EXCEPT ![b] = @ \o burst],
               UNCHANGED <<btype, target, seen, handles, aborted>>
        PROVE  TaskInv'
    <3>1. pc[b] = "create" /\ pc' = [pc EXCEPT ![b] = "loop"] /\ UNCHANGED <<request, handle>>
      BY <1>5, <2>1 DEF CreateBrowser, Goto, client
    <3>2. burst \in Seq(SignalsFor(btype[b])) /\ burst \in Seq(Signals)
      BY <2>1, CachedTyped
    <3>3. inbox[b] \in Seq(SignalsFor(btype[b])) /\ inbox[b] \in Seq(Signals)
      BY <1>1 DEF TaskInv, InboxTyped
    <3>4. inbox[b] \o burst \in Seq(SignalsFor(btype[b])) /\ inbox[b] \o burst \in Seq(Signals)
      BY <3>2, <3>3, ConcatProperties
    <3>5. inbox' \in [BrowseTasks -> Seq(Signals)]
      BY <1>1, <2>1, <3>4
    <3>6. \A d \in BrowseTasks : inbox'[d] \in Seq(SignalsFor(btype[d]))
      BY <1>1, <2>1, <3>4 DEF TaskInv, InboxTyped
    <3>7. InboxTyped'
      BY <2>1, <3>6 DEF InboxTyped, SignalsFor
    <3>8. \A d \in BrowseTasks : pc[d] = "idle" => inbox'[d] = <<>>
      BY <1>1, <2>1, <3>1 DEF TaskInv, IdleIsBlank
    <3> QED BY <1>1, <1>2, <2>1, <3>1, <3>5, <3>7, <3>8, QuietInv DEF Live, BrowsePCs
  <2>2. CASE Finish(b, "done")
    BY <1>3, <1>5, <2>2 DEF CreateBrowser, Live, client
  <2> QED BY <1>5, <2>1, <2>2 DEF CreateBrowser, Heard
<1>6. CASE ItemNew(b)
  BY <1>6, ItemNewInv
<1>7. ASSUME NEW kind, Receives(b, kind), Consume(b),
             UNCHANGED pc \/ Goto(b, "free"),
             UNCHANGED <<request, handle, btype, target, seen, handles, aborted>>
      PROVE  TaskInv'
  <2>1. /\ inbox' \in [BrowseTasks -> Seq(Signals)]
        /\ InboxTyped'
        /\ \A d \in BrowseTasks : pc[d] = "idle" => inbox'[d] = <<>>
    BY <1>7, ConsumeTyped
  <2>2. pc[b] = "loop" /\ (pc' = pc \/ pc' = [pc EXCEPT ![b] = "free"])
    BY <1>7 DEF Receives, Goto
  <2> QED BY <1>1, <1>2, <1>7, <2>1, <2>2, QuietInv DEF Live, BrowsePCs
<1>8. CASE ItemRemove(b)
  BY <1>7, <1>8 DEF ItemRemove, client
<1>9. CASE Failure(b)
  BY <1>7, <1>9 DEF Failure, client
<1>10. CASE OtherSignal(b)
  BY <1>7, <1>10 DEF OtherSignal, client
<1>11. CASE EndOfSignals(b)
  BY <1>7, <1>11 DEF EndOfSignals, client
<1>12. CASE Free(b)
  BY <1>3, <1>12 DEF Free, Live, client
<1> QED BY <1>4, <1>5, <1>6, <1>8, <1>9, <1>10, <1>11, <1>12 DEF BrowseStep

LEMMA ResolverStepInv ==
  ASSUME TaskInv, NEW r \in Resolvers, ResolverStep(r)
  PROVE  TaskInv'
<1> USE ConstantsOK DEF Tasks, BrowseTasks
<1>1. CASE AvahiReply(r)
  <2>1. /\ pc[r] = "call"
        /\ pc' = [pc EXCEPT ![r] = "resolved"] \/ pc' = [pc EXCEPT ![r] = "refused"]
        /\ UNCHANGED <<request, handle, btype, target, inbox, seen, handles, aborted>>
    BY <1>1 DEF AvahiReply, Goto, client
  <2>2. /\ pc \in [Tasks -> BrowsePCs \cup ResolvePCs]
        /\ inbox \in [BrowseTasks -> Seq(Signals)]
        /\ \A d \in BrowseTasks : pc[d] \in BrowsePCs
        /\ \A x \in Resolvers : pc[x] \in ResolvePCs
        /\ r \notin BrowseTasks
    BY DEF TaskInv, TasksTypeOK, ConstantsOK
  <2>3. InboxTyped'
    BY <2>1 DEF TaskInv, InboxTyped, SignalsFor
  <2>4. \A d \in BrowseTasks : pc[d] = "idle" => inbox'[d] = <<>>
    BY <2>1 DEF TaskInv, IdleIsBlank
  <2> QED BY <2>1, <2>2, <2>3, <2>4, QuietInv DEF Live, ResolvePCs
<1>2. CASE EmitResult(r)
  <2>1. Live(r) /\ Finish(r, "done") /\ UNCHANGED <<request, handle>>
    BY <1>2 DEF EmitResult, Live, client
  <2> QED BY <2>1, FinishInv
<1> QED BY <1>1, <1>2 DEF ResolverStep

LEMMA CancelInv ==
  ASSUME TaskInv, NEW t \in Tasks, Cancel(t)
  PROVE  TaskInv'
BY FinishInv DEF Cancel, client

(* What Avahi announces of an item goes to the browsers of its type, and   *)
(* of the type itself to the meta-query.                                   *)
LEMMA AnnounceInv ==
  ASSUME TaskInv, NEW kind \in {"ItemNew", "ItemRemove"}, NEW i \in Instances,
         NEW news \in BOOLEAN, Announce(kind, i, news),
         UNCHANGED <<request, handle, pc, btype, target, seen, handles, aborted>>
  PROVE  TaskInv'
<1> USE ConstantsOK DEF BrowseTasks
<1>1. /\ inbox \in [BrowseTasks -> Seq(Signals)]
      /\ \A b \in BrowseTasks : inbox[b] \in Seq(SignalsFor(btype[b]))
      /\ \A b \in BrowseTasks : pc[b] = "idle" => inbox[b] = <<>>
  BY DEF TaskInv, TasksTypeOK, InboxTyped, IdleIsBlank
<1>2. \A b \in BrowseTasks :
        \/ inbox'[b] = inbox[b]
        \/ /\ Watches(b, TypeOf[i]) \/ Watches(b, AllTypes)
           /\ \E sg \in Signals \cap SignalsFor(btype[b]) : inbox'[b] = Append(inbox[b], sg)
  <2>1. SignalOf(kind, i) \in Signals /\ SignalOf(kind, TypeOf[i]) \in Signals
    BY DEF SignalOf, Signals, ConstantsOK
  <2>2. SignalOf(kind, i) \in SignalsFor(TypeOf[i])
    BY DEF SignalOf, SignalsFor, ConstantsOK
  <2>3. SignalOf(kind, TypeOf[i]) \in SignalsFor(AllTypes)
    BY DEF SignalOf, SignalsFor, ConstantsOK
  <2> QED BY <2>1, <2>2, <2>3 DEF Announce, Watches
<1>3. \A b \in BrowseTasks :
        /\ inbox'[b] \in Seq(Signals)
        /\ inbox'[b] \in Seq(SignalsFor(btype[b]))
        /\ pc[b] = "idle" => inbox'[b] = <<>>
  <2> SUFFICES ASSUME NEW b \in BrowseTasks, inbox'[b] # inbox[b]
               PROVE  /\ inbox'[b] \in Seq(Signals)
                      /\ inbox'[b] \in Seq(SignalsFor(btype[b]))
                      /\ pc[b] # "idle"
    BY <1>1
  <2>1. PICK sg \in Signals \cap SignalsFor(btype[b]) : inbox'[b] = Append(inbox[b], sg)
    BY <1>2
  <2>2. inbox[b] \in Seq(Signals) /\ inbox[b] \in Seq(SignalsFor(btype[b]))
    BY <1>1
  <2>3. pc[b] = "loop"
    BY <1>2 DEF Watches, Connected
  <2> QED BY <2>1, <2>2, <2>3, AppendProperties
<1>4. inbox' \in [BrowseTasks -> Seq(Signals)]
  <2>1. PICK repeat \in BOOLEAN : inbox' = [b \in BrowseTasks |->
      CASE Watches(b, TypeOf[i]) -> Append(inbox[b], SignalOf(kind, i))
        [] Watches(b, AllTypes) /\ (news \/ repeat) ->
             Append(inbox[b], SignalOf(kind, TypeOf[i]))
        [] OTHER -> inbox[b]]
    BY DEF Announce
  <2> QED BY <1>3, <2>1
<1>5. InboxTyped'
  BY <1>3 DEF InboxTyped, SignalsFor
<1> QED BY <1>3, <1>4, <1>5, QuietInv DEF TaskInv, TasksTypeOK

LEMMA EnvironmentInv ==
  ASSUME TaskInv, Environment
  PROVE  TaskInv'
<1>1. ASSUME NEW i \in Instances, Appear(i) \/ Disappear(i)
      PROVE  TaskInv'
  <2>1. UNCHANGED <<request, handle, pc, btype, target, seen, handles, aborted>>
    BY <1>1 DEF Appear, Disappear, client
  <2>2. \E kind \in {"ItemNew", "ItemRemove"}, news \in BOOLEAN : Announce(kind, i, news)
    BY <1>1 DEF Appear, Disappear
  <2> QED BY <2>1, <2>2, AnnounceInv
<1>2. ASSUME NEW b \in BrowseTasks, AvahiFault(b)
      PROVE  TaskInv'
  <2>1. PICK kind \in {"Failure", "Other", "Eof"} :
          inbox' = [inbox EXCEPT ![b] = Append(@, SignalOf(kind, None))]
    BY <1>2 DEF AvahiFault
  <2>2. /\ SignalOf(kind, None) \in Signals
        /\ SignalOf(kind, None) \in SignalsFor(btype[b])
    BY DEF SignalOf, Signals, SignalsFor
  <2>3. /\ inbox \in [BrowseTasks -> Seq(Signals)]
        /\ inbox[b] \in Seq(SignalsFor(btype[b])) /\ inbox[b] \in Seq(Signals)
        /\ pc[b] = "loop"
        /\ UNCHANGED <<request, handle, pc, btype, target, seen, handles, aborted>>
    BY <1>2 DEF TaskInv, TasksTypeOK, InboxTyped, AvahiFault, Connected, client
  <2>4. /\ Append(inbox[b], SignalOf(kind, None)) \in Seq(Signals)
        /\ Append(inbox[b], SignalOf(kind, None)) \in Seq(SignalsFor(btype[b]))
    BY <2>2, <2>3, AppendProperties
  <2>5. inbox' \in [BrowseTasks -> Seq(Signals)]
    BY <2>1, <2>3, <2>4
  <2>6. \A d \in BrowseTasks : inbox'[d] \in Seq(SignalsFor(btype[d]))
    BY <2>1, <2>3, <2>4 DEF TaskInv, InboxTyped
  <2>7. InboxTyped'
    BY <2>3, <2>6 DEF InboxTyped, SignalsFor
  <2>8. \A d \in BrowseTasks : pc[d] = "idle" => inbox'[d] = <<>>
    BY <2>1, <2>3 DEF TaskInv, IdleIsBlank
  <2> QED BY <2>3, <2>5, <2>7, <2>8, QuietInv DEF TaskInv, TasksTypeOK
<1> QED BY <1>1, <1>2 DEF Environment

-----------------------------------------------------------------------------
(* The invariant. *)

LEMMA InitInv == Init => IInv
<1> SUFFICES ASSUME Init PROVE IInv
  OBVIOUS
<1> USE ConstantsOK DEF Init, Tasks, BrowseTasks
<1>1. <<>> \in Seq(Signals) /\ <<>> \in Seq(Events)
  BY EmptySeq
<1>2. TasksTypeOK
  BY <1>1 DEF TasksTypeOK, BrowsePCs, ResolvePCs
<1>3. TypeOK
  <2>1. churn \in 0..MaxChurn /\ faults \in 0..MaxFaults
    BY DEF ConstantsOK
  <2>2. view \in [Identities -> {"unknown", "found", "removed"}]
    OBVIOUS
  <2> QED BY <1>1, <1>2, <2>1, <2>2 DEF TypeOK
<1>4. InboxTyped
  BY EmptySeq DEF InboxTyped
<1>5. TaskInv
  BY <1>2, <1>4 DEF TaskInv, Unstarted, IdleIsBlank, RootType, ChildTypes, ResolverTypes,
     Ownership, AbortedLive, Uncut, NoOrphans, OneBrowsePerType, Live
<1> QED BY <1>3, <1>5 DEF IInv, Over

LEMMA NextTaskInv == TypeOK /\ TaskInv /\ [Next]_vars => TaskInv'
<1> SUFFICES ASSUME TypeOK, TaskInv, [Next]_vars PROVE TaskInv'
  OBVIOUS
<1>1. ASSUME UNCHANGED <<request, tasks>>, handle' = "unstarted" => handle = "unstarted"
      PROVE  TaskInv'
  <2>1. UNCHANGED <<request, pc, btype, target, inbox, seen, handles, aborted>>
    BY <1>1 DEF tasks
  <2>2. InboxTyped'
    BY <2>1 DEF TaskInv, InboxTyped, SignalsFor
  <2> QED BY <1>1, <2>1, <2>2, QuietInv DEF TaskInv, TasksTypeOK, IdleIsBlank
<1>2. CASE BrowseStart
  BY <1>2, BrowseStartInv
<1>3. CASE Recv \/ RecvNone \/ DropReceiver
  BY <1>1, <1>3 DEF Recv, RecvNone, DropReceiver
<1>4. CASE DropGuard
  BY <1>4, DropGuardInv
<1>5. CASE TypeStep
  <2>1. CASE TypeItemRemove
    <3>1. /\ Receives(Root, "ItemRemove") /\ Consume(Root)
          /\ UNCHANGED <<request, handle, pc, btype, target, seen, handles, aborted>>
      BY <2>1 DEF TypeItemRemove, client
    <3> QED BY <3>1, ConsumeTyped, QuietInv DEF TaskInv, TasksTypeOK, BrowseTasks
  <2> QED BY <1>5, <2>1, TypeItemNewInv DEF TypeStep
<1>6. ASSUME NEW b \in BrowseTasks, BrowseStep(b) PROVE TaskInv'
  BY <1>6, BrowseStepInv DEF TypeOK
<1>7. ASSUME NEW r \in Resolvers, ResolverStep(r) PROVE TaskInv'
  BY <1>7, ResolverStepInv
<1>8. ASSUME NEW t \in Tasks, Cancel(t) PROVE TaskInv'
  BY <1>8, CancelInv
<1>9. CASE Environment
  BY <1>9, EnvironmentInv
<1>10. CASE Terminated \/ UNCHANGED vars
  BY <1>1, <1>10 DEF Terminated, vars, client
<1> QED BY <1>2, <1>3, <1>4, <1>5, <1>6, <1>7, <1>8, <1>9, <1>10 DEF Next

(* Sending leaves a sequence of events. *)
LEMMA EmitTyped ==
  ASSUME chan \in Seq(Events), NEW e \in Events, Emit(e)
  PROVE  chan' \in Seq(Events)
BY AppendProperties DEF Emit

LEMMA FaultTyped ==
  ASSUME faults \in 0..MaxFaults, Fault
  PROVE  faults' \in 0..MaxFaults
BY ConstantsOK DEF ConstantsOK, Fault

LEMMA OutcomeTyped ==
  ASSUME TaskInv, NEW r \in Resolvers, pc[r] # "idle"
  PROVE  Outcome(r) \in Events
BY ConstantsOK DEF ConstantsOK, TaskInv, ResolverTypes, Outcome, EventOf, Events

(* What a task does to the channel and the fault count. *)
LEMMA TaskEffects ==
  ASSUME IInv,
         \/ TypeStep
         \/ \E b \in BrowseTasks : BrowseStep(b)
         \/ \E r \in Resolvers : ResolverStep(r)
         \/ \E t \in Tasks : Cancel(t)
  PROVE  /\ UNCHANGED chan \/ \E e \in Events : Emit(e)
         /\ faults' \in 0..MaxFaults
         /\ UNCHANGED <<request, client, network>>
         /\ Senders # {}
<1> USE DEF IInv, TypeOK
<1>1. Root \in Tasks /\ BrowseTasks \subseteq Tasks /\ Resolvers \subseteq Tasks
  BY DEF Tasks, BrowseTasks
<1>2. \A t \in Tasks : Live(t) => Senders # {}
  BY DEF Senders
<1>3. CASE TypeStep
  BY <1>1, <1>2, <1>3 DEF TypeStep, TypeItemNew, TypeItemRemove, Receives, Live
<1>4. ASSUME NEW b \in BrowseTasks, BrowseStep(b)
      PROVE  /\ UNCHANGED chan \/ \E e \in Events : Emit(e)
             /\ faults' \in 0..MaxFaults
             /\ UNCHANGED <<request, client, network>>
             /\ Live(b)
  <2>1. EventOf("BrowseFailed", None) \in Events /\ EventOf("Unavailable", None) \in Events
    BY DEF EventOf, Events
  <2>2. CASE ConnectAndSubscribe(b)
    BY <2>1, <2>2, FaultTyped DEF ConnectAndSubscribe, Live
  <2>3. CASE CreateBrowser(b)
    BY <2>1, <2>3, FaultTyped DEF CreateBrowser, Live
  <2>4. CASE ItemNew(b)
    BY <2>4 DEF ItemNew, Receives, Live
  <2>5. CASE ItemRemove(b)
    <3>1. Item(b) \in Instances
      BY <2>5, ItemTyped DEF ItemRemove
    <3>2. EventOf("Removed", Identity[Item(b)]) \in Events
      BY <3>1, ConstantsOK DEF ConstantsOK, EventOf, Events
    <3> QED BY <2>5, <3>2 DEF ItemRemove, Receives, Live
  <2>6. CASE Failure(b)
    BY <2>1, <2>6 DEF Failure, Receives, Live
  <2>7. CASE OtherSignal(b) \/ EndOfSignals(b)
    BY <2>7 DEF OtherSignal, EndOfSignals, Receives, Live
  <2>8. CASE Free(b)
    BY <2>8 DEF Free, Live
  <2> QED BY <1>4, <2>2, <2>3, <2>4, <2>5, <2>6, <2>7, <2>8 DEF BrowseStep
<1>5. ASSUME NEW r \in Resolvers, ResolverStep(r)
      PROVE  /\ UNCHANGED chan \/ \E e \in Events : Emit(e)
             /\ faults' \in 0..MaxFaults
             /\ UNCHANGED <<request, client, network>>
             /\ Live(r)
  <2>1. CASE AvahiReply(r)
    BY <2>1, FaultTyped DEF AvahiReply, Live
  <2>2. CASE EmitResult(r)
    BY <2>2, OutcomeTyped DEF EmitResult, Live
  <2> QED BY <1>5, <2>1, <2>2 DEF ResolverStep
<1>6. ASSUME NEW t \in Tasks, Cancel(t)
      PROVE  UNCHANGED <<request, client, chan, network, faults>> /\ Live(t)
  BY <1>6 DEF Cancel
<1> QED BY <1>1, <1>2, <1>3, <1>4, <1>5, <1>6

LEMMA NextInv == IInv /\ [Next]_vars => IInv'
<1> SUFFICES ASSUME IInv, [Next]_vars PROVE IInv'
  OBVIOUS
<1>1. TaskInv'
  BY NextTaskInv DEF IInv
<1>2. Senders = {} <=> \A t \in Tasks : pc[t] \in {"idle", "done", "cancelled"}
  BY DEF Senders, Live
<1>3. ASSUME UNCHANGED chan \/ \E e \in Events : Emit(e),
             faults' \in 0..MaxFaults, UNCHANGED <<request, client, network>>, Senders # {}
      PROVE  TypeOK' /\ Over'
  <2>1. chan' \in Seq(Events)
    BY <1>3, EmitTyped DEF IInv, TypeOK
  <2>2. ~ended
    BY <1>2, <1>3 DEF IInv, Over, EndedMeansOver
  <2> QED BY <1>1, <1>3, <2>1, <2>2
    DEF IInv, TypeOK, TaskInv, Over, client, network
<1>4. CASE BrowseStart
  <2>1. faults' \in 0..MaxFaults
    BY <1>4, FaultTyped DEF IInv, TypeOK, BrowseStart
  <2>2. ~ended
    BY <1>4 DEF IInv, Over, BrowseStart
  <2> QED BY <1>1, <1>4, <2>1, <2>2 DEF IInv, TypeOK, TaskInv, Over, BrowseStart, network
<1>5. CASE Recv
  <2>1. Head(chan) \in Events /\ Tail(chan) \in Seq(Events) /\ ~ended
    BY <1>5, HeadTailProperties DEF IInv, TypeOK, Over, EndedMeansOver, Recv
  <2>2. view' \in [Identities -> {"unknown", "found", "removed"}]
    BY <1>5 DEF IInv, TypeOK, Recv
  <2> QED BY <1>1, <1>5, <2>1, <2>2 DEF IInv, TypeOK, TaskInv, Over, Recv, network
<1>6. CASE RecvNone
  BY <1>1, <1>2, <1>6 DEF IInv, TypeOK, TaskInv, Over, EndedMeansOver, RecvNone, network, tasks
<1>7. CASE DropReceiver
  BY <1>1, <1>7, EmptySeq
  DEF IInv, TypeOK, TaskInv, Over, EndedMeansOver, DropReceiver, network, tasks
<1>8. CASE DropGuard
  BY <1>1, <1>8 DEF IInv, TypeOK, TaskInv, Over, EndedMeansOver, DropGuard, network
<1>9. CASE \/ TypeStep
           \/ \E b \in BrowseTasks : BrowseStep(b)
           \/ \E r \in Resolvers : ResolverStep(r)
           \/ \E t \in Tasks : Cancel(t)
  <2>1. TypeOK' /\ Over'
    BY <1>3, <1>9, TaskEffects
  <2> QED BY <1>1, <2>1 DEF IInv
<1>10. CASE Environment
  <2>1. UNCHANGED <<request, client, pc, chan>>
    BY <1>10 DEF Environment, Appear, Disappear, AvahiFault
  <2>2. present' \in SUBSET Instances /\ churn' \in 0..MaxChurn
    BY <1>10, ConstantsOK
    DEF ConstantsOK, IInv, TypeOK, Environment, Appear, Disappear, AvahiFault, network
  <2>3. faults' \in 0..MaxFaults
    BY <1>10, FaultTyped DEF IInv, TypeOK, Environment, Appear, Disappear, AvahiFault
  <2> QED BY <1>1, <2>1, <2>2, <2>3
    DEF IInv, TypeOK, TaskInv, Over, EndedMeansOver, client
<1>11. CASE Terminated \/ UNCHANGED vars
  BY <1>1, <1>11 DEF IInv, TypeOK, TaskInv, Over, EndedMeansOver, Terminated, vars, client,
     tasks, network
<1> QED BY <1>4, <1>5, <1>6, <1>7, <1>8, <1>9, <1>10, <1>11 DEF Next

(* IInv holds in every reachable state. *)
LEMMA Invariance == Spec => []IInv
BY InitInv, NextInv, PTL DEF Spec

-----------------------------------------------------------------------------
(* The theorems. *)

(* Every state of browse_start, the tasks and the channel is well typed:   *)
(* in particular resolvers only ever send Found and ResolveFailed of       *)
(* identities, and an inbox only holds signals.                            *)
THEOREM TypeCorrect == Spec => []TypeOK
BY Invariance, PTL DEF IInv

(* AbortOnDrop keeps its promise for every number of types, services and   *)
(* failures: no child browse and no resolver runs outside the cascade.     *)
THEOREM NoTaskEscapes == Spec => []NoOrphans
<1>1. IInv => NoOrphans
  BY DEF IInv, TaskInv
<1> QED BY <1>1, Invariance, PTL

(* The seen set of browse_all_types admits one task per type, ever. *)
THEOREM TypesBrowsedOnce == Spec => []OneBrowsePerType
<1>1. IInv => OneBrowsePerType
  BY DEF IInv, TaskInv
<1> QED BY <1>1, Invariance, PTL

(* resolvers.retain never cuts a resolver short. *)
THEOREM NoResolverCut == Spec => []ResolversRunToCompletion
<1>1. IInv => ResolversRunToCompletion
  BY DEF IInv, TaskInv, Uncut, ResolversRunToCompletion
<1> QED BY <1>1, Invariance, PTL

(* None from recv() is final: no task is left that could send. *)
THEOREM NoneIsFinal == Spec => []EndedMeansOver
<1>1. IInv => EndedMeansOver
  BY DEF IInv, Over, EndedMeansOver
<1> QED BY <1>1, Invariance, PTL

(* The Linux back-end implements the event stream of ServiceBrowser. *)
THEOREM ImplementsStream == Spec => StreamRefinement
<1> USE DEF RxOf
<1>1. Init => ES!Init
  BY DEF Init, ES!Init, Senders, Live
<1>2. IInv /\ [Next]_vars => [ES!Next]_(ES!vars)
  <2> SUFFICES ASSUME IInv, [Next]_vars PROVE [ES!Next]_(ES!vars)
    OBVIOUS
  <2> USE DEF ES!Next, ES!vars
  <2>1. Senders' \in SUBSET Tasks
    BY DEF Senders
  <2>2. ASSUME UNCHANGED <<chan, pc, ended>>, RxOf(handle') = RxOf(handle)
        PROVE  UNCHANGED ES!vars
    BY <2>2 DEF Senders, Live
  <2>3. CASE BrowseStart
    <3>1. CASE handle' = "open"
      BY <2>1, <2>3, <3>1 DEF BrowseStart, ES!Open
    <3>2. CASE handle' = "failed" /\ UNCHANGED tasks
      BY <2>2, <2>3, <3>2 DEF BrowseStart, tasks
    <3> QED BY <2>3, <3>1, <3>2 DEF BrowseStart
  <2>4. CASE Recv
    <3>1. UNCHANGED Senders
      BY <2>4 DEF Recv, tasks, Senders, Live
    <3> QED BY <2>4, <3>1 DEF Recv, ES!Recv
  <2>5. CASE RecvNone
    <3>1. UNCHANGED Senders
      BY <2>5 DEF RecvNone, tasks, Senders, Live
    <3> QED BY <2>5, <3>1 DEF RecvNone, ES!RecvNone
  <2>6. CASE DropReceiver
    <3>1. UNCHANGED Senders
      BY <2>6 DEF DropReceiver, tasks, Senders, Live
    <3> QED BY <2>6, <3>1 DEF DropReceiver, ES!Close
  <2>7. CASE DropGuard
    BY <2>2, <2>7 DEF DropGuard
  <2>8. CASE \/ TypeStep
             \/ \E b \in BrowseTasks : BrowseStep(b)
             \/ \E r \in Resolvers : ResolverStep(r)
             \/ \E t \in Tasks : Cancel(t)
    <3>1. /\ UNCHANGED chan \/ \E e \in Events : Emit(e)
          /\ UNCHANGED <<handle, ended>>
          /\ Senders # {}
      BY <2>8, TaskEffects DEF client
    <3>2. UNCHANGED chan \/ (handle = "open" /\ \E e \in Events : chan' = Append(chan, e))
      BY <3>1 DEF Emit
    <3> QED BY <2>1, <3>1, <3>2 DEF ES!Produce
  <2>9. CASE Environment
    BY <2>2, <2>9 DEF Environment, Appear, Disappear, AvahiFault, client
  <2>10. CASE Terminated \/ UNCHANGED vars
    BY <2>2, <2>10 DEF Terminated, vars, client, tasks
  <2> QED BY <2>3, <2>4, <2>5, <2>6, <2>7, <2>8, <2>9, <2>10 DEF Next
<1> QED BY <1>1, <1>2, Invariance, PTL DEF Spec, StreamRefinement, ES!Safety
=============================================================================
