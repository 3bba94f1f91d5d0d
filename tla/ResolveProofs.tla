--------------------------- MODULE ResolveProofs ---------------------------
(***************************************************************************)
(* What Resolve promises for any number of calls, any pool and any bounds. *)
(***************************************************************************)
EXTENDS Resolve, TLAPS

(* What ties the caller's side of a call to the platform's. *)
CallOK(c) ==
  /\ call[c] = "idle" => stage[c] = "none" /\ result[c] = None /\ ~expired[c]
  /\ call[c] = "waiting" => alive \in met[c]
  /\ call[c] = "waiting" /\ stage[c] = "addresses" => TRUE \in met[c]
  /\ expired[c] => timed[c]
  /\ result[c] = "ok" => TRUE \in met[c]
  /\ result[c] = "failed" => FALSE \in met[c] \/ faults > 0
  /\ result[c] = "unavailable" => faults > 0

CallInv == \A c \in Calls : CallOK(c)

(* A request has freed its context if and only if it is over. *)
FreedInv ==
  platform = "windows" =>
    \A c \in Calls : freed[c] = IF stage[c] = "over" THEN 1 ELSE 0

IInv == TypeOK /\ CallInv /\ FreedInv

Stages == {"none", "connect", "asked", "queued", "resolve", "addresses", "over"}

-----------------------------------------------------------------------------
(* Every initial state satisfies the invariant. *)
LEMMA InitInv == Init => IInv
BY ResolveConstantsOK DEF Init, IInv, TypeOK, CallInv, CallOK, FreedInv, Outcomes

(* Moving a call on its platform's side moves no other. *)
LEMMA Moves ==
  ASSUME NEW c \in Calls, NEW s, stage \in [Calls -> Stages], s \in Stages, To(c, s)
  PROVE  stage' \in [Calls -> Stages] /\ stage'[c] = s /\ \A d \in Calls \ {c} : stage'[d] = stage[d]
BY DEF To

(* Freeing a context counts it, and no other. *)
LEMMA Reclaims ==
  ASSUME NEW c \in Calls, freed \in [Calls -> Nat], Reclaim(c)
  PROVE  /\ freed' \in [Calls -> Nat]
         /\ platform = "windows" => freed'[c] = freed[c] + 1
         /\ \A d \in Calls \ {c} : freed'[d] = freed[d]
BY DEF Reclaim

(* A result is handed to a future that waits for it, and to no other. *)
LEMMA HandsOver ==
  ASSUME NEW c \in Calls, NEW r \in Outcomes, result \in [Calls -> Outcomes \cup {None}],
         HandOver(c, r)
  PROVE  /\ result' \in [Calls -> Outcomes \cup {None}]
         /\ result'[c] = IF call[c] = "waiting" THEN r ELSE result[c]
         /\ \A d \in Calls \ {c} : result'[d] = result[d]
BY DEF HandOver

(* A fault is counted within its bound. *)
LEMMA Faults ==
  ASSUME faults \in 0..MaxFaults, Fault
  PROVE  faults' \in 0..MaxFaults /\ faults' > 0 /\ faults' >= faults
BY ResolveConstantsOK DEF Fault

(* A request that ends with a result true of its call keeps the invariant. *)
LEMMA OverInv ==
  ASSUME IInv, NEW c \in Calls, NEW r \in Outcomes,
         stage[c] \notin {"none", "over"}, Over(c, r),
         UNCHANGED <<platform, caller, world>>,
         faults' \in 0..MaxFaults, faults' >= faults,
         call[c] = "waiting" => /\ r = "ok" => TRUE \in met[c]
                                /\ r = "failed" => FALSE \in met[c] \/ faults' > 0
                                /\ r = "unavailable" => faults' > 0
  PROVE IInv'
<1>1. /\ stage' \in [Calls -> Stages] /\ stage'[c] = "over"
      /\ \A d \in Calls \ {c} : stage'[d] = stage[d]
  BY Moves DEF IInv, TypeOK, Over, Stages
<1>2. /\ freed' \in [Calls -> Nat]
      /\ platform = "windows" => freed'[c] = freed[c] + 1
      /\ \A d \in Calls \ {c} : freed'[d] = freed[d]
  BY Reclaims DEF IInv, TypeOK, Over
<1>3. /\ result' \in [Calls -> Outcomes \cup {None}]
      /\ result'[c] = IF call[c] = "waiting" THEN r ELSE result[c]
      /\ \A d \in Calls \ {c} : result'[d] = result[d]
  BY HandsOver DEF IInv, TypeOK, Over
<1>4. TypeOK'
  BY <1>1, <1>2, <1>3 DEF IInv, TypeOK, caller, world, Stages
<1>5. CallInv'
  <2> SUFFICES ASSUME NEW d \in Calls PROVE CallOK(d)'
    BY DEF CallInv
  <2>1. faults > 0 => faults' > 0
    BY ResolveConstantsOK DEF IInv, TypeOK
  <2>2. UNCHANGED <<call, timed, expired, alive, met>> /\ CallOK(d) /\ CallOK(c)
    BY DEF IInv, CallInv, caller, world
  <2>3. CASE d = c
    <3>1. call[c] # "idle"
      BY <2>2 DEF CallOK
    <3>2. (result'[c] = r /\ call[c] = "waiting") \/ result'[c] = result[c]
      BY <1>3
    <3> QED BY <2>1, <2>2, <2>3, <1>1, <3>1, <3>2 DEF CallOK
  <2>4. CASE d # c
    <3>1. stage'[d] = stage[d] /\ result'[d] = result[d]
      BY <2>4, <1>1, <1>3
    <3> QED BY <2>1, <2>2, <3>1 DEF CallOK
  <2> QED BY <2>3, <2>4
<1>6. FreedInv'
  BY <1>1, <1>2 DEF IInv, FreedInv
<1> QED BY <1>4, <1>5, <1>6 DEF IInv

(* So does a step to another stage, once it is one of a call begun. *)
LEMMA MoveInv ==
  ASSUME IInv, NEW c \in Calls, NEW s \in Stages \ {"over"},
         stage[c] \notin {"none", "over"}, To(c, s),
         UNCHANGED <<platform, caller, world, result, freed, faults>>,
         s = "addresses" /\ call[c] = "waiting" => TRUE \in met[c]
  PROVE IInv'
<1>1. /\ stage' \in [Calls -> Stages] /\ stage'[c] = s
      /\ \A d \in Calls \ {c} : stage'[d] = stage[d]
  BY Moves DEF IInv, TypeOK, Stages
<1>2. TypeOK'
  BY <1>1 DEF IInv, TypeOK, caller, world, Stages
<1>3. CallInv'
  BY <1>1 DEF IInv, CallInv, CallOK, caller, world
<1>4. FreedInv'
  BY <1>1 DEF IInv, FreedInv
<1> QED BY <1>2, <1>3, <1>4 DEF IInv

(* The calls start with their side and the platform's in step. *)
LEMMA BeginInv ==
  ASSUME IInv, NEW c \in Calls, Begin(c)
  PROVE IInv'
<1>1. /\ stage[c] = "none" /\ result[c] = None /\ call[c] = "idle"
      /\ ~expired[c]
  BY DEF Begin, IInv, CallInv, CallOK
<1>2. /\ call' \in [Calls -> Outcomes \cup {"idle", "waiting", "timeout", "dropped"}]
      /\ call'[c] = "waiting"
      /\ \A d \in Calls \ {c} : call'[d] = call[d]
  BY DEF Begin, IInv, TypeOK
<1>3. /\ timed' \in [Calls -> BOOLEAN]
      /\ \A d \in Calls \ {c} : timed'[d] = timed[d]
  BY DEF Begin, IInv, TypeOK
<1>4. /\ met' \in [Calls -> SUBSET BOOLEAN]
      /\ met'[c] = {alive}
      /\ \A d \in Calls \ {c} : met'[d] = met[d]
  BY DEF Begin, IInv, TypeOK
<1>5. UNCHANGED <<platform, expired, alive, churn>>
  BY DEF Begin
<1>6. CASE \E s \in Stages \ {"over", "none", "addresses"} :
             To(c, s) /\ UNCHANGED <<result, freed, faults>>
  <2>1. PICK s \in Stages \ {"over", "none", "addresses"} :
             To(c, s) /\ UNCHANGED <<result, freed, faults>>
    BY <1>6
  <2>2. /\ stage' \in [Calls -> Stages] /\ stage'[c] = s
        /\ \A d \in Calls \ {c} : stage'[d] = stage[d]
    BY <2>1, Moves DEF IInv, TypeOK, Stages
  <2>3. TypeOK'
    BY <1>2, <1>3, <1>4, <1>5, <2>1, <2>2 DEF IInv, TypeOK, Stages
  <2>4. CallInv'
    <3> SUFFICES ASSUME NEW d \in Calls PROVE CallOK(d)'
      BY DEF CallInv
    <3>1. CASE d = c
      BY <1>1, <1>2, <1>4, <1>5, <2>1, <2>2, <3>1, ResolveConstantsOK DEF CallOK
    <3>2. CASE d # c
      <4>1. CallOK(d) BY DEF IInv, CallInv
      <4> QED BY <1>2, <1>3, <1>4, <1>5, <2>1, <2>2, <3>2, <4>1 DEF CallOK
    <3> QED BY <3>1, <3>2
  <2>5. FreedInv'
    BY <1>1, <1>5, <2>1, <2>2 DEF IInv, FreedInv
  <2> QED BY <2>3, <2>4, <2>5 DEF IInv
<1>7. CASE platform = "windows" /\ Fault /\ Refused(c)
  <2>1. /\ stage' \in [Calls -> Stages] /\ stage'[c] = "over"
        /\ \A d \in Calls \ {c} : stage'[d] = stage[d]
    BY <1>7, Moves DEF IInv, TypeOK, Stages, Refused
  <2>2. /\ freed' \in [Calls -> Nat]
        /\ freed'[c] = freed[c] + 1
        /\ \A d \in Calls \ {c} : freed'[d] = freed[d]
    BY <1>7, Reclaims DEF IInv, TypeOK, Refused
  <2>3. /\ result' \in [Calls -> Outcomes \cup {None}]
        /\ result'[c] = "failed"
        /\ \A d \in Calls \ {c} : result'[d] = result[d]
    BY <1>7 DEF IInv, TypeOK, Outcomes, Refused
  <2>4. faults' \in 0..MaxFaults /\ faults' > 0
    BY <1>7, Faults DEF IInv, TypeOK
  <2>5. TypeOK'
    BY <1>2, <1>3, <1>4, <1>5, <2>1, <2>2, <2>3, <2>4 DEF IInv, TypeOK, Stages
  <2>6. CallInv'
    <3> SUFFICES ASSUME NEW d \in Calls PROVE CallOK(d)'
      BY DEF CallInv
    <3>1. CASE d = c
      BY <1>1, <1>2, <1>4, <1>5, <2>1, <2>3, <2>4, <3>1 DEF CallOK
    <3>2. CASE d # c
      <4>1. CallOK(d) BY DEF IInv, CallInv
      <4> QED BY <1>2, <1>3, <1>4, <1>5, <2>1, <2>3, <2>4, <3>2, <4>1 DEF CallOK
    <3> QED BY <3>1, <3>2
  <2>7. FreedInv'
    BY <1>1, <1>5, <2>1, <2>2 DEF IInv, FreedInv
  <2> QED BY <2>5, <2>6, <2>7 DEF IInv
<1> QED BY <1>6, <1>7 DEF Begin, Stages

(* The end of a future, answered, timed out or dropped. *)
LEMMA CallerInv ==
  ASSUME IInv, NEW c \in Calls, CallerStep(c) \/ Abandon(c)
  PROVE IInv'
<1>1. call[c] = "waiting" /\ UNCHANGED <<platform, timed, result, freed, world, faults>>
  BY DEF CallerStep, Answered, Elapse, TimesOut, Abandon, DropFuture, native
<1>2. /\ call' \in [Calls -> Outcomes \cup {"idle", "waiting", "timeout", "dropped"}]
      /\ call'[c] # "idle"
      /\ \A d \in Calls \ {c} : call'[d] = call[d]
  <2>1. CASE Answered(c)
    <3>1. result[c] \in Outcomes /\ result[c] # "idle"
      BY <2>1 DEF Answered, IInv, TypeOK, Outcomes
    <3> QED BY <2>1, <3>1 DEF Answered, IInv, TypeOK
  <2>2. CASE ~Answered(c)
    BY <2>2, <1>1 DEF CallerStep, Elapse, TimesOut, Abandon, IInv, TypeOK
  <2> QED BY <2>1, <2>2
<1>3. /\ expired' \in [Calls -> BOOLEAN]
      /\ expired'[c] => timed[c]
      /\ \A d \in Calls \ {c} : expired'[d] = expired[d]
  BY DEF CallerStep, Answered, Elapse, TimesOut, Abandon, IInv, TypeOK, CallInv, CallOK
<1>4. /\ stage' \in [Calls -> Stages]
      /\ stage'[c] = stage[c] \/ (stage'[c] = "over" /\ platform # "windows")
      /\ \A d \in Calls \ {c} : stage'[d] = stage[d]
  <2>1. CASE stage' = stage
    <3>1. stage \in [Calls -> Stages]
      BY DEF IInv, TypeOK, Stages
    <3> QED BY <2>1, <3>1
  <2>2. CASE platform = "linux" /\ To(c, "over")
    <3>1. "over" \in Stages /\ stage \in [Calls -> Stages]
      BY DEF IInv, TypeOK, Stages
    <3> QED BY <2>2, <3>1, Moves
  <2> QED BY <2>1, <2>2
          DEF CallerStep, Answered, Elapse, TimesOut, Abandon, DropFuture, native, To
<1>5. call'[c] = "waiting" => stage' = stage
  BY DEF CallerStep, Answered, Elapse, TimesOut, Abandon, native, IInv, TypeOK
<1>6. TypeOK'
  BY <1>1, <1>2, <1>3, <1>4 DEF IInv, TypeOK, world, Stages
<1>7. CallInv'
  <2> SUFFICES ASSUME NEW d \in Calls PROVE CallOK(d)'
    BY DEF CallInv
  <2>1. CallOK(d) /\ UNCHANGED <<alive, met>>
    BY <1>1 DEF IInv, CallInv, world
  <2>2. CASE d = c
    BY <1>1, <1>2, <1>3, <1>5, <2>1, <2>2 DEF CallOK
  <2>3. CASE d # c
    BY <1>1, <1>2, <1>3, <1>4, <2>1, <2>3 DEF CallOK
  <2> QED BY <2>2, <2>3
<1>8. FreedInv'
  BY <1>1, <1>4 DEF IInv, FreedInv
<1> QED BY <1>6, <1>7, <1>8 DEF IInv

(* The platform's steps: a result enters a waiting call only. *)
LEMMA NativeInv ==
  ASSUME IInv, NEW c \in Calls, NativeStep(c)
  PROVE IInv'
<1> USE DEF Outcomes, Stages
<1>1. /\ call[c] = "waiting" => alive \in met[c]
      /\ call[c] = "waiting" /\ stage[c] = "addresses" => TRUE \in met[c]
  BY DEF IInv, CallInv, CallOK
<1>n. faults \in 0..MaxFaults /\ faults >= faults /\ alive \in BOOLEAN
  BY ResolveConstantsOK DEF IInv, TypeOK
<1>f. Fault => faults' \in 0..MaxFaults /\ faults' > 0 /\ faults' >= faults
  BY <1>n, Faults
<1>2. CASE Connect(c)
  <2>1. CASE To(c, "asked") /\ UNCHANGED <<result, freed, faults>>
    BY <1>2, <2>1, MoveInv DEF Connect
  <2>2. CASE Fault /\ Over(c, "unavailable")
    BY <1>1, <1>n, <1>f, <1>2, <2>2, OverInv DEF Connect
  <2> QED BY <1>2, <2>1, <2>2 DEF Connect
<1>3. CASE Reply(c)
  <2>1. ASSUME NEW r \in Verdict, Over(c, r), UNCHANGED faults
        PROVE IInv'
    BY <1>1, <1>n, <1>3, <2>1, OverInv DEF Reply, Verdict
  <2>2. CASE Fault /\ Over(c, "failed")
    BY <1>1, <1>n, <1>f, <1>3, <2>2, OverInv DEF Reply
  <2> QED BY <1>3, <2>1, <2>2 DEF Reply
<1>4. CASE JobStarts(c)
  BY <1>4, MoveInv DEF JobStarts
<1>5. CASE DoResolve(c)
  <2>1. CASE "ok" \in Verdict /\ To(c, "addresses") /\ UNCHANGED <<result, freed, faults>>
    BY <1>1, <1>n, <1>5, <2>1, MoveInv DEF DoResolve, Verdict
  <2>2. CASE "failed" \in Verdict /\ Over(c, "failed") /\ UNCHANGED faults
    BY <1>1, <1>n, <1>5, <2>2, OverInv DEF DoResolve, Verdict
  <2>3. CASE Fault /\ Over(c, "failed")
    BY <1>1, <1>n, <1>f, <1>5, <2>3, OverInv DEF DoResolve
  <2> QED BY <1>5, <2>1, <2>2, <2>3 DEF DoResolve
<1>6. CASE GetAddresses(c)
  BY <1>1, <1>n, <1>6, OverInv DEF GetAddresses
<1> QED BY <1>2, <1>3, <1>4, <1>5, <1>6 DEF NativeStep

(* The service stops responding, or responds again, during the waiting calls. *)
LEMMA ChangeInv == IInv /\ Change => IInv'
<1> SUFFICES ASSUME IInv, Change PROVE IInv'
  OBVIOUS
<1>1. UNCHANGED <<platform, call, timed, expired, stage, result, freed, faults>>
  BY DEF Change, caller, native
<1>2. /\ met' \in [Calls -> SUBSET BOOLEAN]
      /\ \A d \in Calls : met'[d] = IF call[d] = "waiting" THEN BOOLEAN ELSE met[d]
  BY DEF Change, IInv, TypeOK
<1>3. alive' \in BOOLEAN /\ churn' \in 0..MaxChurn
  BY ResolveConstantsOK DEF Change, IInv, TypeOK
<1>4. TypeOK'
  BY <1>1, <1>2, <1>3 DEF IInv, TypeOK
<1>5. CallInv'
  BY <1>1, <1>2, <1>3 DEF IInv, CallInv, CallOK
<1>6. FreedInv'
  BY <1>1 DEF IInv, FreedInv
<1> QED BY <1>4, <1>5, <1>6 DEF IInv

(* Every step keeps the invariant. *)
LEMMA NextInv == IInv /\ [Next]_vars => IInv'
<1> SUFFICES ASSUME IInv, [Next]_vars PROVE IInv'
  OBVIOUS
<1>1. ASSUME NEW c \in Calls, Begin(c) PROVE IInv'
  BY <1>1, BeginInv
<1>2. ASSUME NEW c \in Calls, CallerStep(c) \/ Abandon(c) PROVE IInv'
  BY <1>2, CallerInv
<1>3. ASSUME NEW c \in Calls, NativeStep(c) PROVE IInv'
  BY <1>3, NativeInv
<1>4. CASE Change
  BY <1>4, ChangeInv
<1>5. CASE UNCHANGED vars
  <2>1. UNCHANGED <<platform, call, timed, expired, stage, result, freed, alive, met, churn, faults>>
    BY <1>5 DEF vars, caller, native, world
  <2>2. TypeOK' /\ FreedInv'
    BY <2>1 DEF IInv, TypeOK, FreedInv
  <2>3. CallInv'
    BY <2>1 DEF IInv, CallInv, CallOK
  <2> QED BY <2>2, <2>3 DEF IInv
<1> QED BY <1>1, <1>2, <1>3, <1>4, <1>5 DEF Next

(* The invariant holds throughout. *)
LEMMA Invariance == Spec => []IInv
BY InitInv, NextInv, PTL DEF Spec

-----------------------------------------------------------------------------
(* The state of the calls of resolve() is well typed: what the platform    *)
(* hands to a future is an answer of resolve_once.                         *)
THEOREM ResolveTypeCorrect == Spec => []TypeOK
<1>1. IInv => TypeOK BY DEF IInv
<1> QED BY <1>1, Invariance, PTL

(* Windows: the context of a request is freed exactly once, by the         *)
(* callback or by the refusal in resolve_once, however its caller ends.    *)
THEOREM ContextFreedOnce == Spec => []ReclaimedOnce
<1>1. IInv => ReclaimedOnce BY DEF IInv, FreedInv, ReclaimedOnce
<1> QED BY <1>1, Invariance, PTL

-----------------------------------------------------------------------------
(* The probe starts where the calls do. *)
LEMMA ProbeInit == Init => P!Init
BY DEF Init, P!Init

(* An end the caller may meet is one the probe allows. *)
LEMMA ProbeCaller ==
  ASSUME IInv, NEW c \in Calls, CallerStep(c) \/ Abandon(c)
  PROVE [P!Next]_P!vars
<1>1. call[c] = "waiting" /\ UNCHANGED <<timed, alive, met, faults>>
  BY DEF CallerStep, Answered, Elapse, TimesOut, Abandon, world
<1>2. CASE Answered(c)
  <2>1. result[c] \in Outcomes /\ CallOK(c)
    BY <1>2 DEF Answered, IInv, TypeOK, CallInv
  <2>2. /\ result[c] = "ok" => TRUE \in met[c]
        /\ result[c] = "failed" => FALSE \in met[c] \/ faults > 0
        /\ result[c] = "unavailable" => faults > 0
        /\ result[c] # "timeout"
    BY <2>1 DEF CallOK, Outcomes
  <2>3. P!End(c)
    BY <1>1, <1>2, <2>1, <2>2 DEF Answered, P!End, Outcomes
  <2> QED BY <2>3 DEF P!Next
<1>3. CASE Elapse(c)
  BY <1>1, <1>3 DEF Elapse, P!vars
<1>4. CASE TimesOut(c)
  <2>1. timed[c]
    BY <1>4 DEF TimesOut, GivesUp, IInv, CallInv, CallOK
  <2>2. P!End(c)
    BY <1>1, <1>4, <2>1 DEF TimesOut, P!End
  <2> QED BY <2>2 DEF P!Next
<1>5. CASE Abandon(c)
  <2>1. P!End(c)
    BY <1>1, <1>5 DEF Abandon, P!End
  <2> QED BY <2>1 DEF P!Next
<1> QED BY <1>2, <1>3, <1>4, <1>5 DEF CallerStep

(* What the platform does meanwhile is trouble at most. *)
LEMMA ProbeNative ==
  ASSUME IInv, NEW c \in Calls, NativeStep(c)
  PROVE [P!Next]_P!vars
<1>1. UNCHANGED <<alive, call, timed, met>>
  BY DEF NativeStep, Connect, Reply, JobStarts, DoResolve, GetAddresses, caller, world
<1>2. UNCHANGED faults \/ Fault
  BY DEF NativeStep, Connect, Reply, JobStarts, DoResolve, GetAddresses
<1>3. CASE UNCHANGED faults
  BY <1>1, <1>3 DEF P!vars
<1>4. CASE Fault
  <2>1. (faults > 0)' = TRUE
    BY <1>4, Faults DEF IInv, TypeOK
  <2> QED BY <1>1, <2>1 DEF P!Next, P!Trouble
<1> QED BY <1>2, <1>3, <1>4

(* Every step of the calls is one of the probe, or none. *)
LEMMA ProbeNext == IInv /\ [Next]_vars => [P!Next]_P!vars
<1> SUFFICES ASSUME IInv, [Next]_vars PROVE [P!Next]_P!vars
  OBVIOUS
<1>1. ASSUME NEW c \in Calls, Begin(c) PROVE [P!Next]_P!vars
  <2>1. /\ call[c] = "idle"
        /\ call' = [call EXCEPT ![c] = "waiting"]
        /\ \E b \in BOOLEAN : timed' = [timed EXCEPT ![c] = b]
        /\ met' = [met EXCEPT ![c] = {alive}]
        /\ UNCHANGED alive
    BY <1>1 DEF Begin
  <2>2. UNCHANGED faults \/ Fault
    BY <1>1 DEF Begin
  <2>3. (faults > 0)' = (faults > 0) \/ (faults > 0)' = TRUE
    BY <2>2, Faults DEF IInv, TypeOK
  <2>4. P!Begin(c)
    BY <2>1, <2>3 DEF P!Begin
  <2> QED BY <2>4 DEF P!Next
<1>2. ASSUME NEW c \in Calls, CallerStep(c) \/ Abandon(c) PROVE [P!Next]_P!vars
  BY <1>2, ProbeCaller
<1>3. ASSUME NEW c \in Calls, NativeStep(c) PROVE [P!Next]_P!vars
  BY <1>3, ProbeNative
<1>4. CASE Change
  BY <1>4 DEF Change, caller, native, P!Next, P!Change
<1>5. CASE UNCHANGED vars
  BY <1>5 DEF vars, caller, native, world, P!vars
<1> QED BY <1>1, <1>2, <1>3, <1>4, <1>5 DEF Next

(* resolve() over any of the three resolve_once is a probe: its answer was *)
(* true during the call, and nothing that comes later changes it.          *)
THEOREM ResolveIsAProbe == Spec => ProbeRefinement
BY ProbeInit, Invariance, ProbeNext, PTL DEF Spec, ProbeRefinement, P!Safety
=============================================================================
