------------------------------ MODULE Resolve ------------------------------
(***************************************************************************)
(* ServiceResolverBuilder::resolve (src/browse.rs) over the resolve_once   *)
(* of each platform, for concurrent calls that resolve one instance.       *)
(*                                                                         *)
(*   linux    the future owns its D-Bus connection: dropped together       *)
(*   macos    the future waits for a job on tokio's blocking pool, which   *)
(*            nothing cancels                                              *)
(*   windows  the DNS client owns the ResolveOnceContext from the request  *)
(*            to the callback, which frees it                              *)
(*                                                                         *)
(* tokio's timeout polls the call before it looks at its deadline, and     *)
(* drops it when it gives up.                                              *)
(*                                                                         *)
(* A definition D_X is a variant of D with a bug, for mutation runs only.  *)
(***************************************************************************)
EXTENDS Naturals, FiniteSets

CONSTANTS
  Calls,     (* calls of resolve()                                         *)
  None,      (* no result yet                                              *)
  PoolSize,  (* threads of the blocking pool                               *)
  MaxChurn,  (* bound: how often the service stops or starts responding    *)
  MaxFaults  (* bound: failures of D-Bus, the daemons and the DNS client   *)

ASSUME ResolveConstantsOK ==
  /\ IsFiniteSet(Calls)
  /\ None \notin {"ok", "failed", "unavailable"}
  /\ PoolSize \in Nat \ {0} /\ MaxChurn \in Nat /\ MaxFaults \in Nat

VARIABLES
  platform, (* "linux", "macos" or "windows"                               *)
  call,     (* the caller's side: "idle", "waiting", or how it ended       *)
  timed,    (* the builder has a timeout                                   *)
  expired,  (* ... which has elapsed                                       *)
  stage,    (* the platform's side: "none", "connect", "asked", "queued",  *)
            (* "resolve", "addresses", "over"                              *)
  result,   (* what that side has handed to the future                     *)
  freed,    (* how often the context of the request was freed              *)
  alive,    (* the service responds                                        *)
  met,      (* the values of `alive` during the call                       *)
  churn,    (* changes of `alive` so far                                   *)
  faults    (* failures injected so far                                    *)

caller == <<call, timed, expired>>
native == <<stage, result, freed>>
world == <<alive, met, churn>>
vars == <<platform, caller, native, world, faults>>

Init ==
  /\ platform \in {"linux", "macos", "windows"}
  /\ call = [c \in Calls |-> "idle"]
  /\ timed = [c \in Calls |-> FALSE]
  /\ expired = [c \in Calls |-> FALSE]
  /\ stage = [c \in Calls |-> "none"]
  /\ result = [c \in Calls |-> None]
  /\ freed = [c \in Calls |-> 0]
  /\ alive \in BOOLEAN
  /\ met = [c \in Calls |-> {}]
  /\ churn = 0
  /\ faults = 0

-----------------------------------------------------------------------------
Fault == faults < MaxFaults /\ faults' = faults + 1

To(c, s) == stage' = [stage EXCEPT ![c] = s]

(* Box::from_raw, at the end of a request. *)
Reclaim(c) ==
  freed' = IF platform = "windows" THEN [freed EXCEPT ![c] = @ + 1] ELSE freed

(* A result for a future that is gone is discarded. *)
HandOver(c, r) ==
  result' = IF call[c] = "waiting" THEN [result EXCEPT ![c] = r] ELSE result

Over(c, r) == To(c, "over") /\ HandOver(c, r) /\ Reclaim(c)

(* DnsServiceResolve refuses: no callback will come, so the context is     *)
(* reclaimed on the spot.                                                  *)
Refused_Leaks(c) ==
  To(c, "over") /\ result' = [result EXCEPT ![c] = "failed"] /\ UNCHANGED freed
Refused(c) ==
  /\ To(c, "over")
  /\ result' = [result EXCEPT ![c] = "failed"]
  /\ Reclaim(c)

-----------------------------------------------------------------------------
(* The caller.                                                             *)

Begin(c) ==
  /\ call[c] = "idle"
  /\ call' = [call EXCEPT ![c] = "waiting"]
  /\ \E b \in BOOLEAN : timed' = [timed EXCEPT ![c] = b]
  /\ met' = [met EXCEPT ![c] = {alive}]
  /\ \/ platform = "linux" /\ To(c, "connect") /\ UNCHANGED <<result, freed, faults>>
     \/ platform = "macos" /\ To(c, "queued") /\ UNCHANGED <<result, freed, faults>>
     \/ platform = "windows" /\ To(c, "asked") /\ UNCHANGED <<result, freed, faults>>
     \/ platform = "windows" /\ Fault /\ Refused(c)
  /\ UNCHANGED <<platform, expired, alive, churn>>

(* The future is dropped: on Linux its connection goes with it. *)
DropFuture(c) ==
  /\ stage' = IF platform = "linux" THEN [stage EXCEPT ![c] = "over"] ELSE stage
  /\ UNCHANGED <<result, freed>>

Answered(c) ==
  /\ call[c] = "waiting"
  /\ result[c] # None
  /\ call' = [call EXCEPT ![c] = result[c]]
  /\ UNCHANGED <<platform, timed, expired, native, world, faults>>

Elapse(c) ==
  /\ call[c] = "waiting"
  /\ timed[c] /\ ~expired[c]
  /\ expired' = [expired EXCEPT ![c] = TRUE]
  /\ UNCHANGED <<platform, call, timed, native, world, faults>>

(* tokio::time::timeout gives up. *)
GivesUp_Never(c) == FALSE
GivesUp(c) == expired[c] /\ result[c] = None

TimesOut(c) ==
  /\ call[c] = "waiting"
  /\ GivesUp(c)
  /\ call' = [call EXCEPT ![c] = "timeout"]
  /\ DropFuture(c)
  /\ UNCHANGED <<platform, timed, expired, world, faults>>

Abandon(c) ==
  /\ call[c] = "waiting"
  /\ call' = [call EXCEPT ![c] = "dropped"]
  /\ DropFuture(c)
  /\ UNCHANGED <<platform, timed, expired, world, faults>>

-----------------------------------------------------------------------------
(* The platform.                                                           *)

(* What a wait for the service comes back with: its data while it          *)
(* responds, and the end of the wait as a failure when it does not. The    *)
(* daemon's answer is assumed to be true at some moment of the call, never *)
(* one from a stale cache.                                                 *)
Verdict_Unchecked == {"ok"}
Verdict_WaitsForEver == IF alive THEN {"ok"} ELSE {}
Verdict == IF alive THEN {"ok"} ELSE {"failed"}

(* Linux: the system bus, Avahi's proxy. *)
Connect(c) ==
  /\ stage[c] = "connect"
  /\ \/ To(c, "asked") /\ UNCHANGED <<result, freed, faults>>
     \/ Fault /\ Over(c, "unavailable")
  /\ UNCHANGED <<platform, caller, world>>

(* Linux: the reply to ResolveService.  Windows: resolve_once_callback. *)
Reply(c) ==
  /\ stage[c] = "asked"
  /\ \/ \E r \in Verdict : Over(c, r) /\ UNCHANGED faults
     \/ Fault /\ Over(c, "failed")
  /\ UNCHANGED <<platform, caller, world>>

(* macOS: the job waits for a thread, whether or not its caller still      *)
(* waits for the job.                                                      *)
Running == {c \in Calls : stage[c] \in {"resolve", "addresses"}}

JobStarts(c) ==
  /\ stage[c] = "queued"
  /\ Cardinality(Running) < PoolSize
  /\ To(c, "resolve")
  /\ UNCHANGED <<platform, caller, result, freed, world, faults>>

(* do_resolve. *)
DoResolve(c) ==
  /\ stage[c] = "resolve"
  /\ \/ "ok" \in Verdict /\ To(c, "addresses") /\ UNCHANGED <<result, freed, faults>>
     \/ "failed" \in Verdict /\ Over(c, "failed") /\ UNCHANGED faults
     \/ Fault /\ Over(c, "failed")
  /\ UNCHANGED <<platform, caller, world>>

(* get_addresses comes back within its budget, maybe with no address. *)
GetAddresses(c) ==
  /\ stage[c] = "addresses"
  /\ Over(c, "ok")
  /\ UNCHANGED <<platform, caller, world, faults>>

(* The service stops responding, or responds again. *)
Change ==
  /\ churn < MaxChurn
  /\ churn' = churn + 1
  /\ alive' = ~alive
  /\ met' = [c \in Calls |-> IF call[c] = "waiting" THEN BOOLEAN ELSE met[c]]
  /\ UNCHANGED <<platform, caller, native, faults>>

-----------------------------------------------------------------------------
CallerStep(c) == Answered(c) \/ Elapse(c) \/ TimesOut(c)

NativeStep(c) ==
  Connect(c) \/ Reply(c) \/ JobStarts(c) \/ DoResolve(c) \/ GetAddresses(c)

Next ==
  \/ \E c \in Calls : Begin(c) \/ Abandon(c) \/ CallerStep(c) \/ NativeStep(c)
  \/ Change

Spec == Init /\ [][Next]_vars

(* The runtime polls the caller and its timer; a D-Bus call is answered or *)
(* fails, and every wait of a blocking job ends.  Nothing bounds the DNS   *)
(* client of Windows.                                                      *)
Fairness ==
  \A c \in Calls :
    /\ WF_vars(CallerStep(c))
    /\ WF_vars(platform # "windows" /\ NativeStep(c))

FairSpec == Spec /\ Fairness

-----------------------------------------------------------------------------
Outcomes == {"ok", "failed", "unavailable"}

(* Type correctness of the two sides of every call.                        *)
TypeOK ==
  /\ platform \in {"linux", "macos", "windows"}
  /\ call \in [Calls -> Outcomes \cup {"idle", "waiting", "timeout", "dropped"}]
  /\ timed \in [Calls -> BOOLEAN] /\ expired \in [Calls -> BOOLEAN]
  /\ stage \in [Calls -> {"none", "connect", "asked", "queued", "resolve", "addresses",
                          "over"}]
  /\ result \in [Calls -> Outcomes \cup {None}]
  /\ freed \in [Calls -> Nat]
  /\ alive \in BOOLEAN
  /\ met \in [Calls -> SUBSET BOOLEAN]
  /\ churn \in 0..MaxChurn
  /\ faults \in 0..MaxFaults

(* Windows: the ResolveOnceContext behind the raw pointer is freed exactly *)
(* once, by the callback or, if none will come, by resolve_once, whenever  *)
(* the caller gives up; until then the DNS client may use it.              *)
ReclaimedOnce ==
  \A c \in Calls :
    platform = "windows" => freed[c] = IF stage[c] = "over" THEN 1 ELSE 0

P == INSTANCE Probe WITH trouble <- (faults > 0)

(* The three resolve_once and the timeout implement the probe: an answer   *)
(* comes from this call and was true during it, and nothing that arrives   *)
(* late changes it.                                                        *)
ProbeRefinement == P!Safety

(* A call ends, by itself or by its timeout; on Windows only the timeout   *)
(* guarantees it (resolve: "rather than hanging").                         *)
CallsEnd ==
  \A c \in Calls :
    call[c] = "waiting" /\ (platform # "windows" \/ timed[c]) ~> call[c] # "waiting"

(* What a call started on Linux or macOS is over in the end, also when its *)
(* caller gave it up.                                                      *)
WorkEnds ==
  \A c \in Calls : platform # "windows" /\ stage[c] # "none" ~> stage[c] = "over"
=============================================================================
