------------------------------ MODULE Identity ------------------------------
(***************************************************************************)
(* The identity of a service (name, type, domain, interface) on its way    *)
(* through the crate: from the request to the native browse, through the   *)
(* meta-query where all types are asked for, into the Found and Removed    *)
(* events, and from an event back into resolve().                          *)
(*                                                                         *)
(* A string is a sequence of tokens: labels and dots. An instance name is  *)
(* one DNS label but may hold any token, dots included.                    *)
(*                                                                         *)
(* A definition D_X is a variant of D with a bug, for mutation runs only.  *)
(***************************************************************************)
EXTENDS Integers, FiniteSets, SequencesExt

CONSTANTS
  Tokens,        (* labels, and the dot                                    *)
  Dot,
  Names,         (* instance names, sequences of tokens                    *)
  Types,         (* service types, pairs of labels                         *)
  Domains,       (* domains, sequences of labels                           *)
  Width,         (* bits of an interface index: 32                         *)
  Unset

ASSUME IdentityConstantsOK ==
  /\ Dot \in Tokens /\ Names \subseteq Seq(Tokens)
  /\ \A t \in Types : t \in Seq(Tokens \ {Dot}) /\ Len(t) = 2
  /\ \A d \in Domains : d \in Seq(Tokens \ {Dot}) /\ Len(d) > 0
  /\ Width \in Nat \ {0} /\ 2 ^ (Width - 1) \in Nat \ {0}
  /\ Unset \notin [name : Seq(Tokens), ifc : Int]

Indices == 0..(2 ^ Width - 1)   (* u32; 0 is no index                      *)
I32Max == 2 ^ (Width - 1) - 1
Unspec == -1                    (* AVAHI_IF_UNSPEC                         *)

VARIABLES
  platform, (* "linux", "macos" or "windows"                               *)
  asked,    (* the builder: all types or one, and the interface or 0       *)
  svc,      (* the service: name, type, domain, and its interface as the   *)
            (* daemon numbers it                                           *)
  stage,    (* "idle", "refused", "meta", "browse", "found", "removed",    *)
            (* "probed"                                                    *)
  browse,   (* what the native browse is given                             *)
  event,    (* the Found                                                   *)
  removed,  (* the Removed                                                 *)
  query     (* what resolve() gives the native API                         *)

idVars == <<platform, asked, svc, stage, browse, event, removed, query>>

-----------------------------------------------------------------------------
(* Strings.                                                                *)

JoinParts(ps) == FlattenSeq([k \in DOMAIN ps |-> IF k = 1 THEN ps[k] ELSE <<Dot>> \o ps[k]])
Join(labels) == JoinParts([k \in DOMAIN labels |-> <<labels[k]>>])

Dots(s) == {k \in DOMAIN s : s[k] = Dot}

(* split('.'): what lies between two cuts, Nth(k) being the cut after k. *)
SplitDots(s) ==
  LET cuts == {0, Len(s) + 1} \cup Dots(s)
      Nth(k) == CHOOSE c \in cuts : Cardinality({b \in cuts : b < c}) = k
  IN  [k \in 1..(Cardinality(cuts) - 1) |-> SubSeq(s, Nth(k - 1) + 1, Nth(k) - 1)]

(* trim_end_matches('.') and trim_start_matches('.') *)
TrimDot(s) == SubSeq(s, 1, Max({0} \cup (DOMAIN s \ Dots(s))))
TrimStart(s) == SubSeq(s, Min({Len(s) + 1} \cup (DOMAIN s \ Dots(s))), Len(s))

(* The daemons write a name with a final dot, the root in several ways. *)
Absolute(labels) == IF labels = <<>> THEN {<<>>, <<Dot>>, <<Dot, Dot>>} ELSE {Join(labels) \o <<Dot>>}
Spelled(labels) == {Join(labels)} \cup Absolute(labels)

TypeText == Join(svc.type)
DomainText == Join(svc.domain)
FullName == JoinParts(<<svc.name, TypeText, DomainText>>)

-----------------------------------------------------------------------------
(* Interfaces.                                                             *)

(* `as i32` *)
AsI32(n) == IF n > I32Max THEN n - 2 ^ Width ELSE n

(* interface_to_avahi *)
Refused_Never(n) == FALSE
Refused(n) == platform = "linux" /\ n > I32Max
Native(n) == IF platform # "linux" THEN n ELSE IF n = 0 THEN Unspec ELSE AsI32(n)

(* avahi_interface_to_index; NonZeroU32::new elsewhere *)
ToIndex(n) == IF n > 0 THEN n ELSE 0

(* What the daemons may say of the interface of a service. *)
DaemonIndices == IF platform = "linux" THEN Unspec..I32Max ELSE Indices

(* The interface a native index n stands for: any of them, or that one. *)
Restricted(n, m) == n = m /\ n \notin {0, Unspec}
Anywhere(n) == n = IF platform = "linux" THEN Unspec ELSE 0

-----------------------------------------------------------------------------
IdInit ==
  /\ platform \in {"linux", "macos", "windows"}
  /\ asked \in [all : BOOLEAN, ifc : Indices]
  /\ svc \in [name : Names, type : Types, domain : Domains, ifc : DaemonIndices]
  /\ asked.ifc \in DaemonIndices \ {0} => svc.ifc = asked.ifc
  /\ stage = "idle"
  /\ browse = Unset /\ event = Unset /\ removed = Unset /\ query = Unset

Browse(q, t, d) ==
  browse' = [query |-> q, type |-> t, domain |-> d, ifc |-> Native(asked.ifc)]

(* browse_start: the builder names the type and the domain. *)
Ask ==
  /\ stage = "idle"
  /\ IF Refused(asked.ifc) THEN stage' = "refused" /\ UNCHANGED browse
     ELSE IF asked.all THEN stage' = "meta" /\ UNCHANGED browse
     ELSE stage' = "browse" /\ Browse(JoinParts(<<TypeText, DomainText>>), TypeText, DomainText)
  /\ UNCHANGED <<platform, asked, svc, event, removed, query>>

(* meta_reply_to_type_and_domain *)
Rejoin_ReplyDomain(name, regtype, replyDomain) ==
  [type |-> TrimDot(JoinParts(<<name, SplitDots(regtype)[1]>>)), domain |-> TrimDot(replyDomain)]
Rejoin(name, regtype, replyDomain) ==
  LET head == JoinParts(<<name, regtype>>)
      suffix == TrimStart(replyDomain)
      glued == IF suffix = <<>> THEN head
               ELSE (IF head[Len(head)] = Dot THEN head ELSE head \o <<Dot>>) \o suffix
      labels == SplitDots(TrimDot(glued))
  IN  [type |-> JoinParts(SubSeq(labels, 1, 2)), domain |-> JoinParts(SubSeq(labels, 3, Len(labels)))]

(* handle_ptr: the last label is the domain. *)
CutLast(target) ==
  LET d == Max(Dots(target))
  IN  [type |-> SubSeq(target, 1, d - 1), domain |-> SubSeq(target, d + 1, Len(target))]

(* mDNSResponder splits the type as if it were an instance: one label,     *)
(* two labels, and the rest.                                               *)
MetaReply ==
  /\ stage = "meta"
  /\ LET labels == svc.type \o svc.domain
     IN  \/ /\ platform = "linux"
            /\ Browse(Join(labels), TypeText, DomainText)
         \/ /\ platform = "macos"
            /\ \E reg \in Spelled(SubSeq(labels, 2, 3)), rest \in Absolute(SubSeq(labels, 4, Len(labels))) :
                 LET r == Rejoin(<<labels[1]>>, reg, rest)
                 IN  Browse(JoinParts(<<r.type, r.domain>>), r.type, r.domain)
         \/ /\ platform = "windows"
            /\ \E target \in Spelled(labels) :
                 LET r == CutLast(TrimDot(target)) IN Browse(TrimDot(target), r.type, r.domain)
  /\ stage' = "browse"
  /\ UNCHANGED <<platform, asked, svc, event, removed, query>>

(* instance_label: strip ".<type>.<domain>" if it is there. *)
InstanceLabel_First(full, t, d) == SplitDots(full)[1]
InstanceLabel(full, t, d) ==
  LET suffix == <<Dot>> \o JoinParts(<<t, d>>)
  IN  IF IsSuffix(suffix, full) THEN SubSeq(full, 1, Len(full) - Len(suffix)) ELSE full

(* The identity in an event; macOS trims what the daemon wrote. *)
Ident(n, t, d) == [name |-> n, type |-> t, domain |-> d, ifc |-> ToIndex(svc.ifc)]
Trimmed(n, t, d) == Ident(n, TrimDot(t), TrimDot(d))

(* resolved_to_service, resolve_service, build_service *)
Found ==
  /\ stage = "browse"
  /\ \/ platform = "linux" /\ event' = Ident(svc.name, TypeText, DomainText)
     \/ /\ platform = "macos"
        /\ \E t \in Absolute(svc.type), d \in Absolute(svc.domain) : event' = Trimmed(svc.name, t, d)
     \/ /\ platform = "windows"
        /\ event' = Ident(InstanceLabel(FullName, browse.type, browse.domain), browse.type, browse.domain)
  /\ stage' = "found"
  /\ UNCHANGED <<platform, asked, svc, browse, removed, query>>

(* A browse callback without FLAGS_ADD. *)
RemovedService(n, t, d) == Trimmed(n, t, d)

(* Windows reports no removal. *)
Removed ==
  /\ stage = "found"
  /\ \/ platform = "linux" /\ removed' = Ident(svc.name, TypeText, DomainText)
     \/ /\ platform = "macos"
        /\ \E t \in Absolute(svc.type), d \in Absolute(svc.domain) : removed' = RemovedService(svc.name, t, d)
  /\ stage' = "removed"
  /\ UNCHANGED <<platform, asked, svc, browse, event, query>>

(* The name resolve() asks for: the parts of the event joined again. *)
QueryName_NoDomain(e) == JoinParts(<<e.name, e.type>>)
QueryName(e) == JoinParts(<<e.name, e.type, e.domain>>)

(* ServiceResolverBuilder with the fields of an event. *)
Probe ==
  /\ stage \in {"found", "removed"}
  /\ query' = IF Refused(event.ifc) THEN Unset ELSE [name |-> QueryName(event), ifc |-> Native(event.ifc)]
  /\ stage' = "probed"
  /\ UNCHANGED <<platform, asked, svc, browse, event, removed>>

Settled == stage \in {"refused", "probed"} /\ UNCHANGED idVars

IdNext == Ask \/ MetaReply \/ Found \/ Removed \/ Probe \/ Settled

IdSpec == IdInit /\ [][IdNext]_idVars

-----------------------------------------------------------------------------
(* A browse for one interface never becomes a browse for all, nor for      *)
(* another one: an index beyond i32 is refused rather than cast to one of  *)
(* Avahi's negative values.                                                *)
NeverWidened ==
  browse # Unset =>
    IF asked.ifc = 0 THEN Anywhere(browse.ifc) ELSE Restricted(browse.ifc, asked.ifc)

(* What the meta-query finds is browsed under its own type and in its own  *)
(* domain, however many labels that has and however the daemon spells the  *)
(* root; Windows sends the name as a whole.                                *)
BrowsesWhatWasAnnounced ==
  browse # Unset =>
    /\ browse.query = JoinParts(<<TypeText, DomainText>>)
    /\ platform # "windows" => browse.type = TypeText /\ browse.domain = DomainText

(* An event names the service: the instance as it was announced, with its  *)
(* dots, and its type and domain; and a Removed has the identity of the    *)
(* Found it takes back. On Windows a type found by the meta-query is in a  *)
(* domain of one label.                                                    *)
EventsNameService ==
  \A e \in {event, removed} \ {Unset} :
    /\ e.name = svc.name /\ e.ifc = event.ifc
    /\ (platform = "windows" /\ asked.all => Len(svc.domain) = 1) =>
          e.type = TypeText /\ e.domain = DomainText

(* The fields of an event, given to ServiceResolverBuilder, lead back to   *)
(* the same service, on its interface if that is known, and are never      *)
(* refused.                                                                *)
ProbeReachesService ==
  stage = "probed" =>
    /\ query # Unset /\ query.name = FullName
    /\ IF svc.ifc > 0 THEN query.ifc = svc.ifc ELSE Anywhere(query.ifc)
=============================================================================
