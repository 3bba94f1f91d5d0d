# Verification of mdns_sd_discovery

TLA+ models of the crate, TLC runs over small instances of them, and TLAPS
proofs. Paths such as `linux/browse.rs` are relative to the crate's `src/`.

The crate discovers DNS-SD services through the platform's own stack: Avahi over
D-Bus on Linux and the BSDs, `dns_sd.h` on macOS, the DNS client API on Windows.
`ServiceBrowserBuilder::browse()` starts a browse and returns a `ServiceBrowser`;
`recv()` yields `Found`, `Removed` and errors until the browse is over or the
handle is dropped. The three back-ends share that interface and nothing else:
one is a tree of tokio tasks, one a thread with blocking jobs, one a set of
callbacks around a reference-counted registry.

## Inventory

| component | state it keeps | operations | interacts with | hard because | correct when |
|---|---|---|---|---|---|
| public API (`browse.rs`) | builder settings; receiver and guard | `browse`, `recv`, drop | back-ends through the channel and the guard | fields drop in order, receiver first; `None` depends on every clone of the sender | no event is lost, reordered or follows `None`; a drop stops everything |
| Linux browse (`linux/browse.rs`) | per task: place in its future, signals queued, handles of the tasks it spawned; `seen` types | `browse_start`, `browse_all_types`, `browse_one_type`, `resolve_and_emit`, guard and `AbortOnDrop` | Avahi by D-Bus calls and signals; tasks by spawn and abort | interleaved tasks, abort in mid-poll, connection loss, signals before the browser exists | nothing escapes the abort cascade; services that stay are found; one browse per type |
| macOS browse (`macos/browse.rs`) | pump position, connection, operations, `seen`, `pending`, stop flag, queued resolves | `run_pump`, `pump_loop`, callbacks, `resolve_service`, teardown | mDNSResponder by socket; blocking pool; consumer by channel and flag | release order on every early return, no re-entrance, resolves that outlive the pump | nothing is used after release; no type is browsed twice or forgotten; errors precede the end |
| Windows browse (`windows/browse.rs`) | registry with owners, one context per operation with its `seen`, pending resolves | `browse_start`, `browse_callback`, `handle_ptr`, `start_resolve`, drops | DNS client by callbacks on its threads | registration racing the drop, last owner inside a callback | no operation outlives the browser; contexts outlive their use |
| one-shot resolve (`resolve`, `resolve_once` x3) | one pending call | resolve with timeout | platform stack | timeout racing the answer | one result, nothing leaked |
| macOS lookup | `ResolveResult`, `AddrResult`, deadline, the open `DNSServiceRef` | `do_resolve`, `get_addresses`, `process_once`, their callbacks | mDNSResponder by socket; called by browse and by `resolve` | bursts of replies, deadline in slices, callbacks that write to a local | comes back in time, with nothing open, and with the newest data |
| TXT records | position in the buffer, records | `parse_txt_entry`, `parse_txt_buffer`, `read_txt`, `txt` | back-ends | framing comes off the wire; three sources of records | stays in its buffer, reads what was packed, answers a key alike everywhere |
| names | - | `trim_dot`, `meta_reply_to_type_and_domain`, `instance_label`, split of a meta target | requests, events, `resolve` | names with dots, domains of several labels, spellings of the root | an event names the service and leads back to it |
| interface indices | - | `interface_to_avahi`, `avahi_interface_to_index` | requests, events, `resolve` | Avahi's signed index with special values | one interface never becomes all |
| `linux/dbus.rs`, `macos/ffi.rs` | - | generated clients, foreign declarations | - | - | - |

`PROJECT.json` lists the hazards one by one, each at its line, with the
properties that would catch it going wrong.

## Modules

- `EventStream` is the abstract specification: the stream behind `recv()`. Any
  number of holders own a sender; a step of a holder may send one event and may
  clone and drop senders, but only while some sender exists; the consumer takes
  events in order and is told `None` only when nothing is queued and no sender
  is left. Each back-end implements it under the refinement mapping given at its
  `ES`: `senders` becomes the set of live tasks (or threads and jobs, or contexts
  and resolves), `rx` a function of the handle.
- `EventStreamProofs`: what follows from the stream alone, and so for every
  back-end.
- `LinuxBrowse`: an action is what a task does between two awaits.
  `ConnectAndSubscribe`, `CreateBrowser`, one action per arm of the two signal
  loops, `Free`, `AvahiReply` and `EmitResult` are the code; `Finish` is the drop
  of a future, by return or by `Cancel`, with the aborts of `AbortOnDrop` it
  causes. `abort()` only flags a task (`aborted`); a flagged task may go on until
  it next comes to rest. Avahi is `present`, the items on the network, one queue
  (`inbox`) per D-Bus connection, and `Announce`.
- `LinuxBrowseProofs`: theorems about it.
- `MacBrowse`: an action is one call of the pump into `dns_sd`, or one callback.
  `pump` follows `run_pump` and `pump_loop` with every `?`, then the destructor
  order (`DeallocateOp`, `DeallocateShared`, `DropContexts`); `job` follows each
  resolve through the blocking pool. `DNSServiceProcessResult` may dispatch one
  reply or several before it returns.
- `MacBrowseProofs`: theorems about it.
- `WinBrowse`: an action is one step of the client, of a callback, or of the drop
  of the registry. `owners` is who holds a strong reference, `dropper` who is
  running the destructor after giving up the last one, `entries` the registry.
  Starting an operation and registering it are two steps, and its callback may
  come between them. What a program does after a callback has used a freed
  context is undefined: `dead` records it and the callback is followed no
  further.
- `WinBrowseProofs`: theorems about it.
- `Probe` is the abstract one-shot resolve: a call ends once; `ok` needs a
  moment of the call at which the service responded, a failure needs a moment at
  which it did not, or trouble of the platform; `timeout` needs a timeout.
- `Resolve`: concurrent calls of `resolve()`, each with the caller's side
  (`call`, `timed`, `expired`) and the platform's (`stage`, `result`, `freed`).
  `platform` chooses the `resolve_once`. `DropFuture` is what giving up does: the
  D-Bus connection goes with a Linux call; a blocking job of macOS and a request
  of the Windows DNS client go on. `met` records, for the refinement, whether the
  service responded during the call.
- `ResolveProofs`: theorems about it.
- `MacLookup`: one `do_resolve` followed by `get_addresses`, call by call. Time
  is explicit, since a deadline is the subject: `Tick` passes it while `poll`
  waits, `Preempted` anywhere else. `queue` is what the daemon has written to the
  socket, and one `DNSServiceProcessResult` (`pc = "read"`) may take several
  replies from it. `MacBrowse` and `Resolve` see of all this one step that comes
  back; `LookupEnds` and `BlockingBudget` are what entitles them to it.
- `MacLookupProofs`: theorems about it.
- `TxtRecords`: the loop of `parse_txt_buffer`, one iteration a step, over a
  buffer packed from entries (`sent`), perhaps with one more that is cut short
  (its prefix says more bytes than follow), and the records that Linux and
  Windows make of the same entries. A byte is a small number, so that a length,
  `=` and text can be confused.
- `Identity`: name, type, domain and interface of one service from the request
  through the meta-query and the events back into `resolve()`. A string is a
  sequence of labels and dots. An action is what happens to the identity between
  two exchanges with the daemon; `platform` chooses the back-end.
- `ServiceDataProofs`: theorems about `TxtRecords` and `Identity`.
- `SequenceLemmas`: what the proofs need of sequences: induction, where the parts
  of a concatenation of sequences lie, suffixes, greatest and least elements.
- `MCLinuxBrowse`, `MCMacBrowse`, `MCWinBrowse`, `MCMacLookup`, `MCResolve`,
  `MCServiceData`: the instances TLC checks. The last has `TxtRecords` and
  `Identity` side by side.

A definition `D_Variant` next to `D` is `D` with a plausible bug; no
specification uses it. `PROJECT.json` pairs each checked property with the
variant that violates it.

Abstracted: in the browse modules names, types, domains and interfaces are model
values (`Identity` takes them apart); host names, ports, addresses and TXT data
of a found service are left out there (`MacLookup` and `TxtRecords` have them);
so are the texts of errors and the logging. A service item that an implementation
can tell apart is an element of `Instances`. On Linux an item includes the IP
protocol and the identity the consumer sees does not, hence `Identity` in
`LinuxBrowse`, the map from one to the other.

## Runs

| run | what it shows |
|---|---|
| `linux_browse` | `NoOrphans`, `OneBrowsePerType`, `ResolversRunToCompletion`, and that the tasks implement `EventStream`; services that stay end up `Found`; a drop stops every task; a browse that is over ends its stream |
| `mac_browse` | `CallbacksSafe` (release order), `OneBrowsePerType`, `NoTypeForgotten`, `ErrorBeforeEnd`, and that the pump and its jobs implement `EventStream`; liveness as on Linux, with a blocking pool of one thread; a drop releases the connection and ends the thread |
| `mac_lookup` | a lookup blocks its thread no longer than its two budgets (`BlockingBudget`) and ends whatever the daemon does (`LookupEnds`); nothing is open when the function that its callbacks write to is gone (`ContextOnStack`); the host is the newest reply's, which is no error, and the TXT data the newest any reply brought (`AnswerIsNewest`); only the end of the budget cuts a burst of addresses (`BurstsTakenWhole`) |
| `win_browse` | `NoLeakedBrowse`, `RegistrySound`, `OneBrowsePerType`, `NeverEndsWhileOpen`, and that callbacks and resolves implement `EventStream`; a drop cancels every operation and lets the resolves run out; a service whose only change is to appear ends up `Found` |
| `resolve` | two concurrent `resolve()` calls on each platform implement `Probe`: an answer was true at some moment of the call and nothing late changes it; the Windows context is freed once (`ReclaimedOnce`); calls end, and so does the work behind a call that was given up |
| `service_data` | `parse_txt_buffer` stays in its buffer and finds exactly the entries that were packed, also next to a cut one (`FramingLimits`, `NoBytesLeak`); a key that is not empty is answered alike on the three platforms, and the empty key differs only as stated below (`PlatformsAgree`); a browse for one interface never widens (`NeverWidened`); the meta-query's types are browsed in their own domain (`BrowsesWhatWasAnnounced`); events name the service, match each other, and lead `resolve()` back to it (`EventsNameService`, `ProbeReachesService`) |

Six runs refute what the documentation or a comment says; each is a finding
with its quotation in `PROJECT.json`.

| run | what happens |
|---|---|
| `linux_ghost`, `mac_ghost` | the `Found` of a slow resolve is sent after the `Removed` of the same service, and nothing corrects it |
| `linux_dual_stack` | a service announced over IPv4 and IPv6 is reported `Removed` when one of the two goes |
| `win_context` | the browser is dropped while the meta-query's callback holds the registry: the callback drops the last reference, frees its own context, and handles the next record with it |
| `win_domain` | browsing all types of another domain asks for, and reports, those of `local` |
| `win_reappear` | a service whose resolve failed because it had left is not reported when it is back |

Type correctness is checked in `mac_browse` and `win_browse` and proved for every
back-end and for the lookup and the resolve; `EndedMeansOver` of `LinuxBrowse` is a theorem and part of what the refinement of
`EventStream` says.

The properties that speak of the consumer's picture (`NoGhost`, `NoLostService`,
`PresentEndsFound`, ...) use `view`: what a consumer that applies the events in
order believes of each service.

### Bounds

Each browse run has both kinds of request (one type, all types) as initial states, two
types, and a service of each (`linux_browse`, `mac_browse`) or three services, two
of which share a type (the others): the least for a cascade with two per-type
browses, a batch of two announcements, a type announced again and two services
that compete. `MaxChurn` bounds the changes of the network: two
let a service come and go, three let it come, go and come back or let a second
one appear meanwhile. `MaxFaults` bounds failures: one hits any call at any
moment. The ids of children, resolvers and jobs suffice for every
spawn these bounds allow: a service is resolved once per appearance. Queues are not bounded: they are finite because churn and faults are. A
hazard of the browses takes at most two services, one type repeated, one failure
and a drop; the proofs remove the bounds. `linux_browse` has one item
per identity, which `PresentEndsFound` needs; the proofs of its safety properties
make no such assumption.

`resolve` has two calls and a blocking pool of one thread, so that a call waits
behind one that was given up; two changes of the service let it go and come back
within a call.

`mac_lookup` has a clock of half milliseconds, so that rounding to whole ones
matters, and timeouts of one and two milliseconds: the second lets a wait be cut
in two by a reply. Two replies to an operation are a burst, the second of which may
be late, be an error, bring no TXT data or contradict the first; one unit of lateness and one failure may strike at any call. The proofs
remove these bounds.

`service_data` varies its two parts one at a time, as neither reads the other's
state. Entries have up to three bytes of 0..3, where 2 is `=` and 3 is no UTF-8:
every length prefix is also a byte of text, one of them is `=`, and a prefix may
point up to three bytes past the end. Two entries and a cut one show what leaks
from one to the next. Indices have three bits, all of them enumerated; Avahi's
are the signed ones from -1. Names hold dots, end in one, or look like a full
name; domains have one to three labels. `IdentityConstantsOK` fixes the two
labels of a type (`_http._tcp`). The proofs remove these bounds: any bytes, any
number of entries, any names and domains, indices of any width.

### Fairness

- Linux: every task that can run is polled, an aborted task is dropped, Avahi
  answers each call (a lost connection is an error, hence an answer). That is
  tokio's and zbus's contract. A task blocked in `free()` for ever is outside it.
- macOS: the pump is a thread, its `poll` has a 200 ms timeout; a resolve has
  timeouts of 5 s and 2 s, so the blocking pool makes progress.
- Windows: the DNS client runs its callbacks and completes each resolve. It is
  also assumed that callbacks of one operation do not overlap, that there is none
  after a cancellation, and that a cancellation waits for one that runs on
  another thread: `BrowseEntry`'s comments rely on this.
- `resolve()`: the runtime polls the caller and its timer; D-Bus answers or fails,
  and the waits of a blocking job are bounded. Nothing is assumed of the Windows
  DNS client, so there only a call with a timeout is shown to end (`CallsEnd`),
  and the request itself is not (`WorkEnds` leaves it out).
- `mac_lookup`: the thread runs and time passes while it waits. The daemon need
  not answer.
- The consumer keeps calling `recv()` and finishes a drop it has begun. Nobody
  obliges it to drop the browser, nor the network to change: no fairness on
  those, nor on failures.

`PresentEndsFound` and `AppearanceEndsFound` are stated for behaviours without
failures: the crate documents no retry. On Linux it is checked with one identity
per item, as the dual-stack run shows it to fail otherwise.

Deadlock is checked in every run but `resolve`, which stops when its calls are
over (`CallsEnd` and `WorkEnds` cover it). In the browse runs `Terminated` is the
only state in which nothing need happen: the browser is dropped (or never
started) and nothing is left to run. In the others it is `Returned` (the lookup
has returned), `Parsed` and `Settled`.

## Proofs

`LinuxBrowseProofs` proves, for every finite set of types and items, any sets of
task ids and any bounds (`ConstantsOK`, which only says that the sets are
disjoint where they must be and the maps well typed):

- `TypeCorrect`, `NoTaskEscapes`, `TypesBrowsedOnce`, `NoResolverCut` and
  `NoneIsFinal`: the safety invariants of the module;
- `ImplementsStream`: the refinement of `EventStream`.

`ResolveProofs` proves, for any number of calls, any pool and any bounds
(`ResolveConstantsOK`), `ResolveTypeCorrect`, `ContextFreedOnce`
(`ReclaimedOnce`) and `ResolveIsAProbe` (the refinement of `Probe`). `Verdict`
takes a daemon's answer to have been true at some moment of the call: a daemon that
answers from a stale cache would break the probe, and nothing in the crate could
prevent it. `Probe` lets a call with a timeout time out at any moment; that an answer
already in is not turned into a timeout is tokio's contract (it polls the call
first), which `GivesUp` follows and no property repeats. The
invariant adds to `TypeOK` what ties the two sides of a call: a result in the
hands of a call is one that `met` or `faults` justifies, a call that waits has
met the present state of the service, one whose addresses are being looked up was
resolved during the call, and one not yet begun has no request.

None of the invariants of `LinuxBrowse` is inductive alone. `IInv` is `TypeOK`, `TaskInv` and the
statement about `ended`. `TaskInv` relates the tasks: a task that has not been
started is blank; the inbox of a task holds only signals of its type of browse;
a child browses a type in `seen`, and each type has one; a resolver resolves an
item of a type somebody browses; every started child and resolver is in the
handles of its parent or its parent is over; an aborted task is live, and an
abort comes only from the end of a parent. So `NoOrphans` follows because
handles leave a parent only through pruning, when they are finished, or through
`Finish`, which flags the live ones. `NoResolverCut` follows because the parent
of a resolver of type t is the one task that browses t, and a flag needs that
parent's end. The step lemmas have a case per action, and under it one step per
conjunct the action can disturb.

`MacLookupProofs` proves type correctness and all safety properties of `mac_lookup` for any timeouts,
any clock unit and any number of replies, delays and failures
(`LookupConstantsOK`). Its invariant is `TypeOK`, `ContextOnStack` and three
parts. `TimeInv` says how late it may be at each place of the code:
`BlockingBudget` alone says nothing of the wait a poll is about to begin, nor
that the deadline itself is within the budget. `AnswerInv` ties `ResolveResult`
to the replies taken so far (`taken`), also when the newest was an error and left
older data in place, or brought no TXT data: `resolve_callback` then keeps those
of an earlier reply (macos/browse.rs:522), so that host and TXT data are of one
reply only if every reply brings TXT data, as `AnswerIsNewest` says.
`BurstInv` says that a wait ends less than a millisecond before the deadline,
which is what rounding down costs (lemma `RoundsDown`), and that `done` means the
end of a burst.

`MacBrowseProofs` proves all safety properties of `mac_browse`, the type
invariant and the refinement of `EventStream` included, for any finite sets of
types, services and resolves, any pool and any bounds (`MacConstantsOK`). Its
`IInv` has four parts besides `TypeOK`:

- `PhaseInv` ties the place in `run_pump` to what is open there: connection and
  contexts are alive from the first operation to the teardown, and the operations
  are gone before the connection. `CallbacksSafe` says this of the end only; the
  `?` of every call needs it at that call.
- `QueueInv`: replies of the meta-query come only if it was asked for, so that a
  browse of one type never fills `pending`.
- `BrowseInv`: each type of `seen` is browsed, given up or in `pending`, in one
  place and once. `NoTypeForgotten` is this with an empty `pending`, which is not
  inductive: the loop over a batch is where a type could be lost.
- `EndInv`: the error of a pump that has ended is in the channel or was received.

`WinBrowseProofs` does the same for `win_browse` (`WinConstantsOK`: the sets are
finite and disjoint where they must be). That a context outlives its callback is
refuted by `win_context`; `ContextSafeUntilDrop` proves that this happens only when
all types were asked for and the browser has been dropped (`FreedInv`: a callback
becomes the dropper of the registry only for the meta-query). Besides `TypeOK`:

- `LifeInv`: an operation and its context live and die together.
- `RecordInv`: an operation is told of types or of services, never of both.
- `CascadeInv`: only the callback of the meta-query ever holds the registry, for
  a type that no child browses yet.
- `OwnerInv`: who owns the registry in each state of the handle and of a
  callback; with no owner and no destructor running, the registry is empty. That
  is why a child registered in the middle of a drop is still cancelled: its
  callback is an owner, and the last owner cancels what it finds.
- `EntryInv`: the registry has each running operation once, but for the one
  between its start and its registration. Root and child are in that gap at
  different times, which `RegistrySound` alone does not say.

`EventStreamProofs` proves `NothingFollowsNone` for the abstract stream: after
`None` there is no sender and nothing queued. `MacNoneIsFinal` inherits it through
the refinement; `NoneIsFinal` on Linux is proved directly.

`ServiceDataProofs` proves every property of `service_data`:

- `FramingKept`: from any buffer whatever (`AnyBuffer`, not only packed ones),
  the loop stays in the buffer and pushes at most one record for two bytes. The
  step rests on `SliceIsEntry`: an entry that fits has the length its prefix says.
- `RoundTrip` (`NoBytesLeak`): the records are the packed entries that are not
  empty, one each and in order. `TraceInv` says of the loop: it stands where entry
  n ends, and `f` maps the records to the entries among the first n that are not
  empty. `Framed` says where each entry lies in a packed buffer, and `EndsAt` that
  nothing which fits begins after the last; that the initial buffers are so laid
  out is `FlattenLayout`.
- `SameAnswers` (`PlatformsAgree`): the lists of records differ only by records
  whose key is empty (`Thinned`), so `txt(key)` answers alike for every other key,
  on Windows as long as the entries are plain text: UTF-8 without NUL, where a wide
  string ends (`WideString`). `txt("")` is a legal call and differs: the entry
  `=v` has the value v on Linux and macOS, but `read_txt` skips it, so Windows
  never has a value; and an empty entry before it is a record on Linux, which
  answers with no value, and none on macOS, which finds v. The theorem says that
  these are the only differences.
- `InterfaceKept` (`NeverWidened`): the meta-query runs only for an index that
  was accepted (`IndexInv`), and an accepted index keeps its meaning.
- `MetaTypesBrowsed` (`BrowsesWhatWasAnnounced`): splitting what is joined gives
  the labels back (`SplitJoined`), and what `meta_reply_to_type_and_domain` glues
  together is the announced name up to a final dot (`GluedName`).
- `EventsAreFaithful` (`EventsNameService`) and `EventsCanBeResolved`
  (`ProbeReachesService`), from `IdentInv`: type and domain of a browse and of an
  event, joined, are those of the service, even where Windows cuts them elsewhere;
  so `instance_label` strips what it should (`LabelStripped`) and the joined parts
  are the full name.

Induction over data: the library's induction rules cannot be used with the
installed provers, so `SequenceLemmas` derives one for sets of numbers
(`Induction`) from the least element of a set, which follows from
`WellFoundedInduction`; `FlattenSeq` is unfolded with it. Where the model needed
another form to be reasoned about it was given one: `SplitDots` numbers the cuts
by how many precede them instead of sorting them, `ReadTxt` is a recursive
function, and `NoBytesLeak` names the entry each record comes from.

Assumptions on the constants that are there for proofs alone: `Tokens` in
`Identity` and `NoValue \notin Seq(Bytes)`, `Unset \notin [...]` (a marker is not a
value); `2 ^ (Width - 1) \in Nat \ {0}`, which is arithmetic that the provers do
not know. TLC evaluates them all.

Model-checked only: liveness (the prover has no fairness) and the six
counterexamples.

## Not modelled

D-Bus proxies, foreign declarations and constants have no logic of their own;
the example, the fuzz targets and the mock-Avahi test are clients of the crate.
The builder's setters only store their argument. An entry on the wire has at
most 255 bytes and so cannot outgrow its prefix; the conversions of a socket
address are copies. Also left out: that the handles of finished browses are kept
(linux/browse.rs:225), which no behaviour depends on, and a `free()` that never
answers (345). `Identity` assumes that the builder's domain has no final dot,
the spelling of the events: on Windows `local.` is not trimmed, and
`instance_label` then strips nothing. `MacLookup` has no withdrawn addresses of
their own: `getaddr_callback` does not look at `FLAGS_ADD`, so a withdrawal is a
reply like any other. tokio, zbus, Avahi, mDNSResponder and the Windows DNS
client are modelled only as the source uses them. Poisoned mutexes and names
with an interior NUL are left out: neither can arise from what the platforms
report. An argument of the caller with a NUL is refused before anything is
started, except by a browse on macOS: there `cstring` fails in the pump, after the
connection was opened, which for `MacBrowse` is the failure of that browse.

## Plan

Done: all modules and runs; every safety property of a passing run is a theorem.

Left: nothing that is planned; liveness stays with TLC.
