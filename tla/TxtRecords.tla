----------------------------- MODULE TxtRecords -----------------------------
(***************************************************************************)
(* TXT records (src/browse.rs, and their uses in the three back-ends): the *)
(* loop of parse_txt_buffer over a packed buffer, one iteration per step,  *)
(* and what DiscoveredService::txt then answers on each platform.          *)
(*                                                                         *)
(* A byte is a small natural: the same value may be a length, "=" or text. *)
(* Every buffer is a sequence of entries, as an advertiser packs them,     *)
(* followed by nothing or by an entry that is cut short; the parser does   *)
(* not know where that is.                                                 *)
(*                                                                         *)
(* A definition D_X is a variant of D with a bug, for mutation runs only.  *)
(***************************************************************************)
EXTENDS Naturals, FiniteSets, SequencesExt

CONSTANTS
  Bytes,      (* naturals                                                  *)
  Eq,         (* the byte "="                                              *)
  Bad,        (* bytes that are no UTF-8                                   *)
  Repl,       (* U+FFFD, which stands for them in a key                    *)
  NoValue,    (* the value of a key-only entry                             *)
  MaxEntry,   (* bound: bytes in an entry                                  *)
  MaxEntries  (* bound: entries in a buffer                                *)

ASSUME TxtConstantsOK ==
  /\ Bytes \subseteq Nat /\ Eq \in Bytes /\ Bad \subseteq Bytes \ {Eq} /\ Repl \notin Bytes
  /\ NoValue \notin Seq(Bytes)
  /\ MaxEntry \in Nat /\ MaxEntries \in Nat

VARIABLES
  buf,      (* the argument                                                *)
  i,        (* bytes consumed                                              *)
  records,
  parsing,  (* in the loop                                                 *)
  sent      (* the entries that are whole, as they were packed             *)

txtVars == <<buf, i, records, parsing, sent>>

Entries == BoundedSeq(Bytes, MaxEntry)

(* A length prefix in front of each entry. *)
Pack(es) == FlattenSeq([k \in DOMAIN es |-> <<Len(es[k])>> \o es[k]])

(* What a cut leaves of an entry: the prefix n promises more than the s    *)
(* that follows.                                                           *)
TxtInit ==
  /\ sent \in BoundedSeq(Entries, MaxEntries)
  /\ \/ buf = Pack(sent)
     \/ \E n \in Bytes, s \in Entries : Len(s) < n /\ buf = Pack(sent) \o (<<n>> \o s)
  /\ i = 0
  /\ records = <<>>
  /\ parsing = TRUE

-----------------------------------------------------------------------------
(* String::from_utf8_lossy. *)
Lossy(s) == [k \in DOMAIN s |-> IF s[k] \in Bad THEN Repl ELSE s[k]]

(* Where the key ends: at the first "=". *)
Positions(e) == {p \in DOMAIN e : e[p] = Eq}
Split_Last(e) == CHOOSE p \in Positions(e) : \A q \in Positions(e) : q <= p
Split(e) == CHOOSE p \in Positions(e) : \A q \in Positions(e) : p <= q

ParseEntry(e) ==
  IF Positions(e) = {} THEN [key |-> Lossy(e), value |-> NoValue]
  ELSE [key |-> Lossy(SubSeq(e, 1, Split(e) - 1)), value |-> SubSeq(e, Split(e) + 1, Len(e))]

(* The entry at byte i ends where its prefix says. *)
EntryEnd == i + 1 + buf[i + 1]

(* The slice buf[i..i + len] is taken only if it is in the buffer. *)
Fits == EntryEnd <= Len(buf)

(* Empty entries are skipped. *)
Kept_All(e) == TRUE
Kept(e) == e # <<>>

ParseStep ==
  /\ parsing /\ i < Len(buf) /\ Fits
  /\ LET e == SubSeq(buf, i + 2, EntryEnd)
     IN  records' = IF Kept(e) THEN Append(records, ParseEntry(e)) ELSE records
  /\ i' = EntryEnd
  /\ UNCHANGED <<buf, parsing, sent>>

ParseStops ==
  /\ parsing /\ (i < Len(buf) => ~Fits)
  /\ i' = IF i < Len(buf) THEN i + 1 ELSE i
  /\ parsing' = FALSE
  /\ UNCHANGED <<buf, records, sent>>

Parsed == ~parsing /\ UNCHANGED txtVars

TxtNext == ParseStep \/ ParseStops \/ Parsed

TxtSpec == TxtInit /\ [][TxtNext]_txtVars

-----------------------------------------------------------------------------
(* The records of the same service on the other platforms.                 *)

(* resolved_to_service: Avahi hands over one byte array per entry. *)
LinuxRecords == [k \in DOMAIN sent |-> ParseEntry(sent[k])]

(* The DNS client hands over an array of keys and one of values, the       *)
(* latter only if there is one.                                            *)
OsKeys == [k \in DOMAIN sent |-> ParseEntry(sent[k]).key]
OsValues ==
  LET values == [k \in DOMAIN sent |-> ParseEntry(sent[k]).value]
  IN  IF ToSet(values) \subseteq {NoValue} THEN <<>> ELSE values

(* pwstr_to_string: they are wide strings, which end at the first NUL. *)
Nul == 0
WideString(s) ==
  LET nuls == {p \in DOMAIN s : s[p] = Nul}
  IN  IF nuls = {} THEN s ELSE SubSeq(s, 1, Min(nuls) - 1)

Key(k) == WideString(OsKeys[k])
Value(k) ==
  IF k \in DOMAIN OsValues /\ OsValues[k] # NoValue THEN WideString(OsValues[k]) ELSE NoValue

(* read_txt: empty keys are skipped, a value has the index of its key. *)
ReadTxt_Shifted ==
  LET named == SelectSeq([k \in DOMAIN sent |-> Key(k)], LAMBDA key : key # <<>>)
  IN  [j \in DOMAIN named |-> [key |-> named[j], value |-> Value(j)]]
ReadTxt ==
  LET read[k \in 0..Len(sent)] ==
        IF k = 0 THEN <<>>
        ELSE IF Key(k) = <<>> THEN read[k - 1]
        ELSE Append(read[k - 1], [key |-> Key(k), value |-> Value(k)])
  IN  read[Len(sent)]

(* DiscoveredService::txt: the first entry with that key. *)
Txt(rs, key) ==
  LET hits == {k \in DOMAIN rs : rs[k].key = key}
  IN  IF hits = {} THEN NoValue ELSE rs[CHOOSE k \in hits : \A j \in hits : k <= j].value

-----------------------------------------------------------------------------
(* Whatever bytes come off the wire, parse_txt_buffer never reads past the *)
(* end of its buffer, and each record has cost it a prefix and a byte of   *)
(* text (the limit that fuzz/fuzz_targets/parse_txt_buffer.rs asserts).    *)
FramingLimits == i <= Len(buf) /\ 2 * Len(records) <= i

(* A record says what the entry said: the key has no "=" and the value all *)
(* the bytes after the first one.                                          *)
Says(r, e) ==
  \E k \in 0..Len(e) :
    LET key == SubSeq(e, 1, k)
    IN  /\ Eq \notin ToSet(key) /\ r.key = Lossy(key)
        /\ e = IF r.value = NoValue THEN key ELSE key \o <<Eq>> \o r.value

(* The parser finds exactly the entries the advertiser packed, the empty   *)
(* ones aside, in their order, whatever bytes they hold; an entry that was *)
(* cut short yields nothing and spoils none of the others (the round trip  *)
(* of fuzz/fuzz_targets/txt_roundtrip.rs, with truncation).                *)
NoBytesLeak ==
  ~parsing =>
    \E origin \in [DOMAIN records -> DOMAIN sent] :
      /\ \A j, k \in DOMAIN records : j < k => origin[j] < origin[k]
      /\ {origin[k] : k \in DOMAIN records} = {k \in DOMAIN sent : sent[k] # <<>>}
      /\ \A k \in DOMAIN records : Says(records[k], sent[origin[k]])

(* Text that a wide string can hold. *)
PlainText == \A e \in ToSet(sent) : ToSet(e) \cap (Bad \cup {Nul}) = {}

Keys == {r.key : r \in ToSet(records) \cup ToSet(LinuxRecords) \cup ToSet(ReadTxt)}

(* txt(key) answers alike on the three platforms for every key but the     *)
(* empty one; on Windows only if the entries are plain text. The empty key *)
(* is that of the entry "=v" and of an empty entry, and there the          *)
(* platforms differ: Windows never answers with a value, and Linux, which  *)
(* keeps empty entries, may find one first and answer with no value where  *)
(* macOS finds v.                                                          *)
PlatformsAgree ==
  ~parsing =>
    /\ \A key \in Keys \ {<<>>} :
         /\ Txt(LinuxRecords, key) = Txt(records, key)
         /\ PlainText => Txt(ReadTxt, key) = Txt(records, key)
    /\ \/ Txt(LinuxRecords, <<>>) = Txt(records, <<>>)
       \/ <<>> \in ToSet(sent) /\ Txt(LinuxRecords, <<>>) = NoValue
    /\ Txt(ReadTxt, <<>>) = NoValue
=============================================================================
