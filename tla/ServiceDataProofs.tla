-------------------------- MODULE ServiceDataProofs --------------------------
(***************************************************************************)
(* What the crate makes of the data of a service: TXT buffers of any       *)
(* length, entries of any bytes, names of any labels, interface indices of *)
(* any width.                                                              *)
(***************************************************************************)
EXTENDS TxtRecords, Identity, SequenceLemmas, FiniteSetTheorems

-----------------------------------------------------------------------------
(* The framing of parse_txt_buffer.                                        *)

(* parse_txt_buffer is called with whatever came off the wire. *)
AnyBuffer == buf \in Seq(Bytes) /\ i = 0 /\ records = <<>> /\ parsing = TRUE

Parses == {ParseEntry(e) : e \in Seq(Bytes)}

(* The slice that is parsed is in the buffer, and a record is pushed only  *)
(* for a slice that is not empty.                                          *)
ScanInv ==
  /\ buf \in Seq(Bytes)
  /\ i \in Nat
  /\ records \in Seq(Parses)
  /\ FramingLimits

(* The slice of an entry that fits has the length its prefix says. *)
LEMMA SliceIsEntry ==
  ASSUME ScanInv, i < Len(buf), Fits
  PROVE  /\ buf[i + 1] \in Nat
         /\ SubSeq(buf, i + 2, EntryEnd) \in Seq(Bytes)
         /\ Len(SubSeq(buf, i + 2, EntryEnd)) = buf[i + 1]
<1>1. buf \in Seq(Bytes) /\ i \in Nat /\ Len(buf) \in Nat /\ i + 1 \in 1..Len(buf)
  BY DEF ScanInv
<1>2. \A k \in 1..Len(buf) : buf[k] \in Bytes
  BY <1>1
<1>3. buf[i + 1] \in Nat
  BY <1>1, <1>2, TxtConstantsOK
<1>4. EntryEnd \in Nat /\ EntryEnd <= Len(buf) /\ EntryEnd = i + 1 + buf[i + 1]
  BY <1>1, <1>3 DEF Fits, EntryEnd
<1>5. \A k \in (i + 2)..EntryEnd : buf[k] \in Bytes
  BY <1>1, <1>2, <1>4
<1>6. QED
  BY <1>1, <1>3, <1>4, <1>5, SubSeqProperties

(* An iteration of the loop keeps the framing. *)
LEMMA StepKeepsFraming == ScanInv /\ [TxtNext]_txtVars => ScanInv'
<1> SUFFICES ASSUME ScanInv, [TxtNext]_txtVars PROVE ScanInv'
  OBVIOUS
<1>1. CASE ParseStep
  <2> DEFINE e == SubSeq(buf, i + 2, EntryEnd)
  <2>1. buf[i + 1] \in Nat /\ e \in Seq(Bytes) /\ Len(e) = buf[i + 1] /\ i < Len(buf)
    BY <1>1, SliceIsEntry DEF ParseStep
  <2>2. i' = i + 1 + buf[i + 1] /\ i' <= Len(buf) /\ buf' = buf /\ i \in Nat
    BY <1>1 DEF ParseStep, Fits, EntryEnd, ScanInv
  <2>3. ParseEntry(e) \in Parses
    BY <2>1 DEF Parses
  <2>4. i' \in Nat /\ i + 1 + Len(e) = i' /\ i' <= Len(buf')
    BY <2>1, <2>2
  <2>5. /\ buf' \in Seq(Bytes)
        /\ records \in Seq(Parses) /\ Len(records) \in Nat /\ 2 * Len(records) <= i
    BY <2>2 DEF ScanInv, FramingLimits
  <2>6. records' \in Seq(Parses) /\ 2 * Len(records') <= i'
    <3>1. CASE e = <<>>
      <4>1. records' = records
        BY <1>1, <3>1 DEF ParseStep, Kept
      <4>2. Len(e) \in Nat
        BY <2>1
      <4> HIDE DEF e
      <4>3. QED
        BY <4>1, <4>2, <2>2, <2>4, <2>5
    <3>2. CASE e # <<>>
      <4>1. records' = Append(records, ParseEntry(e))
        BY <1>1, <3>2 DEF ParseStep, Kept
      <4>2. Len(e) \in Nat /\ Len(e) >= 1
        BY <2>1, <3>2
      <4>3. records' \in Seq(Parses) /\ Len(records') = Len(records) + 1
        BY <4>1, <2>3, <2>5
      <4> HIDE DEF e
      <4>4. QED
        BY <4>2, <4>3, <2>2, <2>4, <2>5
    <3>3. QED
      BY <3>1, <3>2
  <2>7. QED
    BY <2>4, <2>5, <2>6 DEF ScanInv, FramingLimits
<1>2. CASE ParseStops
  BY <1>2 DEF ParseStops, ScanInv, FramingLimits
<1>3. CASE Parsed \/ UNCHANGED txtVars
  BY <1>3 DEF Parsed, txtVars, ScanInv, FramingLimits
<1>4. QED
  BY <1>1, <1>2, <1>3 DEF TxtNext

(* Whatever the bytes, parse_txt_buffer stays in its buffer and pushes at  *)
(* most one record for every two bytes.                                    *)
THEOREM FramingKept == AnyBuffer /\ [][TxtNext]_txtVars => []FramingLimits
<1>1. AnyBuffer => ScanInv
  BY DEF AnyBuffer, ScanInv, FramingLimits
<1>2. ScanInv => FramingLimits
  BY DEF ScanInv
<1>3. QED
  BY <1>1, <1>2, StepKeepsFraming, PTL

-----------------------------------------------------------------------------
(* The entries parse_txt_buffer finds.                                     *)

(* The k-th entry es[k] is in b after its length, which is after off[k - 1] *)
(* bytes.                                                                  *)
Framed(b, es, off) ==
  /\ off \in [0..Len(es) -> Nat] /\ off[0] = 0
  /\ \A k \in 1..Len(es) :
       /\ off[k] = off[k - 1] + 1 + Len(es[k]) /\ off[k] <= Len(b)
       /\ b[off[k - 1] + 1] = Len(es[k])
       /\ \A j \in 1..Len(es[k]) : b[off[k - 1] + 1 + j] = es[k][j]

(* After n bytes b ends, or holds a length that reaches beyond its end. *)
EndsAt(b, n) ==
  /\ n <= Len(b)
  /\ n < Len(b) => b[n + 1] \in Nat /\ Len(b) < n + 1 + b[n + 1]

LEMMA BytesAreNaturals ==
  ASSUME NEW e \in Seq(Bytes)
  PROVE  e \in Seq(Nat) /\ Len(e) \in Nat
BY TxtConstantsOK, SeqMonotonic, LenProperties

(* c is the byte n and then e, as an entry behind its length prefix. *)
Behind(c, n, e) ==
  /\ c \in Seq(Nat) /\ Len(e) \in Nat /\ Len(c) = 1 + Len(e) /\ c[1] = n
  /\ \A j \in 1..Len(e) : c[1 + j] = e[j]

LEMMA Prefixed ==
  ASSUME NEW n \in Nat, NEW e \in Seq(Nat)
  PROVE  Behind(<<n>> \o e, n, e)
<1> DEFINE c == <<n>> \o e
<1> DEFINE a == <<n>>
<1>1. a \in Seq(Nat) /\ Len(a) = 1 /\ a[1] = n /\ 1 \in 1..1
  OBVIOUS
<1> HIDE DEF a
<1>2. c = a \o e
  BY DEF a
<1> HIDE DEF c
<1>3. Glued(Nat, a, e, c)
  BY <1>1, <1>2, ConcatFacts, Zenon
<1>4. Behind(c, n, e)
  BY <1>1, <1>3 DEF Behind, Glued
<1>5. QED
  BY <1>4 DEF c

(* Pack lays the entries out one after the other, each behind its length. *)
LEMMA PackFrames ==
  ASSUME NEW es \in Seq(Seq(Bytes))
  PROVE  /\ Pack(es) \in Seq(Nat)
         /\ \E off : Framed(Pack(es), es, off) /\ off[Len(es)] = Len(Pack(es))
<1> DEFINE ps == [k \in DOMAIN es |-> <<Len(es[k])>> \o es[k]]
<1>1. Len(es) \in Nat /\ DOMAIN es = 1..Len(es)
  BY LenProperties
<1>2. \A k \in 1..Len(es) : es[k] \in Seq(Bytes) /\ Len(es[k]) \in Nat
  BY ElementOfSeq, LenProperties
<1>3. \A k \in 1..Len(es) : ps[k] = <<Len(es[k])>> \o es[k]
  BY <1>1, Zenon
<1>4. ASSUME NEW k \in 1..Len(es)
      PROVE  /\ ps[k] \in Seq(Nat) /\ Len(ps[k]) = 1 + Len(es[k]) /\ ps[k][1] = Len(es[k])
             /\ \A j \in 1..Len(es[k]) : ps[k][1 + j] = es[k][j]
  <2>1. es[k] \in Seq(Nat) /\ Len(es[k]) \in Nat
    BY <1>2, BytesAreNaturals
  <2>2. Behind(ps[k], Len(es[k]), es[k])
    BY <1>3, <2>1, Prefixed, Zenon
  <2>3. QED
    BY <2>2, Zenon DEF Behind
<1>5. DOMAIN ps = 1..Len(es)
  BY <1>1, Zenon
<1>6. Pack(es) = FlattenSeq(ps)
  BY DEF Pack
<1>7. ps = [k \in 1..Len(es) |-> ps[k]]
  BY <1>1
<1> HIDE DEF ps
<1>8. ps \in Seq(Seq(Nat)) /\ Len(ps) = Len(es)
  BY <1>1, <1>4, <1>5, <1>7
<1> DEFINE b == Pack(es)
<1>9. b \in Seq(Nat) /\ \E off : Layout(ps, b, off)
  BY <1>6, <1>8, FlattenLayout
<1> HIDE DEF b
<1>10. PICK off : Layout(ps, b, off)
  BY <1>9
<1>11. /\ off \in [0..Len(es) -> Nat] /\ off[0] = 0 /\ off[Len(es)] = Len(b)
       /\ \A k \in 1..Len(es) : off[k] = off[k - 1] + Len(ps[k]) /\ off[k] <= Len(b)
       /\ \A k \in 1..Len(es) : \A j \in 1..Len(ps[k]) : b[off[k - 1] + j] = ps[k][j]
  BY <1>8, <1>10 DEF Layout
<1>12. ASSUME NEW k \in 1..Len(es)
       PROVE  /\ off[k] = off[k - 1] + 1 + Len(es[k]) /\ off[k] <= Len(b)
              /\ b[off[k - 1] + 1] = Len(es[k])
              /\ \A j \in 1..Len(es[k]) : b[off[k - 1] + 1 + j] = es[k][j]
  <2>1. off[k - 1] \in Nat
    <3>1. k - 1 \in 0..Len(es)
      BY <1>1
    <3>2. QED
      BY <1>11, <3>1
  <2>2. off[k] = off[k - 1] + 1 + Len(es[k]) /\ off[k] <= Len(b)
    <3>1. off[k] = off[k - 1] + Len(ps[k]) /\ off[k] <= Len(b)
      BY <1>11, Zenon
    <3>2. Len(es[k]) \in Nat /\ Len(ps[k]) = 1 + Len(es[k])
      BY <1>2, <1>4, Zenon
    <3> DEFINE x == off[k - 1]
               y == Len(es[k])
    <3>3. x \in Nat /\ y \in Nat /\ off[k] = x + (1 + y)
      BY <2>1, <3>1, <3>2, Zenon
    <3> HIDE DEF x, y
    <3>4. off[k] = x + 1 + y
      BY <3>3
    <3>5. QED
      BY <3>1, <3>4, Zenon DEF x, y
  <2>3. Len(es[k]) \in Nat /\ 1 \in 1..(1 + Len(es[k])) /\ 1 \in 1..Len(ps[k])
    <3>1. Len(es[k]) \in Nat /\ Len(ps[k]) = 1 + Len(es[k])
      BY <1>2, <1>4, Zenon
    <3>2. \A x \in Nat : 1 \in 1..(1 + x)
      OBVIOUS
    <3>3. QED
      BY <3>1, <3>2, Zenon
  <2>4. b[off[k - 1] + 1] = Len(es[k])
    BY <1>4, <1>11, <2>3, Zenon
  <2>5. ASSUME NEW j \in 1..Len(es[k]) PROVE b[off[k - 1] + 1 + j] = es[k][j]
    <3> DEFINE x == off[k - 1]
    <3>1. x \in Nat /\ j \in Nat /\ 1 + j \in 1..(1 + Len(es[k])) /\ Len(ps[k]) = 1 + Len(es[k])
      <4>1. x \in Nat /\ Len(ps[k]) = 1 + Len(es[k])
        BY <1>4, <2>1, Zenon
      <4>2. \A n \in Nat : \A q \in 1..n : q \in Nat /\ 1 + q \in 1..(1 + n)
        OBVIOUS
      <4>3. QED
        BY <2>3, <4>1, <4>2, Zenon
    <3> HIDE DEF x
    <3>2. x + 1 + j = x + (1 + j)
      BY <3>1
    <3>3. 1 + j \in 1..Len(ps[k]) /\ off[k - 1] + 1 + j = off[k - 1] + (1 + j)
      BY <3>1, <3>2, Zenon DEF x
    <3>4. b[off[k - 1] + (1 + j)] = ps[k][1 + j]
      BY <1>11, <3>3, Zenon
    <3>5. QED
      BY <1>4, <3>3, <3>4, Zenon
  <2>6. QED
    BY <2>2, <2>4, <2>5
<1>13. Framed(b, es, off)
  BY <1>11, <1>12 DEF Framed
<1>14. QED
  BY <1>9, <1>11, <1>13 DEF b

LEMMA BoundedIsSeq ==
  ASSUME NEW S, NEW n \in Nat, NEW s \in BoundedSeq(S, n)
  PROVE  s \in Seq(S)
<1>1. PICK m \in 0..n : s \in [1..m -> S]
  BY DEF BoundedSeq, SeqOf
<1>2. QED
  BY <1>1

(* What follows the entries does not move them. *)
LEMMA FramedInFront ==
  ASSUME NEW es \in Seq(Seq(Bytes)), NEW a, NEW c, NEW off, Framed(a, es, off),
         Len(a) \in Nat, Len(c) \in Nat, Len(a) <= Len(c), \A p \in 1..Len(a) : c[p] = a[p]
  PROVE  Framed(c, es, off)
<1>1. Len(es) \in Nat /\ \A k \in 1..Len(es) : Len(es[k]) \in Nat
  BY ElementOfSeq, LenProperties
<1>2. /\ off \in [0..Len(es) -> Nat] /\ off[0] = 0
      /\ \A k \in 1..Len(es) :
            /\ off[k] = off[k - 1] + 1 + Len(es[k]) /\ off[k] <= Len(a)
            /\ a[off[k - 1] + 1] = Len(es[k])
            /\ \A j \in 1..Len(es[k]) : a[off[k - 1] + 1 + j] = es[k][j]
  BY DEF Framed
<1>3. ASSUME NEW k \in 1..Len(es)
      PROVE  /\ off[k] = off[k - 1] + 1 + Len(es[k]) /\ off[k] <= Len(c)
             /\ c[off[k - 1] + 1] = Len(es[k])
             /\ \A j \in 1..Len(es[k]) : c[off[k - 1] + 1 + j] = es[k][j]
  <2> DEFINE x == off[k - 1]
             y == Len(es[k])
             l == Len(a)
             w == off[k]
  <2>1. k - 1 \in 0..Len(es)
    BY <1>1
  <2>2. x \in Nat /\ y \in Nat /\ l \in Nat /\ w = x + 1 + y /\ w <= l
    BY <1>1, <1>2, <2>1
  <2>3. /\ a[x + 1] = y
        /\ \A j \in 1..y : a[x + 1 + j] = es[k][j]
    BY <1>2, Zenon
  <2>4. w <= Len(c)
    BY <1>1, <1>2, <2>2
  <2>5. \A p \in 1..l : c[p] = a[p]
    OBVIOUS
  <2> HIDE DEF x, y, l, w
  <2>6. x + 1 \in 1..l /\ \A j \in 1..y : x + 1 + j \in 1..l
    BY <2>2
  <2>7. c[x + 1] = y /\ \A j \in 1..y : c[x + 1 + j] = es[k][j]
    BY <2>3, <2>5, <2>6, Zenon
  <2>8. QED
    BY <2>2, <2>4, <2>7, Zenon DEF x, y, l, w
<1>4. QED
  BY <1>2, <1>3 DEF Framed

(* The entries packed in a are all that the buffer c holds. *)
Holds(c, a) ==
  /\ c \in Seq(Nat) /\ Len(a) \in Nat /\ Len(c) \in Nat /\ EndsAt(c, Len(a))
  /\ \A p \in 1..Len(a) : c[p] = a[p]

(* An entry that was cut has a length that reaches beyond it. *)
LEMMA CutEnds ==
  ASSUME NEW a \in Seq(Nat), NEW n \in Nat, NEW e \in Seq(Nat), Len(e) < n
  PROVE  Holds(a \o (<<n>> \o e), a)
<1> DEFINE t == <<n>> \o e
           c == a \o t
<1>1. Behind(t, n, e)
  BY Prefixed, Zenon
<1> HIDE DEF t
<1>2. c = a \o t
  BY Zenon
<1> HIDE DEF c
<1>3. t \in Seq(Nat)
  BY <1>1 DEF Behind
<1>4. Glued(Nat, a, t, c)
  BY <1>2, <1>3, ConcatFacts, Zenon
<1> DEFINE x == Len(a)
           y == Len(e)
<1>5. /\ c \in Seq(Nat) /\ x \in Nat /\ y \in Nat /\ Len(t) = 1 + y /\ t[1] = n /\ y < n
      /\ Len(c) = x + Len(t) /\ \A j \in 1..Len(t) : c[x + j] = t[j]
      /\ \A p \in 1..x : c[p] = a[p]
  BY <1>1, <1>4, Zenon DEF Behind, Glued
<1> HIDE DEF x, y
<1>6. Len(c) = x + (1 + y) /\ 1 \in 1..Len(t)
  BY <1>5
<1>7. c[x + 1] = n
  BY <1>5, <1>6, Zenon
<1>8. EndsAt(c, x) /\ Len(c) \in Nat
  BY <1>5, <1>6, <1>7 DEF EndsAt
<1>9. Holds(c, a)
  BY <1>5, <1>8, Zenon DEF Holds, x
<1>10. QED
  BY <1>9, Zenon DEF c, t

(* A buffer of the model is its entries and a rest that is no entry. *)
LEMMA BufferFramed ==
  ASSUME TxtInit
  PROVE  /\ sent \in Seq(Seq(Bytes)) /\ buf \in Seq(Nat)
         /\ \E off : Framed(buf, sent, off) /\ EndsAt(buf, off[Len(sent)])
<1>1. \/ buf = Pack(sent)
      \/ \E n \in Bytes, s \in Entries : Len(s) < n /\ buf = Pack(sent) \o (<<n>> \o s)
  BY Zenon DEF TxtInit
<1>2. sent \in Seq(Seq(Bytes))
  <2>1. sent \in Seq(Entries)
    BY TxtConstantsOK, BoundedIsSeq DEF TxtInit
  <2>2. Entries \subseteq Seq(Bytes)
    BY TxtConstantsOK, BoundedIsSeq DEF Entries
  <2>3. QED
    BY <2>1, <2>2, SeqMonotonic
<1> DEFINE a == Pack(sent)
<1>3. a \in Seq(Nat) /\ \E off : Framed(a, sent, off) /\ off[Len(sent)] = Len(a)
  BY <1>2, PackFrames
<1>4. PICK off : Framed(a, sent, off) /\ off[Len(sent)] = Len(a)
  BY <1>3
<1>5. \/ buf = a
      \/ \E n \in Bytes, s \in Entries : Len(s) < n /\ buf = a \o (<<n>> \o s)
  BY <1>1, Zenon
<1> HIDE DEF a
<1>6. Holds(buf, a)
  <2>1. CASE buf = a
    BY <1>3, <2>1, LenProperties DEF Holds, EndsAt
  <2>2. ASSUME NEW n \in Bytes, NEW s \in Entries, Len(s) < n, buf = a \o (<<n>> \o s)
        PROVE  Holds(buf, a)
    <3>1. n \in Nat /\ s \in Seq(Nat)
      BY TxtConstantsOK, BoundedIsSeq, BytesAreNaturals DEF Entries
    <3>2. QED
      BY <1>3, <2>2, <3>1, CutEnds, Zenon
  <2>3. QED
    BY <1>5, <2>1, <2>2, Zenon
<1>7. /\ buf \in Seq(Nat) /\ Len(a) \in Nat /\ Len(buf) \in Nat /\ EndsAt(buf, Len(a))
      /\ Len(a) <= Len(buf) /\ \A p \in 1..Len(a) : buf[p] = a[p]
  BY <1>6, Zenon DEF Holds, EndsAt
<1>8. Framed(buf, sent, off)
  BY <1>2, <1>4, <1>7, FramedInFront
<1>9. QED
  BY <1>2, <1>4, <1>7, <1>8

(* The key ends at the first "=". *)
LEMMA SplitIsFirst ==
  ASSUME NEW e \in Seq(Bytes), Positions(e) # {}
  PROVE  /\ Split(e) \in 1..Len(e) /\ e[Split(e)] = Eq
         /\ \A q \in 1..Len(e) : e[q] = Eq => Split(e) <= q
<1>1. DOMAIN e = 1..Len(e) /\ Len(e) \in Nat
  BY LenProperties
<1>2. \A q : q \in Positions(e) <=> q \in 1..Len(e) /\ e[q] = Eq
  BY <1>1 DEF Positions
<1>3. Positions(e) \subseteq Nat
  BY <1>1, <1>2
<1>4. \E p \in Positions(e) : \A q \in Positions(e) : p <= q
  BY <1>3, LeastNatural
<1>5. Split(e) \in Positions(e) /\ \A q \in Positions(e) : Split(e) <= q
  BY <1>4, Zenon DEF Split
<1>6. QED
  BY <1>2, <1>5

(* parse_txt_entry loses no byte of an entry. *)
LEMMA EntrySaid ==
  ASSUME NEW e \in Seq(Bytes)
  PROVE  Says(ParseEntry(e), e)
<1>1. DOMAIN e = 1..Len(e) /\ Len(e) \in Nat /\ \A q \in 1..Len(e) : e[q] \in Bytes
  BY LenProperties, ElementOfSeq
<1> DEFINE r == ParseEntry(e)
           Told(k) == /\ Eq \notin ToSet(SubSeq(e, 1, k)) /\ r.key = Lossy(SubSeq(e, 1, k))
                      /\ e = IF r.value = NoValue THEN SubSeq(e, 1, k)
                             ELSE SubSeq(e, 1, k) \o <<Eq>> \o r.value
<1>2. SUFFICES ASSUME TRUE PROVE \E k \in 0..Len(e) : Told(k)
  BY Zenon DEF Says
<1>3. CASE Positions(e) = {}
  <2>1. SubSeq(e, 1, Len(e)) = e
    BY SubSeqFull
  <2>2. Eq \notin ToSet(e)
    BY <1>3, Zenon DEF ToSet, Positions
  <2>3. r.key = Lossy(e) /\ r.value = NoValue
    BY <1>3 DEF ParseEntry
  <2>4. Told(Len(e))
    BY <2>1, <2>2, <2>3, Zenon
  <2>5. Len(e) \in 0..Len(e)
    BY <1>1
  <2>6. QED
    BY <2>4, <2>5, Zenon
<1>4. CASE Positions(e) # {}
  <2> DEFINE p == Split(e)
             key == SubSeq(e, 1, p - 1)
             val == SubSeq(e, p + 1, Len(e))
             eq == SubSeq(e, p, p)
  <2>1. r.key = Lossy(key) /\ r.value = val
    BY <1>4 DEF ParseEntry
  <2>2. p \in 1..Len(e) /\ e[p] = Eq /\ \A q \in 1..Len(e) : e[q] = Eq => p <= q
    BY <1>4, SplitIsFirst
  <2> HIDE DEF p, r
  <2>3. p - 1 \in 0..Len(e) /\ p \in Int /\ p - 1 \in Int /\ p + 1 \in Int /\ Len(e) \in Int
    BY <1>1, <2>2
  <2>4. val \in Seq(Bytes)
    <3>1. \A q \in (p + 1)..Len(e) : e[q] \in Bytes
      BY <1>1, <2>2
    <3>2. QED
      BY <2>3, <3>1, SubSeqProperties
  <2>5. val # NoValue
    BY <2>4, TxtConstantsOK
  <2>6. key \in Seq(Bytes) /\ Len(key) = p - 1 /\ \A q \in 1..(p - 1) : key[q] = e[q]
    <3>1. \A q \in 1..(p - 1) : e[q] \in Bytes
      BY <1>1, <2>2
    <3>2. /\ key \in Seq(Bytes)
          /\ Len(key) = IF 1 <= p - 1 THEN (p - 1) - 1 + 1 ELSE 0
          /\ \A q \in 1..((p - 1) - 1 + 1) : key[q] = e[1 + q - 1]
      BY <2>3, <3>1, SubSeqProperties
    <3> HIDE DEF key
    <3>3. QED
      BY <2>2, <3>2
  <2>7. Eq \notin ToSet(key)
    <3> SUFFICES ASSUME NEW q \in DOMAIN key, key[q] = Eq PROVE FALSE
      BY Zenon DEF ToSet
    <3>1. DOMAIN key = 1..(p - 1)
      BY <2>6, LenProperties
    <3> HIDE DEF key
    <3>2. q \in 1..(p - 1) /\ e[q] = Eq
      BY <2>6, <3>1
    <3>3. q \in 1..Len(e) /\ ~(p <= q)
      BY <1>1, <2>2, <3>2
    <3>4. QED
      BY <2>2, <3>2, <3>3
  <2>8. eq = <<Eq>>
    <3>1. \A q \in p..p : e[q] \in Bytes
      BY <1>1, <2>2
    <3>2. /\ eq \in Seq(Bytes) /\ Len(eq) = IF p <= p THEN p - p + 1 ELSE 0
          /\ \A q \in 1..(p - p + 1) : eq[q] = e[p + q - 1]
      BY <2>3, <3>1, SubSeqProperties
    <3> HIDE DEF eq
    <3>3. p <= p /\ p - p + 1 = 1 /\ p + 1 - 1 = p /\ 1 \in 1..1
      BY <2>3
    <3>4. Len(eq) = 1 /\ eq[1] = Eq
      BY <2>2, <3>2, <3>3, Zenon
    <3>5. QED
      BY <3>2, <3>4
  <2>9. key \o eq = SubSeq(e, 1, p)
    <3>1. 1 \in 1..(Len(e) + 1) /\ p - 1 \in (1 - 1)..Len(e) /\ p \in (p - 1)..Len(e) /\ (p - 1) + 1 = p
      BY <1>1, <2>2
    <3>2. SubSeq(e, 1, p - 1) \o SubSeq(e, (p - 1) + 1, p) = SubSeq(e, 1, p)
      BY <3>1, ConcatAdjacentSubSeq, Zenon
    <3>3. QED
      BY <3>1, <3>2, Zenon
  <2>10. SubSeq(e, 1, p) \o val = SubSeq(e, 1, Len(e))
    <3>1. 1 \in 1..(Len(e) + 1) /\ p \in (1 - 1)..Len(e) /\ Len(e) \in p..Len(e)
      BY <1>1, <2>2
    <3>2. QED
      BY <3>1, ConcatAdjacentSubSeq, Zenon
  <2>11. SubSeq(e, 1, Len(e)) = e
    BY SubSeqFull
  <2>12. e = key \o <<Eq>> \o val
    BY <2>8, <2>9, <2>10, <2>11, Zenon
  <2>13. Told(p - 1)
    BY <2>1, <2>5, <2>7, <2>12, Zenon
  <2>14. QED
    BY <2>3, <2>13, Zenon
<1>5. QED
  BY <1>3, <1>4

(* The records pushed so far are those of the first n entries that are not *)
(* empty: f says of which. The loop is where entry n ends, and leaves only *)
(* when there is no other.                                                 *)
Traced(off, n, f) ==
  /\ n \in 0..Len(sent) /\ f \in [1..Len(records) -> 1..n]
  /\ \A j, k \in 1..Len(records) : j < k => f[j] < f[k]
  /\ \A k \in 1..n : sent[k] # <<>> <=> \E j \in 1..Len(records) : f[j] = k
  /\ \A k \in 1..Len(records) : records[k] = ParseEntry(sent[f[k]])
  /\ IF parsing THEN i = off[n] ELSE n = Len(sent)

Laid(off) == Framed(buf, sent, off) /\ EndsAt(buf, off[Len(sent)])

TraceInv ==
  /\ sent \in Seq(Seq(Bytes)) /\ buf \in Seq(Nat) /\ records \in Seq(Parses)
  /\ \E off, n, f : Laid(off) /\ Traced(off, n, f)

(* Where entry n ends there is entry n + 1, whole, or no entry that fits. *)
LEMMA NextEntry ==
  ASSUME sent \in Seq(Seq(Bytes)), buf \in Seq(Nat), NEW off, Laid(off),
         NEW n \in 0..Len(sent), i = off[n]
  PROVE  /\ (i < Len(buf) /\ Fits) <=> n < Len(sent)
         /\ n < Len(sent) => EntryEnd = off[n + 1] /\ SubSeq(buf, i + 2, EntryEnd) = sent[n + 1]
<1>1. Len(sent) \in Nat /\ Len(buf) \in Nat /\ \A k \in 1..Len(sent) : sent[k] \in Seq(Bytes) /\ Len(sent[k]) \in Nat
  BY ElementOfSeq, LenProperties
<1>2. off \in [0..Len(sent) -> Nat] /\ i \in Nat
  BY DEF Laid, Framed
<1>3. CASE n = Len(sent)
  <2>1. i <= Len(buf) /\ (i < Len(buf) => buf[i + 1] \in Nat /\ Len(buf) < i + 1 + buf[i + 1])
    BY <1>3, Zenon DEF Laid, EndsAt
  <2>2. ~(i < Len(buf) /\ Fits)
    BY <1>1, <1>2, <2>1 DEF Fits, EntryEnd
  <2>3. QED
    BY <1>1, <1>3, <2>2
<1>4. CASE n < Len(sent)
  <2> DEFINE e == sent[n + 1]
             y == Len(e)
             w == off[n + 1]
             l == Len(buf)
  <2>1. n + 1 \in 1..Len(sent) /\ (n + 1) - 1 = n
    BY <1>1, <1>4
  <2>2. /\ w = i + 1 + y /\ w <= l
        /\ buf[i + 1] = y
        /\ \A j \in 1..y : buf[i + 1 + j] = e[j]
    BY <2>1, Zenon DEF Laid, Framed
  <2>3. y \in Nat /\ l \in Nat /\ e \in Seq(Bytes)
    BY <1>1, <2>1, Zenon
  <2>4. EntryEnd = w
    BY <2>2, Zenon DEF EntryEnd
  <2>5. e \in Seq(Nat)
    BY <2>3, BytesAreNaturals
  <2> HIDE DEF e, w
  <2>6. i < l /\ Fits
    BY <1>2, <2>2, <2>3, <2>4 DEF Fits
  <2>7. SubSeq(buf, i + 2, w) = e
    <3> DEFINE s == SubSeq(buf, i + 2, w)
    <3>1. \A q \in 1..l : buf[q] \in Nat
      BY ElementOfSeq
    <3>2. \A q \in (i + 2)..w : buf[q] \in Nat
      BY <1>2, <2>2, <2>3, <3>1
    <3>3. i + 2 \in Int /\ w \in Int
      <4>1. w = i + 1 + y /\ y \in Nat /\ i \in Nat
        BY <1>2, <2>2, <2>3, Zenon
      <4>2. \A x, z \in Nat : x + 2 \in Int /\ x + 1 + z \in Int
        OBVIOUS
      <4>3. QED
        BY <4>1, <4>2, Zenon
    <3>4. /\ s \in Seq(Nat) /\ Len(s) = IF i + 2 <= w THEN w - (i + 2) + 1 ELSE 0
          /\ \A q \in 1..(w - (i + 2) + 1) : s[q] = buf[i + 2 + q - 1]
      BY <3>2, <3>3, SubSeqProperties
    <3> HIDE DEF s
    <3>5. Len(s) = y
      <4>1. w = i + 1 + y /\ y \in Nat /\ i \in Nat
        BY <1>2, <2>2, <2>3, Zenon
      <4>2. Len(s) = IF i + 2 <= w THEN w - (i + 2) + 1 ELSE 0
        BY <3>4, Zenon
      <4>3. \A x, z \in Nat : (x + 1 + z) - (x + 2) + 1 = z /\ (x + 2 <= x + 1 + z \/ z = 0)
        OBVIOUS
      <4>4. w - (i + 2) + 1 = y /\ (i + 2 <= w \/ y = 0)
        BY <4>1, <4>3, Zenon
      <4>5. CASE i + 2 <= w
        BY <4>2, <4>4, <4>5, Zenon
      <4>6. CASE ~(i + 2 <= w)
        BY <4>2, <4>4, <4>6, Zenon
      <4>7. QED
        BY <4>5, <4>6, Zenon
    <3>6. ASSUME NEW q \in 1..y PROVE s[q] = e[q]
      <4>1. q \in 1..(w - (i + 2) + 1) /\ i + 2 + q - 1 = i + 1 + q
        <5>1. w = i + 1 + y /\ y \in Nat /\ i \in Nat
          BY <1>2, <2>2, <2>3, Zenon
        <5>2. \A x, z \in Nat : \A p \in 1..z :
                p \in 1..((x + 1 + z) - (x + 2) + 1) /\ x + 2 + p - 1 = x + 1 + p
          OBVIOUS
        <5>3. QED
          BY <5>1, <5>2, Zenon
      <4>2. QED
        BY <2>2, <3>4, <4>1, Zenon
    <3>7. s = e
      BY <2>5, <3>4, <3>5, <3>6, SeqEqual
    <3>8. QED
      BY <3>7 DEF s
  <2>8. QED
    BY <1>4, <2>4, <2>6, <2>7, Zenon DEF e, w
<1>5. QED
  BY <1>1, <1>3, <1>4

(* An iteration of the loop takes the next entry. *)
LEMMA StepKeepsTrace ==
  ASSUME TraceInv, ParseStep
  PROVE  TraceInv'
<1>1. PICK off, n, f : Laid(off) /\ Traced(off, n, f)
  BY DEF TraceInv
<1>2. /\ sent \in Seq(Seq(Bytes)) /\ buf \in Seq(Nat) /\ records \in Seq(Parses)
      /\ n \in 0..Len(sent) /\ parsing /\ i = off[n] /\ i < Len(buf) /\ Fits
  BY <1>1 DEF TraceInv, Traced, ParseStep
<1> DEFINE e == sent[n + 1]
<1>3. n < Len(sent) /\ EntryEnd = off[n + 1] /\ SubSeq(buf, i + 2, EntryEnd) = e
  BY <1>1, <1>2, NextEntry, Zenon
<1>4. /\ records' = IF Kept(e) THEN Append(records, ParseEntry(e)) ELSE records
      /\ i' = off[n + 1] /\ UNCHANGED <<buf, parsing, sent>>
  BY <1>3, Zenon DEF ParseStep
<1>5. Len(sent) \in Nat /\ n \in Nat /\ n + 1 \in 1..Len(sent) /\ n + 1 \in 0..Len(sent)
  BY <1>2, <1>3, LenProperties
<1>6. e \in Seq(Bytes)
  BY <1>2, <1>5, ElementOfSeq
<1> DEFINE r == Len(records)
<1>7. /\ r \in Nat /\ f \in [1..r -> 1..n]
      /\ \A j, k \in 1..r : j < k => f[j] < f[k]
      /\ \A k \in 1..n : sent[k] # <<>> <=> \E j \in 1..r : f[j] = k
      /\ \A k \in 1..r : records[k] = ParseEntry(sent[f[k]])
  BY <1>1, <1>2, LenProperties DEF Traced
<1>8. Laid(off)'
  BY <1>1, <1>4, Zenon DEF Laid, Framed, EndsAt
<1>9. CASE e = <<>>
  <2>1. records' = records
    BY <1>4, <1>9, Zenon DEF Kept
  <2>2. f \in [1..r -> 1..(n + 1)]
    BY <1>5, <1>7
  <2>3. ASSUME NEW k \in 1..(n + 1) PROVE sent[k] # <<>> <=> \E j \in 1..r : f[j] = k
    <3>1. CASE k \in 1..n
      BY <1>7, <3>1, Zenon
    <3>2. CASE k = n + 1
      <4>1. \A j \in 1..r : f[j] \in 1..n
        BY <1>7
      <4>2. n + 1 \notin 1..n
        BY <1>5
      <4>3. QED
        BY <1>9, <3>2, <4>1, <4>2, Zenon
    <3>3. QED
      BY <1>5, <3>1, <3>2
  <2>4. Traced(off, n + 1, f)'
    BY <1>2, <1>4, <1>5, <1>7, <2>1, <2>2, <2>3, Zenon DEF Traced
  <2>5. QED
    BY <1>2, <1>4, <1>8, <2>1, <2>4, Zenon DEF TraceInv
<1>10. CASE e # <<>>
  <2> PICK h : h = [k \in 1..(r + 1) |-> IF k <= r THEN f[k] ELSE n + 1]
    OBVIOUS
  <2>1. records' = Append(records, ParseEntry(e))
    BY <1>4, <1>10, Zenon DEF Kept
  <2> DEFINE v == ParseEntry(e)
  <2>2. v \in Parses
    BY <1>6, Zenon DEF Parses
  <2>3. /\ records' \in Seq(Parses) /\ Len(records') = r + 1
        /\ \A k \in 1..r : records'[k] = records[k]
        /\ records'[r + 1] = ParseEntry(e)
    <3>1. records' = Append(records, v)
      BY <2>1
    <3> HIDE DEF v
    <3>2. /\ records' \in Seq(Parses) /\ Len(records') = r + 1
          /\ \A k \in 1..r : records'[k] = records[k]
          /\ records'[r + 1] = v
      BY <1>2, <2>2, <3>1, AppendProperties
    <3>3. QED
      BY <3>2 DEF v
  <2>4. \A k \in 1..r : f[k] \in 1..n
    BY <1>7
  <2>5. h \in [1..(r + 1) -> 1..(n + 1)]
    BY <1>5, <1>7, <2>4
  <2>6. \A k \in 1..r : h[k] = f[k]
    BY <1>7
  <2>7. h[r + 1] = n + 1
    BY <1>7
  <2>8. \A k \in 1..(r + 1) : k \in 1..r \/ k = r + 1
    BY <1>7
  <2>9. ASSUME NEW j \in 1..(r + 1), NEW k \in 1..(r + 1), j < k PROVE h[j] < h[k]
    <3>1. j \in 1..r
      BY <1>7, <2>9
    <3>2. CASE k \in 1..r
      BY <1>7, <2>6, <2>9, <3>1, <3>2, Zenon
    <3>3. CASE k = r + 1
      BY <1>5, <2>4, <2>6, <2>7, <3>1, <3>3
    <3>4. QED
      BY <2>8, <3>2, <3>3
  <2>10. ASSUME NEW k \in 1..(n + 1) PROVE sent[k] # <<>> <=> \E j \in 1..(r + 1) : h[j] = k
    <3>1. r + 1 \in 1..(r + 1) /\ 1..r \subseteq 1..(r + 1)
      BY <1>7
    <3>2. CASE k = n + 1
      BY <1>10, <2>7, <3>1, <3>2, Zenon
    <3>3. CASE k \in 1..n
      <4>1. k # n + 1
        BY <1>5, <3>3
      <4>2. (\E j \in 1..(r + 1) : h[j] = k) <=> \E j \in 1..r : f[j] = k
        BY <2>6, <2>7, <2>8, <3>1, <4>1, Zenon
      <4>3. QED
        BY <1>7, <3>3, <4>2, Zenon
    <3>4. QED
      BY <1>5, <3>2, <3>3
  <2>11. \A k \in 1..(r + 1) : records'[k] = ParseEntry(sent[h[k]])
    BY <1>7, <2>3, <2>6, <2>7, <2>8, Zenon
  <2> HIDE DEF r
  <2>12. Traced(off, n + 1, h)'
    <3>1. h \in [1..Len(records') -> 1..(n + 1)]
      BY <2>3, <2>5, Zenon
    <3>2. \A j, k \in 1..Len(records') : j < k => h[j] < h[k]
      BY <2>3, <2>9, Zenon
    <3>3. \A k \in 1..(n + 1) : sent'[k] # <<>> <=> \E j \in 1..Len(records') : h[j] = k
      BY <1>4, <2>3, <2>10, Zenon
    <3>4. \A k \in 1..Len(records') : records'[k] = ParseEntry(sent'[h[k]])
      BY <1>4, <2>3, <2>11, Zenon
    <3>5. n + 1 \in 0..Len(sent') /\ parsing' /\ i' = off[n + 1]
      BY <1>2, <1>4, <1>5, Zenon
    <3>6. QED
      BY <3>1, <3>2, <3>3, <3>4, <3>5, Zenon DEF Traced
  <2>13. QED
    BY <1>2, <1>4, <1>8, <2>3, <2>12, Zenon DEF TraceInv
<1>11. QED
  BY <1>9, <1>10

(* The loop ends behind the last entry. *)
LEMMA StopKeepsTrace ==
  ASSUME TraceInv, ParseStops
  PROVE  TraceInv'
<1>1. PICK off, n, f : Laid(off) /\ Traced(off, n, f)
  BY DEF TraceInv
<1>2. /\ sent \in Seq(Seq(Bytes)) /\ buf \in Seq(Nat) /\ records \in Seq(Parses)
      /\ n \in 0..Len(sent) /\ parsing /\ i = off[n] /\ ~(i < Len(buf) /\ Fits)
      /\ parsing' = FALSE /\ UNCHANGED <<buf, records, sent>>
  BY <1>1 DEF TraceInv, Traced, ParseStops
<1>3. n = Len(sent)
  <2>1. ~(n < Len(sent))
    BY <1>1, <1>2, NextEntry, Zenon
  <2>2. QED
    BY <1>2, <2>1, LenProperties
<1>4. Laid(off)'
  BY <1>1, <1>2, Zenon DEF Laid, Framed, EndsAt
<1>5. Traced(off, n, f)'
  BY <1>1, <1>2, <1>3, Zenon DEF Traced
<1>6. QED
  BY <1>2, <1>4, <1>5, Zenon DEF TraceInv

(* Once the loop has ended, the records are those of all the entries. *)
LEMMA TraceTellsAll == TraceInv => NoBytesLeak
<1> SUFFICES ASSUME TraceInv, ~parsing PROVE NoBytesLeak
  BY DEF NoBytesLeak
<1>1. PICK off, n, f : Traced(off, n, f)
  BY DEF TraceInv
<1>2. /\ DOMAIN records = 1..Len(records) /\ DOMAIN sent = 1..Len(sent)
      /\ \A k \in 1..Len(sent) : sent[k] \in Seq(Bytes)
  BY LenProperties, ElementOfSeq DEF TraceInv
<1>3. /\ f \in [1..Len(records) -> 1..Len(sent)]
      /\ \A j, k \in 1..Len(records) : j < k => f[j] < f[k]
      /\ \A k \in 1..Len(sent) : sent[k] # <<>> <=> \E j \in 1..Len(records) : f[j] = k
      /\ \A k \in 1..Len(records) : records[k] = ParseEntry(sent[f[k]])
  BY <1>1, Zenon DEF Traced
<1>4. \A k \in 1..Len(records) : f[k] \in 1..Len(sent)
  BY <1>3
<1>5. {f[k] : k \in DOMAIN records} = {k \in DOMAIN sent : sent[k] # <<>>}
  <2>1. ASSUME NEW k \in DOMAIN records PROVE f[k] \in {h \in DOMAIN sent : sent[h] # <<>>}
    BY <1>2, <1>3, <1>4, Zenon
  <2>2. ASSUME NEW h \in DOMAIN sent, sent[h] # <<>> PROVE h \in {f[k] : k \in DOMAIN records}
    BY <1>2, <1>3, <2>2, Zenon
  <2>3. QED
    BY <2>1, <2>2, Zenon
<1>6. ASSUME NEW k \in 1..Len(records) PROVE Says(records[k], sent[f[k]])
  <2>1. sent[f[k]] \in Seq(Bytes) /\ records[k] = ParseEntry(sent[f[k]])
    BY <1>2, <1>3, <1>4, Zenon
  <2>2. Says(ParseEntry(sent[f[k]]), sent[f[k]])
    BY <2>1, EntrySaid, Zenon
  <2>3. QED
    BY <2>1, <2>2, Zenon
<1>7. QED
  BY <1>2, <1>3, <1>5, <1>6, Zenon DEF NoBytesLeak

(* The parser follows the entries. *)
LEMMA BuffersTraced == TxtSpec => []TraceInv
<1>1. TxtInit => TraceInv
  <2> SUFFICES ASSUME TxtInit PROVE TraceInv
    OBVIOUS
  <2>1. PICK off : Laid(off)
    BY BufferFramed DEF Laid
  <2>2. sent \in Seq(Seq(Bytes)) /\ buf \in Seq(Nat) /\ records \in Seq(Parses)
    <3>1. records = <<>>
      BY DEF TxtInit
    <3>2. QED
      BY <3>1, BufferFramed, EmptySeq
  <2>3. Len(sent) \in Nat /\ Len(records) = 0 /\ parsing /\ i = 0 /\ off[0] = 0
    BY <2>1, <2>2, LenProperties DEF TxtInit, Laid, Framed
  <2>4. Traced(off, 0, [k \in 1..0 |-> 0])
    BY <2>3 DEF Traced
  <2>5. QED
    BY <2>1, <2>2, <2>4, Zenon DEF TraceInv
<1>2. TraceInv /\ [TxtNext]_txtVars => TraceInv'
  <2>1. TraceInv /\ UNCHANGED txtVars => TraceInv'
    <3> SUFFICES ASSUME TraceInv, UNCHANGED txtVars PROVE TraceInv'
      OBVIOUS
    <3>1. PICK off, n, f : Laid(off) /\ Traced(off, n, f)
      BY DEF TraceInv
    <3>2. UNCHANGED <<buf, i, records, parsing, sent>>
      BY DEF txtVars
    <3>3. Laid(off)'
      BY <3>1, <3>2, Zenon DEF Laid, Framed, EndsAt
    <3>4. Traced(off, n, f)'
      BY <3>1, <3>2, Zenon DEF Traced
    <3>5. QED
      BY <3>2, <3>3, <3>4, Zenon DEF TraceInv
  <2>2. QED
    BY <2>1, StepKeepsTrace, StopKeepsTrace, Zenon DEF TxtNext, Parsed
<1>3. QED
  BY <1>1, <1>2, PTL DEF TxtSpec

(* parse_txt_buffer returns what was packed, for buffers of any number of  *)
(* entries of any length, cut anywhere.                                    *)
THEOREM RoundTrip == TxtSpec => []NoBytesLeak
BY BuffersTraced, TraceTellsAll, PTL

-----------------------------------------------------------------------------
(* What DiscoveredService::txt answers.                                    *)

(* rs holds the records of all, in their order, but for some whose key is  *)
(* empty; f says where each comes from.                                    *)
Thinned(S, rs, all, f) ==
  /\ rs \in Seq(S)
  /\ f \in [1..Len(rs) -> 1..Len(all)]
  /\ \A j, k \in 1..Len(rs) : j < k => f[j] < f[k]
  /\ \A k \in 1..Len(rs) : rs[k] = all[f[k]]
  /\ \A p \in 1..Len(all) : all[p].key # <<>> => \E j \in 1..Len(rs) : f[j] = p

(* txt() answers with the first entry that has the key. *)
Answers(rs, key, k) ==
  /\ k \in 1..Len(rs) /\ rs[k].key = key /\ Txt(rs, key) = rs[k].value
  /\ \A j \in 1..Len(rs) : rs[j].key = key => k <= j

LEMMA TxtIsFirst ==
  ASSUME NEW S, NEW rs \in Seq(S), NEW key, NEW p \in 1..Len(rs), rs[p].key = key
  PROVE  \E k : Answers(rs, key, k)
<1> DEFINE hits == {k \in DOMAIN rs : rs[k].key = key}
           k == CHOOSE k \in hits : \A j \in hits : k <= j
<1>1. DOMAIN rs = 1..Len(rs) /\ Len(rs) \in Nat
  BY LenProperties
<1>2. \A q : q \in hits <=> q \in 1..Len(rs) /\ rs[q].key = key
  BY <1>1
<1>3. p \in hits
  BY <1>2
<1>4. Txt(rs, key) = rs[k].value
  BY <1>3, Zenon DEF Txt
<1> HIDE DEF hits
<1>5. hits \subseteq Nat
  BY <1>1, <1>2
<1>6. \E m \in hits : \A j \in hits : m <= j
  BY <1>3, <1>5, LeastNatural
<1>7. k \in hits /\ \A j \in hits : k <= j
  BY <1>6, Zenon
<1> HIDE DEF k
<1>8. Answers(rs, key, k)
  BY <1>2, <1>4, <1>7, Zenon DEF Answers
<1>9. QED
  BY <1>8, Zenon

(* A key that no record has is answered with no value. *)
LEMMA TxtOfNone ==
  ASSUME NEW S, NEW rs \in Seq(S), NEW key, \A k \in 1..Len(rs) : rs[k].key # key
  PROVE  Txt(rs, key) = NoValue
<1>1. DOMAIN rs = 1..Len(rs)
  BY LenProperties
<1>2. {k \in DOMAIN rs : rs[k].key = key} = {}
  BY <1>1
<1>3. QED
  BY <1>2, Zenon DEF Txt

(* The two lists answer alike. *)
Agree(all, rs, key) == Txt(all, key) = Txt(rs, key)

(* Record a of all answers for the key, and is in rs too. *)
AnswerKept(S, rs, all, f, key, a) ==
  /\ all \in Seq(Parses) /\ Thinned(S, rs, all, f)
  /\ Answers(all, key, a)
  /\ \E j \in 1..Len(rs) : f[j] = a

(* An answer stays the same if its record is not dropped. *)
LEMMA KeptAnswer ==
  ASSUME NEW S, NEW rs, NEW all, NEW f, NEW key, NEW a, AnswerKept(S, rs, all, f, key, a)
  PROVE  Agree(all, rs, key)
<1> USE DEF AnswerKept
<1>1. PICK b \in 1..Len(rs) : f[b] = a
  BY Zenon
<1>2. /\ rs \in Seq(S) /\ f \in [1..Len(rs) -> 1..Len(all)]
      /\ \A j, k \in 1..Len(rs) : j < k => f[j] < f[k]
      /\ \A k \in 1..Len(rs) : rs[k] = all[f[k]]
  BY Zenon DEF Thinned
<1>3. rs[b].key = key
  BY <1>2, <1>1, Zenon DEF Answers
<1>4. PICK c : Answers(rs, key, c)
  <2>1. rs \in Seq(S)
    BY <1>2
  <2>2. QED
    BY <1>3, <2>1, TxtIsFirst, Zenon
<1>5. c \in 1..Len(rs) /\ c <= b
  BY <1>3, <1>4, Zenon DEF Answers
<1>6. f[c] \in 1..Len(all) /\ all[f[c]].key = key
  BY <1>2, <1>4 DEF Answers
<1>7. a \in 1..Len(all) /\ a <= f[c]
  BY <1>6, Zenon DEF Answers
<1>8. c = b
  <2> SUFFICES ASSUME c # b PROVE FALSE
    OBVIOUS
  <2>1. Len(rs) \in Nat /\ Len(all) \in Nat
    BY <1>2, LenProperties
  <2>2. c < b
    BY <1>5, <2>1
  <2>3. f[c] < f[b]
    BY <1>2, <1>5, <2>2, Zenon
  <2>4. QED
    BY <1>6, <1>7, <1>1, <2>1, <2>3
<1>9. QED
  BY <1>2, <1>4, <1>8, <1>1, Zenon DEF Answers, Agree

(* Dropping records with the empty key changes no answer for another key. *)
LEMMA ThinnedAgree ==
  ASSUME NEW S, NEW rs, NEW all \in Seq(Parses), NEW f, Thinned(S, rs, all, f),
         NEW key, key # <<>>
  PROVE  Agree(all, rs, key)
<1>1. CASE \E p \in 1..Len(all) : all[p].key = key
  <2>1. PICK a : Answers(all, key, a)
    BY <1>1, TxtIsFirst, Zenon
  <2>2. AnswerKept(S, rs, all, f, key, a)
    <3>1. \E j \in 1..Len(rs) : f[j] = a
      BY <2>1, Zenon DEF Answers, Thinned
    <3>2. QED
      BY <2>1, <3>1, Zenon DEF AnswerKept
  <2>3. QED
    BY <2>2, KeptAnswer, Zenon
<1>2. CASE \A p \in 1..Len(all) : all[p].key # key
  <2>1. rs \in Seq(S) /\ \A k \in 1..Len(rs) : rs[k].key # key
    <3>1. rs \in Seq(S) /\ f \in [1..Len(rs) -> 1..Len(all)] /\ \A k \in 1..Len(rs) : rs[k] = all[f[k]]
      BY Zenon DEF Thinned
    <3>2. \A k \in 1..Len(rs) : f[k] \in 1..Len(all)
      BY <3>1
    <3>3. QED
      BY <1>2, <3>1, <3>2, Zenon
  <2>2. Txt(all, key) = NoValue
    BY <1>2, TxtOfNone, Zenon
  <2>3. Txt(rs, key) = NoValue
    BY <2>1, TxtOfNone, Zenon
  <2>4. QED
    BY <2>2, <2>3 DEF Agree
<1>3. QED
  BY <1>1, <1>2, Zenon

(* Avahi's arrays give a record for every entry. *)
LEMMA LinuxFacts ==
  ASSUME sent \in Seq(Seq(Bytes))
  PROVE  /\ LinuxRecords \in Seq(Parses) /\ Len(LinuxRecords) = Len(sent)
         /\ \A k \in 1..Len(sent) : LinuxRecords[k] = ParseEntry(sent[k])
<1>1. DOMAIN sent = 1..Len(sent) /\ Len(sent) \in Nat
  BY LenProperties
<1>2. \A k \in 1..Len(sent) : sent[k] \in Seq(Bytes)
  BY ElementOfSeq
<1>3. \A k \in 1..Len(sent) : ParseEntry(sent[k]) \in Parses
  BY <1>2, Zenon DEF Parses
<1>4. LinuxRecords = [k \in 1..Len(sent) |-> ParseEntry(sent[k])]
  BY <1>1, Zenon DEF LinuxRecords
<1>5. QED
  BY <1>1, <1>3, <1>4

(* An entry without bytes has no key. *)
LEMMA EmptyKey ==
  ParseEntry(<<>>).key = <<>> /\ ParseEntry(<<>>).value = NoValue
<1>1. DOMAIN <<>> = {}
  OBVIOUS
<1>2. Positions(<<>>) = {} /\ Lossy(<<>>) = <<>>
  BY <1>1 DEF Positions, Lossy
<1>3. QED
  BY <1>2 DEF ParseEntry

(* parse_txt_buffer leaves out the empty entries, and nothing else. *)
LEMMA ParsedThinned ==
  ASSUME TraceInv, ~parsing
  PROVE  \E f : /\ Thinned(Parses, records, LinuxRecords, f)
                /\ \A p \in 1..Len(sent) : sent[p] # <<>> => \E j \in 1..Len(records) : f[j] = p
<1>1. PICK off, n, f : Traced(off, n, f)
  BY DEF TraceInv
<1>2. sent \in Seq(Seq(Bytes)) /\ records \in Seq(Parses)
  BY DEF TraceInv
<1>3. /\ f \in [1..Len(records) -> 1..Len(sent)]
      /\ \A j, k \in 1..Len(records) : j < k => f[j] < f[k]
      /\ \A k \in 1..Len(sent) : sent[k] # <<>> <=> \E j \in 1..Len(records) : f[j] = k
      /\ \A k \in 1..Len(records) : records[k] = ParseEntry(sent[f[k]])
  BY <1>1, Zenon DEF Traced
<1>4. \A k \in 1..Len(records) : f[k] \in 1..Len(sent)
  BY <1>3
<1>5. /\ Len(LinuxRecords) = Len(sent)
      /\ \A k \in 1..Len(sent) : LinuxRecords[k] = ParseEntry(sent[k])
  BY <1>2, LinuxFacts
<1>6. \A k \in 1..Len(records) : records[k] = LinuxRecords[f[k]]
  BY <1>3, <1>4, <1>5, Zenon
<1>7. ASSUME NEW p \in 1..Len(sent), LinuxRecords[p].key # <<>> PROVE \E j \in 1..Len(records) : f[j] = p
  <2>1. sent[p] # <<>>
    BY <1>5, <1>7, EmptyKey, Zenon
  <2>2. QED
    BY <1>3, <2>1, Zenon
<1>8. Thinned(Parses, records, LinuxRecords, f)
  BY <1>2, <1>3, <1>5, <1>6, <1>7, Zenon DEF Thinned
<1>9. QED
  BY <1>3, <1>8, Zenon

(* Part of an entry that is plain text holds no NUL and no other byte. *)
LEMMA PlainSlice ==
  ASSUME NEW e \in Seq(Bytes), ToSet(e) \cap (Bad \cup {Nul}) = {},
         NEW a \in 1..(Len(e) + 1), NEW b \in 0..Len(e)
  PROVE  /\ WideString(SubSeq(e, a, b)) = SubSeq(e, a, b)
         /\ WideString(Lossy(SubSeq(e, a, b))) = Lossy(SubSeq(e, a, b))
<1> DEFINE s == SubSeq(e, a, b)
<1>1. DOMAIN e = 1..Len(e) /\ Len(e) \in Nat /\ \A q \in 1..Len(e) : e[q] \in Bytes
  BY LenProperties, ElementOfSeq
<1>2. \A q \in 1..Len(e) : e[q] \notin Bad /\ e[q] # Nul
  <2>1. ASSUME NEW q \in 1..Len(e) PROVE e[q] \in ToSet(e)
    BY <1>1, <2>1, Zenon DEF ToSet
  <2> QED
    BY <2>1
<1>3. a \in Int /\ b \in Int /\ \A q \in a..b : q \in 1..Len(e)
  BY <1>1
<1>4. \A q \in a..b : e[q] \in Bytes
  BY <1>1, <1>3
<1>5. /\ s \in Seq(Bytes) /\ Len(s) = IF a <= b THEN b - a + 1 ELSE 0
      /\ \A q \in 1..(b - a + 1) : s[q] = e[a + q - 1]
  BY <1>3, <1>4, SubSeqProperties
<1> HIDE DEF s
<1>6. DOMAIN s = 1..Len(s)
  BY <1>5, LenProperties
<1>7. ASSUME NEW q \in DOMAIN s PROVE s[q] \notin Bad /\ s[q] # Nul
  <2>1. q \in 1..(b - a + 1) /\ a + q - 1 \in a..b
    BY <1>3, <1>5, <1>6
  <2>2. QED
    BY <1>2, <1>3, <1>5, <2>1
<1>8. {p \in DOMAIN s : s[p] = Nul} = {}
  BY <1>7
<1>9. WideString(s) = s
  BY <1>8, Zenon DEF WideString
<1>10. Lossy(s) = s
  <2>1. s = [k \in DOMAIN s |-> s[k]]
    BY <1>5, <1>6
  <2>2. Lossy(s) = [k \in DOMAIN s |-> s[k]]
    BY <1>7 DEF Lossy
  <2>3. QED
    BY <2>1, <2>2
<1>11. QED
  BY <1>9, <1>10, Zenon DEF s

(* What Windows makes of entry k. *)
OsRecord(k) == [key |-> Key(k), value |-> Value(k)]
OsRecords == {OsRecord(k) : k \in 1..Len(sent)}

(* The value of an entry has the index of its key, and is missing only     *)
(* where the entry has none; plain text comes through whole.               *)
LEMMA PlainRecord ==
  ASSUME sent \in Seq(Seq(Bytes)), PlainText, NEW k \in 1..Len(sent)
  PROVE  OsRecord(k) = ParseEntry(sent[k])
<1> DEFINE values == [j \in DOMAIN sent |-> ParseEntry(sent[j]).value]
           e == sent[k]
           r == ParseEntry(e)
<1>1. DOMAIN sent = 1..Len(sent)
  BY LenProperties
<1>2. e \in Seq(Bytes) /\ ToSet(e) \cap (Bad \cup {Nul}) = {}
  <2>1. e \in Seq(Bytes)
    BY ElementOfSeq
  <2>2. e \in ToSet(sent)
    BY <1>1 DEF ToSet
  <2>3. QED
    BY <2>1, <2>2, Zenon DEF PlainText
<1>3. OsKeys[k] = r.key
  BY <1>1, Zenon DEF OsKeys
<1>4. DOMAIN values = 1..Len(sent) /\ values[k] = r.value
  BY <1>1, Zenon
<1>5. OsValues = IF ToSet(values) \subseteq {NoValue} THEN <<>> ELSE values
  BY Zenon DEF OsValues
<1>6. r = [key |-> r.key, value |-> r.value]
  BY DEF ParseEntry
<1>7. WideString(r.key) = r.key /\ (r.value # NoValue => WideString(r.value) = r.value)
  <2>1. Len(e) \in Nat
    BY <1>2, LenProperties
  <2>2. CASE Positions(e) = {}
    <3>1. r.key = Lossy(e) /\ r.value = NoValue
      BY <2>2 DEF ParseEntry
    <3>2. SubSeq(e, 1, Len(e)) = e
      BY <1>2, SubSeqFull, Zenon
    <3>3. 1 \in 1..(Len(e) + 1) /\ Len(e) \in 0..Len(e)
      BY <2>1
    <3> HIDE DEF e, r
    <3>4. WideString(Lossy(SubSeq(e, 1, Len(e)))) = Lossy(SubSeq(e, 1, Len(e)))
      BY <1>2, <3>3, PlainSlice, Zenon
    <3>5. QED
      BY <3>1, <3>2, <3>4
  <2>3. CASE Positions(e) # {}
    <3>1. r.key = Lossy(SubSeq(e, 1, Split(e) - 1)) /\ r.value = SubSeq(e, Split(e) + 1, Len(e))
      BY <2>3 DEF ParseEntry
    <3> HIDE DEF e, r
    <3>2. Split(e) \in 1..Len(e)
      BY <1>2, <2>3, SplitIsFirst, Zenon
    <3>3. /\ 1 \in 1..(Len(e) + 1) /\ Split(e) - 1 \in 0..Len(e)
          /\ Split(e) + 1 \in 1..(Len(e) + 1) /\ Len(e) \in 0..Len(e)
      BY <2>1, <3>2
    <3>4. WideString(Lossy(SubSeq(e, 1, Split(e) - 1))) = Lossy(SubSeq(e, 1, Split(e) - 1))
      BY <1>2, <3>3, PlainSlice, Zenon
    <3>5. WideString(SubSeq(e, Split(e) + 1, Len(e))) = SubSeq(e, Split(e) + 1, Len(e))
      BY <1>2, <3>3, PlainSlice, Zenon
    <3>6. QED
      BY <3>1, <3>4, <3>5, Zenon
  <2>4. QED
    BY <2>2, <2>3
<1> HIDE DEF values, e, r
<1>8. CASE ToSet(values) \subseteq {NoValue}
  <2>1. values[k] \in ToSet(values)
    BY <1>4 DEF ToSet
  <2>2. r.value = NoValue
    BY <1>4, <1>8, <2>1
  <2>3. k \notin DOMAIN <<>>
    OBVIOUS
  <2>4. Value(k) = NoValue
    BY <1>5, <1>8, <2>3, Zenon DEF Value
  <2>5. Key(k) = r.key
    BY <1>3, <1>7, Zenon DEF Key
  <2>6. QED
    BY <1>6, <2>2, <2>4, <2>5, Zenon DEF OsRecord, r, e
<1>9. CASE ~(ToSet(values) \subseteq {NoValue})
  <2>1. k \in DOMAIN OsValues /\ OsValues[k] = r.value
    BY <1>4, <1>5, <1>9, Zenon
  <2>2. Value(k) = r.value
    BY <1>7, <2>1, Zenon DEF Value
  <2>3. Key(k) = r.key
    BY <1>3, <1>7, Zenon DEF Key
  <2>4. QED
    BY <1>6, <2>2, <2>3, Zenon DEF OsRecord, r, e
<1>10. QED
  BY <1>8, <1>9

(* An iteration of the loop of read_txt, and the values of `out` after     *)
(* each, up to n of them.                                                  *)
NextRead(out, k) ==
  IF Key(k) = <<>> THEN out ELSE Append(out, [key |-> Key(k), value |-> Value(k)])
Reads(g, n) == g = [k \in 0..n |-> IF k = 0 THEN <<>> ELSE NextRead(g[k - 1], k)]

LEMMA ReadsExist ==
  ASSUME NEW n \in Nat
  PROVE  \E g : Reads(g, n)
<1> DEFINE P == {m \in Nat : \E g : Reads(g, m)}
<1>1. 0 \in P
  <2> DEFINE h == [k \in 0..0 |-> <<>>]
  <2>1. h = [k \in 0..0 |-> IF k = 0 THEN <<>> ELSE NextRead(h[k - 1], k)]
    OBVIOUS
  <2>2. Reads(h, 0)
    BY <2>1 DEF Reads
  <2>3. QED
    BY <2>2
<1>2. ASSUME NEW m \in 0..(n - 1), m \in P PROVE m + 1 \in P
  <2>1. PICK g : Reads(g, m)
    BY <1>2
  <2>2. \A k \in 0..m : g[k] = IF k = 0 THEN <<>> ELSE NextRead(g[k - 1], k)
    BY <2>1 DEF Reads
  <2> DEFINE h == [k \in 0..(m + 1) |-> IF k <= m THEN g[k] ELSE NextRead(g[m], m + 1)]
  <2>3. ASSUME NEW k \in 0..(m + 1) PROVE h[k] = IF k = 0 THEN <<>> ELSE NextRead(h[k - 1], k)
    <3>1. CASE k <= m
      <4>1. k \in 0..m /\ h[k] = g[k]
        BY <3>1
      <4>2. k # 0 => k - 1 \in 0..(m + 1) /\ k - 1 <= m /\ h[k - 1] = g[k - 1]
        BY <3>1
      <4>3. QED
        BY <2>2, <4>1, <4>2
    <3>2. CASE k = m + 1
      <4>1. m \in Nat /\ m \in 0..(m + 1) /\ m + 1 \in 0..(m + 1) /\ ~(m + 1 <= m) /\ m <= m /\ m + 1 # 0
        BY <1>2
      <4>2. h[m + 1] = NextRead(g[m], m + 1) /\ h[m] = g[m]
        BY <4>1
      <4>3. (m + 1) - 1 = m
        BY <4>1
      <4> HIDE DEF h
      <4>4. QED
        BY <3>2, <4>1, <4>2, <4>3
    <3>3. QED
      BY <3>1, <3>2
  <2>4. h = [k \in 0..(m + 1) |-> IF k = 0 THEN <<>> ELSE NextRead(h[k - 1], k)]
    BY <2>3
  <2>5. Reads(h, m + 1)
    BY <2>4 DEF Reads
  <2>6. QED
    BY <2>5
<1> HIDE DEF P
<1>3. \A k \in 0..n : k \in P
  BY <1>1, <1>2, Induction
<1>4. n \in 0..n
  OBVIOUS
<1>5. QED
  BY <1>3, <1>4 DEF P

(* read_txt returns the last one. *)
LEMMA ReadTxtUnfolds ==
  ASSUME Len(sent) \in Nat
  PROVE  \E g : Reads(g, Len(sent)) /\ ReadTxt = g[Len(sent)]
<1>1. \E g : Reads(g, Len(sent))
  BY ReadsExist
<1>2. QED
  BY <1>1 DEF ReadTxt, Reads, NextRead

(* After n entries read_txt has the records of those that have a key. *)
ReadSoFar(out, n, f) ==
  /\ out \in Seq(OsRecords) /\ f \in [1..Len(out) -> 1..n]
  /\ \A j, k \in 1..Len(out) : j < k => f[j] < f[k]
  /\ \A k \in 1..Len(out) : out[k] = OsRecord(f[k]) /\ out[k].key # <<>>
  /\ \A p \in 1..n : OsRecord(p).key # <<>> => \E j \in 1..Len(out) : f[j] = p

LEMMA NextReadKeeps ==
  ASSUME NEW n \in Nat, n + 1 \in 1..Len(sent),
         NEW out, NEW f, ReadSoFar(out, n, f)
  PROVE  \E h : ReadSoFar(NextRead(out, n + 1), n + 1, h)
<1> DEFINE e == OsRecord(n + 1)
           r == Len(out)
<1>2. e \in OsRecords
  BY Zenon DEF OsRecords
<1>3. Key(n + 1) = e.key /\ Value(n + 1) = e.value
  BY DEF OsRecord
<1>4. e = [key |-> Key(n + 1), value |-> Value(n + 1)]
  BY DEF OsRecord
<1> HIDE DEF e
<1>5. /\ out \in Seq(OsRecords) /\ f \in [1..r -> 1..n]
      /\ \A j, k \in 1..r : j < k => f[j] < f[k]
      /\ \A k \in 1..r : out[k] = OsRecord(f[k]) /\ out[k].key # <<>>
      /\ \A p \in 1..n : OsRecord(p).key # <<>> => \E j \in 1..r : f[j] = p
  BY Zenon DEF ReadSoFar
<1>6. r \in Nat /\ \A k \in 1..r : f[k] \in 1..n
  BY <1>5, LenProperties
<1>7. \A p \in 1..(n + 1) : p \in 1..n \/ p = n + 1
  OBVIOUS
<1>8. CASE e.key = <<>>
  <2>1. NextRead(out, n + 1) = out
    BY <1>3, <1>8, Zenon DEF NextRead
  <2>2. f \in [1..r -> 1..(n + 1)]
    BY <1>5, <1>6
  <2>3. \A p \in 1..(n + 1) : OsRecord(p).key # <<>> => \E j \in 1..r : f[j] = p
    BY <1>5, <1>7, <1>8, Zenon DEF e
  <2>4. ReadSoFar(out, n + 1, f)
    BY <1>5, <2>2, <2>3, Zenon DEF ReadSoFar
  <2>5. QED
    BY <2>1, <2>4, Zenon
<1>9. CASE e.key # <<>>
  <2> DEFINE new == NextRead(out, n + 1)
             h == [k \in 1..(r + 1) |-> IF k <= r THEN f[k] ELSE n + 1]
  <2>1. new = Append(out, e)
    BY <1>3, <1>4, <1>9, Zenon DEF NextRead
  <2> HIDE DEF new
  <2>2. /\ new \in Seq(OsRecords) /\ Len(new) = r + 1
        /\ \A k \in 1..r : new[k] = out[k]
        /\ new[r + 1] = e
    BY <1>2, <1>5, <2>1, AppendProperties
  <2>3. h \in [1..(r + 1) -> 1..(n + 1)]
    BY <1>6
  <2>4. \A k \in 1..r : h[k] = f[k]
    BY <1>6
  <2>5. h[r + 1] = n + 1
    BY <1>6
  <2>6. (\A k \in 1..(r + 1) : k \in 1..r \/ k = r + 1) /\ r + 1 \in 1..(r + 1) /\ 1..r \subseteq 1..(r + 1)
    <3>1. r \in Nat
      BY <1>6
    <3> HIDE DEF r
    <3>2. QED
      BY <3>1
  <2> HIDE DEF h
  <2>7. ASSUME NEW j \in 1..(r + 1), NEW k \in 1..(r + 1), j < k PROVE h[j] < h[k]
    <3>1. j \in 1..r
      BY <1>6, <2>7
    <3>2. CASE k \in 1..r
      BY <1>5, <2>4, <2>7, <3>1, <3>2, Zenon
    <3>3. CASE k = r + 1
      <4>1. h[j] \in 1..n /\ h[k] = n + 1
        BY <1>6, <2>4, <2>5, <3>1, <3>3, Zenon
      <4>2. QED
        BY <4>1
    <3>4. QED
      BY <2>6, <3>2, <3>3
  <2>8. \A k \in 1..(r + 1) : new[k] = OsRecord(h[k]) /\ new[k].key # <<>>
    BY <1>5, <1>9, <2>2, <2>4, <2>5, <2>6, Zenon DEF e
  <2>9. ASSUME NEW p \in 1..(n + 1), OsRecord(p).key # <<>> PROVE \E j \in 1..(r + 1) : h[j] = p
    BY <1>5, <1>7, <2>4, <2>5, <2>6, <2>9, Zenon
  <2> HIDE DEF r
  <2>10. ReadSoFar(new, n + 1, h)
    BY <2>2, <2>3, <2>7, <2>8, <2>9, Zenon DEF ReadSoFar
  <2>11. QED
    BY <2>10, Zenon DEF new
<1>10. QED
  BY <1>8, <1>9

(* read_txt leaves out the empty keys, and nothing else. *)
LEMMA ReadThinned ==
  ASSUME sent \in Seq(Seq(Bytes))
  PROVE  /\ ReadTxt \in Seq(OsRecords)
         /\ \A k \in 1..Len(ReadTxt) : ReadTxt[k].key # <<>>
         /\ PlainText => \E f : Thinned(OsRecords, ReadTxt, LinuxRecords, f)
<1>1. Len(sent) \in Nat
  BY LenProperties
<1>2. PICK g : Reads(g, Len(sent)) /\ ReadTxt = g[Len(sent)]
  BY <1>1, ReadTxtUnfolds
<1>3. \A k \in 0..Len(sent) : g[k] = IF k = 0 THEN <<>> ELSE NextRead(g[k - 1], k)
  BY <1>2 DEF Reads
<1> DEFINE P == {n \in Nat : \E f : ReadSoFar(g[n], n, f)}
<1>4. 0 \in P
  <2>1. g[0] = <<>>
    BY <1>1, <1>3
  <2>2. ReadSoFar(<<>>, 0, [k \in 1..0 |-> 0])
    BY EmptySeq DEF ReadSoFar
  <2>3. QED
    BY <2>1, <2>2
<1>5. ASSUME NEW n \in 0..(Len(sent) - 1), n \in P PROVE n + 1 \in P
  <2>1. n \in Nat /\ n + 1 \in Nat /\ n + 1 \in 1..Len(sent) /\ n + 1 \in 0..Len(sent) /\ n + 1 # 0 /\ (n + 1) - 1 = n
    BY <1>1
  <2>2. g[n + 1] = NextRead(g[n], n + 1)
    BY <1>3, <2>1, Zenon
  <2>3. PICK f : ReadSoFar(g[n], n, f)
    BY <1>5
  <2>4. \E h : ReadSoFar(NextRead(g[n], n + 1), n + 1, h)
    BY <2>1, <2>3, NextReadKeeps, Zenon
  <2>5. QED
    BY <2>1, <2>2, <2>4, Zenon
<1> HIDE DEF P
<1>6. Len(sent) \in P
  <2>1. \A k \in 0..Len(sent) : k \in P
    BY <1>1, <1>4, <1>5, Induction
  <2>2. QED
    BY <1>1, <2>1
<1>7. PICK f : ReadSoFar(ReadTxt, Len(sent), f)
  BY <1>2, <1>6, Zenon DEF P
<1> DEFINE out == ReadTxt
<1>8. /\ out \in Seq(OsRecords) /\ f \in [1..Len(out) -> 1..Len(sent)]
      /\ \A j, k \in 1..Len(out) : j < k => f[j] < f[k]
      /\ \A k \in 1..Len(out) : out[k] = OsRecord(f[k]) /\ out[k].key # <<>>
      /\ \A p \in 1..Len(sent) : OsRecord(p).key # <<>> => \E j \in 1..Len(out) : f[j] = p
  BY <1>7, Zenon DEF ReadSoFar
<1> HIDE DEF out
<1>9. \A k \in 1..Len(out) : f[k] \in 1..Len(sent)
  BY <1>8
<1>10. ASSUME PlainText PROVE Thinned(OsRecords, out, LinuxRecords, f)
  <2>1. /\ Len(LinuxRecords) = Len(sent)
        /\ \A k \in 1..Len(sent) : LinuxRecords[k] = ParseEntry(sent[k])
    BY LinuxFacts
  <2>2. \A k \in 1..Len(sent) : OsRecord(k) = LinuxRecords[k]
    BY <1>10, <2>1, PlainRecord, Zenon
  <2>3. QED
    BY <1>8, <1>9, <2>1, <2>2, Zenon DEF Thinned
<1>11. QED
  BY <1>8, <1>10, Zenon DEF out

(* For any entries, however they are cut: txt() answers alike on Linux and *)
(* macOS for every key that is not empty, and on Windows if the entries    *)
(* are plain text. For the empty key Linux may miss a value that macOS     *)
(* finds, if there is an empty entry, and Windows never has one.           *)
THEOREM SameAnswers == TxtSpec => []PlatformsAgree
<1>1. TraceInv => PlatformsAgree
  <2> SUFFICES ASSUME TraceInv, ~parsing
               PROVE  /\ \A key \in Keys \ {<<>>} :
                           /\ Txt(LinuxRecords, key) = Txt(records, key)
                           /\ PlainText => Txt(ReadTxt, key) = Txt(records, key)
                      /\ \/ Txt(LinuxRecords, <<>>) = Txt(records, <<>>)
                         \/ <<>> \in ToSet(sent) /\ Txt(LinuxRecords, <<>>) = NoValue
                      /\ Txt(ReadTxt, <<>>) = NoValue
    BY Zenon DEF PlatformsAgree
  <2>1. sent \in Seq(Seq(Bytes)) /\ records \in Seq(Parses)
    BY DEF TraceInv
  <2>2. PICK f : /\ Thinned(Parses, records, LinuxRecords, f)
                 /\ \A p \in 1..Len(sent) : sent[p] # <<>> => \E j \in 1..Len(records) : f[j] = p
    BY ParsedThinned
  <2>3. Thinned(Parses, records, LinuxRecords, f)
    BY <2>2
  <2>4. /\ LinuxRecords \in Seq(Parses) /\ Len(LinuxRecords) = Len(sent)
        /\ \A k \in 1..Len(sent) : LinuxRecords[k] = ParseEntry(sent[k])
    BY <2>1, LinuxFacts
  <2>5. ASSUME NEW key \in Keys \ {<<>>}
        PROVE  /\ Txt(LinuxRecords, key) = Txt(records, key)
               /\ PlainText => Txt(ReadTxt, key) = Txt(records, key)
    <3>1. key # <<>> /\ LinuxRecords \in Seq(Parses)
      BY <2>4
    <3>2. Agree(LinuxRecords, records, key)
      BY <2>3, <3>1, ThinnedAgree, Zenon
    <3>3. ASSUME PlainText PROVE Agree(LinuxRecords, ReadTxt, key)
      <4>1. PICK h : Thinned(OsRecords, ReadTxt, LinuxRecords, h)
        BY <2>1, <3>3, ReadThinned, Zenon
      <4>2. QED
        BY <3>1, <4>1, ThinnedAgree, Zenon
    <3>4. QED
      BY <3>2, <3>3, Zenon DEF Agree
  <2>6. \/ Txt(LinuxRecords, <<>>) = Txt(records, <<>>)
        \/ <<>> \in ToSet(sent) /\ Txt(LinuxRecords, <<>>) = NoValue
    <3>1. CASE \A k \in 1..Len(LinuxRecords) : LinuxRecords[k].key # <<>>
      <4>1. \A k \in 1..Len(records) : records[k].key # <<>>
        BY <2>2, <3>1 DEF Thinned
      <4>2. Txt(LinuxRecords, <<>>) = NoValue
        BY <2>4, <3>1, TxtOfNone, Zenon
      <4>3. Txt(records, <<>>) = NoValue
        BY <2>1, <4>1, TxtOfNone, Zenon
      <4>4. QED
        BY <4>2, <4>3, Zenon
    <3>2. CASE \E k \in 1..Len(LinuxRecords) : LinuxRecords[k].key = <<>>
      <4>1. PICK a : Answers(LinuxRecords, <<>>, a)
        BY <2>4, <3>2, TxtIsFirst, Zenon
      <4>2. a \in 1..Len(sent) /\ Txt(LinuxRecords, <<>>) = ParseEntry(sent[a]).value
        BY <2>4, <4>1, Zenon DEF Answers
      <4>3. CASE sent[a] = <<>>
        <5>1. <<>> \in ToSet(sent)
          <6>1. DOMAIN sent = 1..Len(sent)
            BY <2>1, LenProperties
          <6>2. QED
            BY <4>2, <4>3, <6>1 DEF ToSet
        <5>2. QED
          BY <4>2, <4>3, <5>1, EmptyKey, Zenon
      <4>4. CASE sent[a] # <<>>
        <5>1. (\E j \in 1..Len(records) : f[j] = a) /\ LinuxRecords \in Seq(Parses)
          BY <2>2, <2>4, <4>2, <4>4, Zenon
        <5>2. AnswerKept(Parses, records, LinuxRecords, f, <<>>, a)
          BY <2>3, <4>1, <5>1, Zenon DEF AnswerKept
        <5>3. Agree(LinuxRecords, records, <<>>)
          BY <5>2, KeptAnswer, Zenon
        <5>4. QED
          BY <5>3, Zenon DEF Agree
      <4>5. QED
        BY <4>3, <4>4
    <3>3. QED
      BY <3>1, <3>2, Zenon
  <2>7. Txt(ReadTxt, <<>>) = NoValue
    <3>1. ReadTxt \in Seq(OsRecords) /\ \A k \in 1..Len(ReadTxt) : ReadTxt[k].key # <<>>
      BY <2>1, ReadThinned, Zenon
    <3>2. QED
      BY <3>1, TxtOfNone, Zenon
  <2>8. QED
    BY <2>5, <2>6, <2>7, Zenon
<1>2. QED
  BY <1>1, BuffersTraced, PTL

-----------------------------------------------------------------------------
(* The interface of a request.                                             *)

(* The meta-query runs only for an index that was accepted, and what it    *)
(* finds is browsed with that index.                                       *)
IndexInv ==
  /\ asked.ifc \in Indices
  /\ stage = "meta" => ~Refused(asked.ifc)
  /\ NeverWidened

(* An index that is not refused keeps its meaning in the native call: 0    *)
(* becomes the platform's "any interface", every other one stands for      *)
(* itself, as i32 too.                                                     *)
LEMMA AcceptedKeepsMeaning ==
  ASSUME NEW n \in Indices, ~Refused(n)
  PROVE  IF n = 0 THEN Anywhere(Native(n)) ELSE Restricted(Native(n), n)
<1>1. n \in Int /\ n >= 0
  BY DEF Indices
<1>2. platform = "linux" => AsI32(n) = n
  BY DEF Refused, AsI32
<1>3. QED
  BY <1>1, <1>2 DEF Native, Anywhere, Restricted, Unspec

LEMMA BrowseKeepsIndex ==
  ASSUME NEW q, NEW t, NEW d, asked.ifc \in Indices, ~Refused(asked.ifc), Browse(q, t, d),
         UNCHANGED <<asked, platform>>
  PROVE  NeverWidened'
<1>1. browse'.ifc = Native(asked.ifc)
  BY DEF Browse
<1>2. IF asked.ifc = 0 THEN Anywhere(browse'.ifc) ELSE Restricted(browse'.ifc, asked.ifc)
  BY <1>1, AcceptedKeepsMeaning
<1>3. QED
  BY <1>2 DEF NeverWidened, Anywhere, Restricted

(* A browse for one interface is never widened to all of them nor moved to *)
(* another one, on any platform: interface_to_avahi refuses the indices    *)
(* that `as i32` would turn into AVAHI_IF_UNSPEC or another negative value.*)
THEOREM InterfaceKept == IdSpec => []NeverWidened
<1>1. IdInit => IndexInv
  BY DEF IdInit, IndexInv, NeverWidened
<1>2. IndexInv /\ [IdNext]_idVars => IndexInv'
  <2> SUFFICES ASSUME IndexInv, [IdNext]_idVars PROVE IndexInv'
    OBVIOUS
  <2>1. UNCHANGED <<asked, platform>>
    BY DEF IdNext, idVars, Ask, MetaReply, Found, Removed, Probe, Settled
  <2>2. asked'.ifc \in Indices
    BY <2>1 DEF IndexInv
  <2>3. ASSUME UNCHANGED browse PROVE NeverWidened'
    BY <2>1, <2>3 DEF IndexInv, NeverWidened, Anywhere, Restricted
  <2>4. CASE Ask
    <3>1. CASE Refused(asked.ifc)
      BY <2>2, <2>3, <2>4, <3>1 DEF Ask, IndexInv
    <3>2. CASE ~Refused(asked.ifc) /\ asked.all
      BY <2>1, <2>2, <2>3, <2>4, <3>2 DEF Ask, IndexInv, Refused
    <3>3. CASE ~Refused(asked.ifc) /\ ~asked.all
      <4>1. Browse(JoinParts(<<TypeText, DomainText>>), TypeText, DomainText) /\ stage' = "browse"
        BY <2>4, <3>3 DEF Ask
      <4>2. NeverWidened'
        BY <2>1, <3>3, <4>1, BrowseKeepsIndex DEF IndexInv
      <4>3. QED
        BY <2>2, <4>1, <4>2 DEF IndexInv
    <3>4. QED
      BY <3>1, <3>2, <3>3
  <2>5. CASE MetaReply
    <3>1. ~Refused(asked.ifc) /\ stage' = "browse"
      BY <2>5 DEF MetaReply, IndexInv
    <3>2. \E q, t, d : Browse(q, t, d)
      BY <2>5 DEF MetaReply
    <3>3. NeverWidened'
      BY <2>1, <3>1, <3>2, BrowseKeepsIndex DEF IndexInv
    <3>4. QED
      BY <2>2, <3>1, <3>3 DEF IndexInv
  <2>6. CASE Found \/ Removed \/ Probe
    BY <2>2, <2>3, <2>6 DEF Found, Removed, Probe, IndexInv
  <2>7. CASE Settled \/ UNCHANGED idVars
    <3>1. UNCHANGED <<stage, browse>>
      BY <2>7 DEF Settled, idVars
    <3>2. QED
      BY <2>1, <2>2, <2>3, <3>1 DEF IndexInv, Refused
  <2>8. QED
    BY <2>4, <2>5, <2>6, <2>7 DEF IdNext
<1>3. IndexInv => NeverWidened
  BY DEF IndexInv
<1>4. QED
  BY <1>1, <1>2, <1>3, PTL DEF IdSpec

-----------------------------------------------------------------------------
(* Names.                                                                  *)

Text == Seq(Tokens)

LEMMA DotIsText == <<Dot>> \in Text /\ \A s \in Text : <<Dot>> \o s \in Text
<1>1. <<Dot>> \in Text
  BY IdentityConstantsOK DEF Text
<1>2. QED
  BY <1>1, ConcatProperties, Zenon DEF Text

LEMMA JoinTwo ==
  ASSUME NEW a \in Text, NEW b \in Text
  PROVE  JoinParts(<<a, b>>) = a \o (<<Dot>> \o b) /\ JoinParts(<<a, b>>) \in Text
<1> DEFINE ps == <<a, b>>
           db == <<Dot>> \o ps[2]
           s == [k \in DOMAIN ps |-> IF k = 1 THEN ps[k] ELSE <<Dot>> \o ps[k]]
<1>1. DOMAIN ps = 1..2 /\ ps[1] = a /\ ps[2] = b
  OBVIOUS
<1>2. 1 \in 1..2 /\ 2 \in 1..2 /\ 2 # 1 /\ \A k \in 1..2 : k = 1 \/ k = 2
  OBVIOUS
<1> HIDE DEF ps
<1>3. DOMAIN s = 1..2 /\ s[1] = a /\ s[2] = db
  BY <1>1, <1>2, Zenon
<1>4. s = [k \in 1..2 |-> s[k]]
  BY <1>1, Zenon
<1>5. JoinParts(ps) = FlattenSeq(s)
  BY Zenon DEF JoinParts
<1> HIDE DEF s, db
<1>6. s = <<a, db>>
  BY <1>2, <1>3, <1>4
<1>7. JoinParts(ps) = a \o db
  <2>1. Len(s) = 2
    BY <1>6
  <2>2. QED
    BY <1>3, <1>5, <2>1, FlattenTwo, Zenon
<1>8. db = <<Dot>> \o b
  BY <1>1, Zenon DEF db
<1>9. a \o (<<Dot>> \o b) \in Text
  BY DotIsText, ConcatProperties, Zenon DEF Text
<1>10. QED
  BY <1>7, <1>8, <1>9, Zenon DEF ps

LEMMA JoinThree ==
  ASSUME NEW a \in Text, NEW b \in Text, NEW c \in Text
  PROVE  /\ JoinParts(<<a, b, c>>) = a \o (<<Dot>> \o JoinParts(<<b, c>>))
         /\ JoinParts(<<a, b, c>>) \in Text
<1> DEFINE ps == <<a, b, c>>
           db == <<Dot>> \o ps[2]
           dc == <<Dot>> \o ps[3]
           s == [k \in DOMAIN ps |-> IF k = 1 THEN ps[k] ELSE <<Dot>> \o ps[k]]
<1>1. DOMAIN ps = 1..3 /\ ps[1] = a /\ ps[2] = b /\ ps[3] = c
  OBVIOUS
<1>2. 1 \in 1..3 /\ 2 \in 1..3 /\ 3 \in 1..3 /\ 2 # 1 /\ 3 # 1 /\ \A k \in 1..3 : k = 1 \/ k = 2 \/ k = 3
  OBVIOUS
<1> HIDE DEF ps
<1>3. DOMAIN s = 1..3 /\ s[1] = a /\ s[2] = db /\ s[3] = dc
  BY <1>1, <1>2, Zenon
<1>4. s = [k \in 1..3 |-> s[k]]
  BY <1>1, Zenon
<1>5. JoinParts(ps) = FlattenSeq(s)
  BY Zenon DEF JoinParts
<1>6. db \in Text /\ dc \in Text /\ db = <<Dot>> \o b
  BY <1>1, DotIsText, Zenon
<1>7. dc = <<Dot>> \o c
  BY <1>1, Zenon
<1> HIDE DEF s, db, dc
<1>8. s = <<a, db, dc>>
  BY <1>2, <1>3, <1>4
<1>9. JoinParts(ps) = (a \o db) \o dc
  <2>1. Len(s) = 3
    BY <1>8
  <2>2. QED
    BY <1>3, <1>5, <2>1, FlattenThree, Zenon
<1>10. (a \o db) \o dc = a \o (db \o dc)
  BY <1>6, ConcatAssociative DEF Text
<1>11. (<<Dot>> \o b) \o dc = <<Dot>> \o (b \o dc)
  BY <1>6, DotIsText, ConcatAssociative DEF Text
<1>12. JoinParts(<<b, c>>) = b \o dc /\ JoinParts(<<b, c>>) \in Text
  BY <1>7, JoinTwo, Zenon
<1>13. JoinParts(ps) = a \o (<<Dot>> \o JoinParts(<<b, c>>))
  BY <1>6, <1>9, <1>10, <1>11, <1>12, Zenon
<1>14. a \o (<<Dot>> \o JoinParts(<<b, c>>)) \in Text
  BY <1>12, DotIsText, ConcatProperties, Zenon DEF Text
<1>15. QED
  BY <1>13, <1>14, Zenon DEF ps

(* s is the labels ls with a dot between each and the next. *)
Labelled(s, ls) ==
  /\ s \in Text /\ Len(ls) \in Nat \ {0} /\ Len(s) = 2 * Len(ls) - 1
  /\ \A k \in 1..Len(ls) : s[2 * k - 1] = ls[k]
  /\ \A k \in 1..(Len(ls) - 1) : s[2 * k] = Dot

LEMMA JoinLabelled ==
  ASSUME NEW ls \in Text, ls # <<>>
  PROVE  Labelled(Join(ls), ls)
<1> DEFINE ps == [k \in DOMAIN ls |-> <<ls[k]>>]
           s == [k \in DOMAIN ps |-> IF k = 1 THEN ps[k] ELSE <<Dot>> \o ps[k]]
           n == Len(ls)
           t == Join(ls)
<1>1. DOMAIN ls = 1..n /\ n \in Nat /\ n # 0 /\ \A k \in 1..n : ls[k] \in Tokens
  BY LenProperties, ElementOfSeq, EmptySeq DEF Text
<1>2. DOMAIN ps = 1..n /\ \A k \in 1..n : ps[k] = <<ls[k]>>
  BY <1>1, Zenon
<1>3. t = FlattenSeq(s)
  BY Zenon DEF Join, JoinParts
<1> HIDE DEF ps
<1>4. DOMAIN s = 1..n /\ \A k \in 1..n : s[k] = IF k = 1 THEN ps[k] ELSE <<Dot>> \o ps[k]
  BY <1>2, Zenon
<1>5. s = [k \in 1..n |-> s[k]]
  BY <1>2, Zenon
<1> HIDE DEF s, t
<1>6. s[1] = <<ls[1]>>
  BY <1>1, <1>2, <1>4
<1>7. ASSUME NEW k \in 1..n, k # 1
      PROVE  s[k] \in Seq(Tokens) /\ Len(s[k]) = 2 /\ s[k][1] = Dot /\ s[k][2] = ls[k]
  <2> DEFINE d == <<Dot>>
             x == <<ls[k]>>
             c == s[k]
  <2>1. c = d \o x
    BY <1>2, <1>4, <1>7, Zenon
  <2>2. /\ d \in Seq(Tokens) /\ Len(d) = 1 /\ d[1] = Dot
        /\ x \in Seq(Tokens) /\ Len(x) = 1 /\ x[1] = ls[k]
    BY <1>1, IdentityConstantsOK
  <2> HIDE DEF c, d, x
  <2>3. Glued(Tokens, d, x, c)
    BY <2>1, <2>2, ConcatFacts, Zenon
  <2>4. c \in Seq(Tokens) /\ Len(c) = 2 /\ c[1] = Dot /\ c[2] = ls[k]
    BY <2>2, <2>3 DEF Glued
  <2>5. QED
    BY <2>4 DEF c
<1>8. \A k \in 1..n : /\ s[k] \in Seq(Tokens)
                      /\ k = 1 => Len(s[k]) = 1 /\ s[k][1] = ls[k]
                      /\ k # 1 => Len(s[k]) = 2 /\ s[k][1] = Dot /\ s[k][2] = ls[k]
  <2>1. s[1] \in Seq(Tokens) /\ Len(s[1]) = 1 /\ s[1][1] = ls[1]
    BY <1>1, <1>6
  <2>2. QED
    BY <1>7, <2>1, Zenon
<1>9. s \in Seq(Seq(Tokens)) /\ Len(s) = n
  BY <1>1, <1>4, <1>5, <1>8
<1>10. t \in Seq(Tokens) /\ \E off : Layout(s, t, off)
  BY <1>3, <1>9, FlattenLayout
<1>11. PICK off : Layout(s, t, off)
  BY <1>10
<1>12. /\ off \in [0..n -> Nat] /\ off[0] = 0 /\ off[n] = Len(t)
       /\ \A k \in 1..n : off[k] = off[k - 1] + Len(s[k])
       /\ \A k \in 1..n : \A j \in 1..Len(s[k]) : t[off[k - 1] + j] = s[k][j]
  BY <1>9, <1>11 DEF Layout
<1> DEFINE P == {k \in Nat : off[k] = 2 * k - 1}
<1>13. 1 \in P
  <2>1. 1 \in 1..n /\ 1 - 1 = 0
    BY <1>1
  <2>2. off[1] = 0 + 1
    BY <1>8, <1>12, <2>1
  <2>3. QED
    BY <2>2
<1>14. ASSUME NEW k \in 1..(n - 1), k \in P PROVE k + 1 \in P
  <2>1. k \in Nat /\ k + 1 \in Nat /\ k + 1 \in 1..n /\ (k + 1) - 1 = k /\ k + 1 # 1
    BY <1>1
  <2>2. off[k + 1] = off[k] + Len(s[k + 1]) /\ Len(s[k + 1]) = 2
    BY <1>8, <1>12, <2>1
  <2>3. off[k + 1] = (2 * k - 1) + 2
    BY <1>14, <2>2
  <2>4. QED
    BY <2>1, <2>3
<1> HIDE DEF P
<1>15. \A k \in 1..n : off[k] = 2 * k - 1
  <2>1. \A k \in 1..n : k \in P
    BY <1>1, <1>13, <1>14, Induction
  <2>2. QED
    BY <2>1 DEF P
<1>16. ASSUME NEW k \in 1..n PROVE t[2 * k - 1] = ls[k]
  <2>1. CASE k = 1
    <3>1. t[off[1 - 1] + 1] = s[1][1]
      BY <1>1, <1>8, <1>12, <2>1
    <3>2. off[1 - 1] + 1 = 1 /\ 2 * 1 - 1 = 1
      BY <1>12
    <3>3. QED
      BY <1>8, <2>1, <3>1, <3>2
  <2>2. CASE k # 1
    <3>1. k - 1 \in 1..n
      BY <1>1, <2>2
    <3>2. off[k - 1] = 2 * (k - 1) - 1
      BY <1>15, <3>1
    <3>3. 2 \in 1..Len(s[k])
      BY <1>8, <2>2
    <3>4. t[off[k - 1] + 2] = s[k][2]
      BY <1>12, <3>3, Zenon
    <3>5. off[k - 1] + 2 = 2 * k - 1
      BY <3>1, <3>2
    <3>6. QED
      BY <1>8, <2>2, <3>4, <3>5
  <2>3. QED
    BY <2>1, <2>2
<1>17. ASSUME NEW k \in 1..(n - 1) PROVE t[2 * k] = Dot
  <2>1. k \in 1..n /\ k + 1 \in 1..n /\ k + 1 # 1 /\ (k + 1) - 1 = k
    BY <1>1
  <2>2. off[k] = 2 * k - 1
    BY <1>15, <2>1
  <2>3. 1 \in 1..Len(s[k + 1]) /\ s[k + 1][1] = Dot
    BY <1>8, <2>1
  <2>4. t[off[(k + 1) - 1] + 1] = s[k + 1][1]
    BY <1>12, <2>1, <2>3, Zenon
  <2>5. off[k] + 1 = 2 * k
    BY <2>1, <2>2
  <2>6. QED
    BY <2>1, <2>3, <2>4, <2>5, Zenon
<1>18. Len(t) = 2 * n - 1
  <2>1. n \in 1..n
    BY <1>1
  <2>2. QED
    BY <1>12, <1>15, <2>1, Zenon
<1>19. Labelled(t, ls)
  BY <1>1, <1>10, <1>16, <1>17, <1>18 DEF Labelled, Text
<1>20. QED
  BY <1>19 DEF t

LEMMA OddOrEven ==
  ASSUME NEW n \in Nat, NEW p \in 1..(2 * n - 1)
  PROVE  (\E k \in 1..n : p = 2 * k - 1) \/ (\E k \in 1..(n - 1) : p = 2 * k)
<1> DEFINE h == p \div 2
<1>1. h \in Nat /\ (p = 2 * h \/ p = 2 * h + 1)
  OBVIOUS
<1> HIDE DEF h
<1>2. CASE p = 2 * h
  <2>1. h \in 1..(n - 1)
    BY <1>1, <1>2
  <2>2. QED
    BY <1>2, <2>1
<1>3. CASE p = 2 * h + 1
  <2>1. h + 1 \in 1..n /\ p = 2 * (h + 1) - 1
    BY <1>1, <1>3
  <2>2. QED
    BY <2>1
<1>4. QED
  BY <1>1, <1>2, <1>3

LEMMA LabelledUnique ==
  ASSUME NEW ls, NEW s, NEW t, Labelled(s, ls), Labelled(t, ls)
  PROVE  s = t
<1> DEFINE n == Len(ls)
<1>1. n \in Nat /\ s \in Seq(Tokens) /\ t \in Seq(Tokens) /\ Len(s) = 2 * n - 1 /\ Len(t) = 2 * n - 1
  BY DEF Labelled, Text
<1>2. /\ \A k \in 1..n : s[2 * k - 1] = ls[k] /\ t[2 * k - 1] = ls[k]
      /\ \A k \in 1..(n - 1) : s[2 * k] = Dot /\ t[2 * k] = Dot
  BY DEF Labelled
<1> HIDE DEF n
<1>3. ASSUME NEW p \in 1..(2 * n - 1) PROVE s[p] = t[p]
  <2>1. CASE \E k \in 1..n : p = 2 * k - 1
    BY <1>2, <2>1, Zenon
  <2>2. CASE \E k \in 1..(n - 1) : p = 2 * k
    BY <1>2, <2>2, Zenon
  <2>3. QED
    BY <1>1, <2>1, <2>2, OddOrEven
<1>4. QED
  BY <1>1, <1>3, SeqEqual

LEMMA LabelledConcat ==
  ASSUME NEW a \in Text, NEW b \in Text, NEW s, NEW t, Labelled(s, a), Labelled(t, b)
  PROVE  Labelled(s \o (<<Dot>> \o t), a \o b)
<1> DEFINE d == <<Dot>>
           u == d \o t
           c == s \o u
           ls == a \o b
           x == Len(a)
           y == Len(b)
<1>1. /\ x \in Nat \ {0} /\ s \in Seq(Tokens) /\ Len(s) = 2 * x - 1
      /\ \A k \in 1..x : s[2 * k - 1] = a[k]
      /\ \A k \in 1..(x - 1) : s[2 * k] = Dot
  BY DEF Labelled, Text
<1>2. /\ y \in Nat \ {0} /\ t \in Seq(Tokens) /\ Len(t) = 2 * y - 1
      /\ \A k \in 1..y : t[2 * k - 1] = b[k]
      /\ \A k \in 1..(y - 1) : t[2 * k] = Dot
  BY DEF Labelled, Text
<1>3. d \in Seq(Tokens) /\ Len(d) = 1 /\ d[1] = Dot /\ 1 \in 1..1
  BY IdentityConstantsOK
<1> HIDE DEF d
<1>4. Glued(Tokens, d, t, u)
  BY <1>2, <1>3, ConcatFacts, Zenon
<1>5. Glued(Tokens, a, b, ls)
  BY ConcatFacts, Zenon DEF Text
<1> HIDE DEF u, ls
<1>6. u \in Seq(Tokens) /\ Len(u) = 2 * y /\ u[1] = Dot /\ \A j \in 1..Len(t) : u[1 + j] = t[j]
  BY <1>2, <1>3, <1>4 DEF Glued
<1>7. Glued(Tokens, s, u, c)
  BY <1>1, <1>6, ConcatFacts, Zenon
<1> HIDE DEF c
<1>8. /\ c \in Seq(Tokens) /\ Len(c) = (2 * x - 1) + 2 * y
      /\ \A p \in 1..(2 * x - 1) : c[p] = s[p]
      /\ \A j \in 1..(2 * y) : c[(2 * x - 1) + j] = u[j]
  BY <1>1, <1>6, <1>7, Zenon DEF Glued
<1>9. /\ Len(ls) = x + y
      /\ \A k \in 1..x : ls[k] = a[k]
      /\ \A k \in 1..y : ls[x + k] = b[k]
  BY <1>5, Zenon DEF Glued
<1>10. \A j \in 1..(2 * y - 1) : u[1 + j] = t[j]
  BY <1>2, <1>6, Zenon
<1> HIDE DEF x, y
<1>11. \A k \in 1..(x + y) : k \in 1..x \/ k - x \in 1..y
  BY <1>1, <1>2
<1>12. ASSUME NEW k \in 1..(x + y) PROVE c[2 * k - 1] = ls[k]
  <2>1. CASE k \in 1..x
    <3>1. 2 * k - 1 \in 1..(2 * x - 1)
      BY <1>1, <2>1
    <3>2. QED
      BY <1>1, <1>8, <1>9, <2>1, <3>1, Zenon
  <2>2. CASE k - x \in 1..y
    <3> DEFINE j == k - x
    <3>1. /\ j \in 1..y /\ 2 * j - 1 \in 1..(2 * y - 1) /\ 1 + (2 * j - 1) \in 1..(2 * y)
          /\ 2 * k - 1 = (2 * x - 1) + (1 + (2 * j - 1)) /\ k = x + j
      BY <1>1, <1>2, <2>2
    <3> HIDE DEF j
    <3>2. c[2 * k - 1] = u[1 + (2 * j - 1)]
      BY <1>8, <3>1, Zenon
    <3>3. u[1 + (2 * j - 1)] = t[2 * j - 1]
      BY <1>10, <3>1, Zenon
    <3>4. QED
      BY <1>2, <1>9, <3>1, <3>2, <3>3, Zenon
  <2>3. QED
    BY <1>11, <2>1, <2>2
<1>13. ASSUME NEW k \in 1..((x + y) - 1) PROVE c[2 * k] = Dot
  <2>1. CASE k < x
    <3>1. k \in 1..(x - 1) /\ 2 * k \in 1..(2 * x - 1)
      BY <1>1, <2>1
    <3>2. QED
      BY <1>1, <1>8, <3>1, Zenon
  <2>2. CASE k = x
    <3>1. 1 \in 1..(2 * y) /\ 2 * k = (2 * x - 1) + 1
      BY <1>1, <1>2, <2>2
    <3>2. QED
      BY <1>6, <1>8, <3>1, Zenon
  <2>3. CASE k > x
    <3> DEFINE j == k - x
    <3>1. /\ j \in 1..(y - 1) /\ 2 * j \in 1..(2 * y - 1) /\ 1 + 2 * j \in 1..(2 * y)
          /\ 2 * k = (2 * x - 1) + (1 + 2 * j)
      BY <1>1, <1>2, <2>3
    <3> HIDE DEF j
    <3>2. c[2 * k] = u[1 + 2 * j]
      BY <1>8, <3>1, Zenon
    <3>3. u[1 + 2 * j] = t[2 * j]
      BY <1>10, <3>1, Zenon
    <3>4. QED
      BY <1>2, <3>1, <3>2, <3>3, Zenon
  <2>4. QED
    BY <1>1, <2>1, <2>2, <2>3
<1>14. Len(c) = 2 * (x + y) - 1 /\ x + y \in Nat \ {0}
  BY <1>1, <1>2, <1>8
<1>15. Labelled(c, ls)
  BY <1>8, <1>9, <1>12, <1>13, <1>14, Zenon DEF Labelled, Text
<1>16. QED
  BY <1>15, Zenon DEF c, u, d, ls

(* Joining labels in two parts. *)
LEMMA JoinConcat ==
  ASSUME NEW a \in Text, a # <<>>, NEW b \in Text, b # <<>>
  PROVE  Join(a \o b) = JoinParts(<<Join(a), Join(b)>>) /\ Join(a) \in Text /\ Join(b) \in Text
<1> DEFINE ls == a \o b
<1>1. ls \in Text /\ ls # <<>>
  BY ConcatProperties, ConcatEqualIffEmpty DEF Text
<1>2. Labelled(Join(a), a) /\ Labelled(Join(b), b)
  BY JoinLabelled
<1>3. Labelled(Join(a) \o (<<Dot>> \o Join(b)), ls)
  BY <1>2, LabelledConcat, Zenon
<1> HIDE DEF ls
<1>4. Labelled(Join(ls), ls)
  BY <1>1, JoinLabelled
<1>5. Join(a) \in Text /\ Join(b) \in Text
  BY <1>2 DEF Labelled
<1>6. JoinParts(<<Join(a), Join(b)>>) = Join(a) \o (<<Dot>> \o Join(b))
  BY <1>5, JoinTwo
<1>7. Join(ls) = JoinParts(<<Join(a), Join(b)>>)
  BY <1>3, <1>4, <1>6, LabelledUnique, Zenon
<1>8. QED
  BY <1>5, <1>7, Zenon DEF ls

Labels == Seq(Tokens \ {Dot})

(* A name of labels does not end in a dot. *)
LEMMA JoinEnds ==
  ASSUME NEW ls \in Labels, ls # <<>>
  PROVE  /\ ls \in Text /\ Join(ls) \in Text /\ Len(Join(ls)) >= 1
         /\ Join(ls)[1] # Dot /\ Join(ls)[Len(Join(ls))] # Dot
<1>1. ls \in Text
  BY SeqMonotonic DEF Labels, Text
<1> DEFINE s == Join(ls)
           n == Len(ls)
<1>2. Labelled(s, ls)
  BY <1>1, JoinLabelled
<1>3. \A k \in 1..n : ls[k] # Dot
  BY DEF Labels
<1> HIDE DEF s
<1>4. s \in Text /\ n \in Nat \ {0} /\ Len(s) = 2 * n - 1 /\ \A k \in 1..n : s[2 * k - 1] = ls[k]
  BY <1>2, Zenon DEF Labelled
<1>5. 1 \in 1..n /\ n \in 1..n /\ 2 * 1 - 1 = 1 /\ Len(s) >= 1
  BY <1>4
<1>6. s[1] = ls[1] /\ s[Len(s)] = ls[n]
  <2>1. s[2 * 1 - 1] = ls[1] /\ s[2 * n - 1] = ls[n]
    BY <1>4, <1>5, Zenon
  <2>2. QED
    BY <1>4, <1>5, <2>1
<1>7. QED
  BY <1>1, <1>3, <1>4, <1>5, <1>6, Zenon DEF s

(* trim_end_matches('.') takes the final dot and nothing else. *)
LEMMA TrimKeeps ==
  ASSUME NEW s \in Text, Len(s) >= 1, s[Len(s)] # Dot
  PROVE  TrimDot(s) = s /\ TrimDot(s \o <<Dot>>) = s
<1> DEFINE d == <<Dot>>
           c == s \o d
           x == Len(s)
           kept(t) == {0} \cup (DOMAIN t \ Dots(t))
<1>1. d \in Seq(Tokens) /\ Len(d) = 1 /\ d[1] = Dot /\ 1 \in 1..1
  BY IdentityConstantsOK
<1> HIDE DEF d
<1>2. s \in Seq(Tokens) /\ x \in Nat /\ DOMAIN s = 1..x
  BY LenProperties DEF Text
<1>3. Glued(Tokens, s, d, c)
  BY <1>1, <1>2, ConcatFacts, Zenon
<1>4. SubSeq(c, 1, Len(c) - Len(d)) = s
  BY <1>1, <1>2, SuffixOfConcat, Zenon
<1> HIDE DEF c
<1>5. /\ c \in Seq(Tokens) /\ Len(c) = x + 1
      /\ \A p \in 1..x : c[p] = s[p]
      /\ c[x + 1] = Dot
  BY <1>1, <1>3, Zenon DEF Glued
<1>6. DOMAIN c = 1..(x + 1)
  BY <1>5, LenProperties
<1>7. TrimDot(s) = s
  <2>1. kept(s) \subseteq Int /\ x \in kept(s) /\ \A q \in kept(s) : x >= q
    BY <1>2 DEF Dots
  <2> DEFINE K == kept(s)
  <2>2. TrimDot(s) = SubSeq(s, 1, Max(K))
    BY Zenon DEF TrimDot
  <2> HIDE DEF K
  <2>3. Max(K) = x
    BY <2>1, MaxIs DEF K
  <2>4. QED
    BY <1>2, <2>2, <2>3, SubSeqFull, Zenon
<1>8. TrimDot(c) = s
  <2>1. kept(c) \subseteq Int /\ x \in kept(c) /\ \A q \in kept(c) : x >= q
    BY <1>2, <1>5, <1>6 DEF Dots
  <2> DEFINE K == kept(c)
  <2>2. TrimDot(c) = SubSeq(c, 1, Max(K))
    BY Zenon DEF TrimDot
  <2> HIDE DEF K
  <2>3. Max(K) = x
    BY <2>1, MaxIs DEF K
  <2>4. Len(c) - Len(d) = x
    BY <1>1, <1>2, <1>5
  <2>5. QED
    BY <1>4, <2>2, <2>3, <2>4, Zenon
<1>9. QED
  BY <1>7, <1>8, Zenon DEF c, d

Associates(a, b, c) == (a \o b) \o c = a \o (b \o c) /\ a \o b \in Text

LEMMA TextAssociates ==
  ASSUME NEW a \in Text, NEW b \in Text, NEW c \in Text
  PROVE  Associates(a, b, c)
<1>1. a \in Seq(Tokens) /\ b \in Seq(Tokens) /\ c \in Seq(Tokens)
  BY Zenon DEF Text
<1>2. (a \o b) \o c = a \o (b \o c)
  BY <1>1, ConcatAssociative
<1>3. QED
  BY <1>1, <1>2, ConcatProperties, Zenon DEF Text, Associates

(* What the daemon spells with or without a final dot is trimmed alike. *)
LEMMA SpelledTrims ==
  ASSUME NEW ls \in Labels, ls # <<>>, NEW s \in Spelled(ls)
  PROVE  TrimDot(s) = Join(ls)
<1>1. s = Join(ls) \/ s = Join(ls) \o <<Dot>>
  BY Zenon DEF Spelled, Absolute
<1>2. QED
  BY <1>1, JoinEnds, TrimKeeps, Zenon

(* handle_ptr cuts at the last dot. *)
LEMMA CutAtLast ==
  ASSUME NEW a \in Text, NEW l \in Tokens \ {Dot}
  PROVE  /\ CutLast(a \o (<<Dot>> \o <<l>>)) = [type |-> a, domain |-> <<l>>]
         /\ JoinParts(<<a, <<l>>>>) = a \o (<<Dot>> \o <<l>>)
<1> DEFINE d == <<Dot>>
           e == <<l>>
           u == d \o e
           c == a \o u
           x == Len(a)
<1>1. d \in Seq(Tokens) /\ Len(d) = 1 /\ d[1] = Dot /\ e \in Seq(Tokens) /\ Len(e) = 1 /\ e[1] = l
  BY IdentityConstantsOK
<1>2. JoinParts(<<a, e>>) = a \o (<<Dot>> \o e)
  BY <1>1, JoinTwo, Zenon DEF Text
<1> HIDE DEF d, e
<1>3. Glued(Tokens, d, e, u)
  BY <1>1, ConcatFacts, Zenon
<1> HIDE DEF u
<1>4. u \in Seq(Tokens) /\ Len(u) = 2 /\ u[1] = Dot /\ u[2] = l
  BY <1>1, <1>3 DEF Glued
<1>5. Glued(Tokens, a, u, c)
  BY <1>4, ConcatFacts, Zenon DEF Text
<1> HIDE DEF c
<1>6. /\ c \in Seq(Tokens) /\ x \in Nat /\ Len(c) = x + 2
      /\ \A p \in 1..x : c[p] = a[p]
      /\ c[x + 1] = Dot /\ c[x + 2] = l
  BY <1>4, <1>5 DEF Glued
<1>7. DOMAIN c = 1..(x + 2)
  BY <1>6, LenProperties
<1>8. Max(Dots(c)) = x + 1
  <2> DEFINE K == Dots(c)
  <2>1. K \in SUBSET Int /\ x + 1 \in K /\ \A q \in K : x + 1 >= q
    BY <1>6, <1>7 DEF Dots
  <2> HIDE DEF K
  <2>2. Max(K) = x + 1
    BY <2>1, MaxIs
  <2>3. QED
    BY <2>2 DEF K
<1>9. SubSeq(c, 1, (x + 1) - 1) = a
  <2> DEFINE s == SubSeq(c, 1, x)
  <2>1. \A p \in 1..x : c[p] \in Tokens
    BY <1>6
  <2>2. s \in Seq(Tokens) /\ Len(s) = (IF 1 <= x THEN x - 1 + 1 ELSE 0) /\ \A p \in 1..(x - 1 + 1) : s[p] = c[1 + p - 1]
    BY <1>6, <2>1, SubSeqProperties
  <2> HIDE DEF s
  <2>3. Len(s) = x /\ \A p \in 1..x : s[p] = a[p]
    BY <1>6, <2>2
  <2>4. s = a
    BY <2>2, <2>3, SeqEqual DEF Text
  <2>5. (x + 1) - 1 = x
    BY <1>6
  <2>6. QED
    BY <2>4, <2>5 DEF s
<1>10. SubSeq(c, (x + 1) + 1, Len(c)) = e
  <2> DEFINE s == SubSeq(c, x + 2, x + 2)
  <2>1. \A p \in (x + 2)..(x + 2) : c[p] \in Tokens
    BY <1>6
  <2>2. s \in Seq(Tokens) /\ Len(s) = (IF x + 2 <= x + 2 THEN (x + 2) - (x + 2) + 1 ELSE 0)
        /\ \A p \in 1..((x + 2) - (x + 2) + 1) : s[p] = c[(x + 2) + p - 1]
    BY <1>6, <2>1, SubSeqProperties
  <2> HIDE DEF s
  <2>3. x + 2 <= x + 2 /\ (x + 2) - (x + 2) + 1 = 1 /\ (x + 2) + 1 - 1 = x + 2 /\ 1 \in 1..1
    BY <1>6
  <2>4. Len(s) = 1 /\ s[1] = l
    BY <1>6, <2>2, <2>3, Zenon
  <2>5. \A p \in 1..1 : s[p] = e[p]
    BY <1>1, <2>4
  <2>6. s = e
    BY <1>1, <2>2, <2>4, <2>5, SeqEqual
  <2>7. (x + 1) + 1 = x + 2
    BY <1>6
  <2>8. QED
    BY <1>6, <2>6, <2>7, Zenon DEF s
<1>11. CutLast(c) = [type |-> a, domain |-> e]
  BY <1>8, <1>9, <1>10, Zenon DEF CutLast
<1>12. QED
  BY <1>2, <1>11, Zenon DEF c, u, d, e

(* Joining the type and the domain that handle_ptr cuts a target into      *)
(* gives the target again; the type is the announced one if the domain is  *)
(* of one label.                                                           *)
LEMMA CutRejoins ==
  ASSUME NEW t \in Labels, Len(t) = 2, NEW d \in Labels, Len(d) > 0,
         NEW r, r = CutLast(Join(t \o d))
  PROVE  /\ r.type \in Text /\ r.domain \in Text
         /\ JoinParts(<<r.type, r.domain>>) = JoinParts(<<Join(t), Join(d)>>)
         /\ Len(d) = 1 => r.type = Join(t) /\ r.domain = Join(d)
<1> DEFINE n == Len(d)
           l == d[n]
           f == SubSeq(d, 1, n - 1)
           a == t \o f
           e == <<l>>
<1>1. /\ t \in Text /\ d \in Text /\ n \in Nat /\ n \in 1..n
      /\ \A k \in 1..n : d[k] \in Tokens \ {Dot}
  BY SeqMonotonic, LenProperties DEF Labels, Text
<1>2. l \in Tokens \ {Dot}
  BY <1>1
<1>3. f \in Text /\ d = f \o e /\ (n = 1 => f = <<>>)
  <2>1. 1 \in 1..n
    BY <1>1
  <2>2. SubSeq(d, 1, n) = f \o e
    BY <1>1, <2>1, SubSeqRecursiveSecond, Zenon DEF Text
  <2>3. SubSeq(d, 1, n) = d
    BY <1>1, SubSeqFull, Zenon DEF Text
  <2>4. \A k \in 1..(n - 1) : d[k] \in Tokens
    BY <1>1
  <2>5. f \in Seq(Tokens)
    BY <1>1, <2>4, SubSeqProperties
  <2>6. n = 1 => f = <<>>
    BY <1>1, SubSeqEmpty
  <2>7. QED
    BY <2>2, <2>3, <2>5, <2>6, Zenon DEF Text
<1>4. e \in Text /\ e # <<>> /\ Len(e) = 1
  BY <1>2 DEF Text
<1> HIDE DEF e, f, l
<1>5. a \in Text /\ a # <<>> /\ t # <<>> /\ d # <<>> /\ (n = 1 => a = t)
  <2>1. t # <<>> /\ d # <<>>
    <3>1. Len(<<>>) = 0
      OBVIOUS
    <3>2. Len(t) # 0 /\ Len(d) # 0
      BY <1>1
    <3>3. QED
      BY <3>1, <3>2, Zenon
  <2>2. a \in Text
    BY <1>1, <1>3, ConcatProperties, Zenon DEF Text
  <2>3. a # <<>>
    <3>1. t \in Seq(Tokens) /\ f \in Seq(Tokens)
      BY <1>1, <1>3, Zenon DEF Text
    <3>2. a = <<>> => t = <<>>
      BY <3>1, ConcatEqualIffEmpty
    <3>3. QED
      BY <2>1, <3>2
  <2>4. n = 1 => a = t
    BY <1>1, <1>3, ConcatEmptySeq, Zenon DEF Text
  <2>5. QED
    BY <2>1, <2>2, <2>3, <2>4
<1>6. t \o d = a \o e
  <2>1. Associates(t, f, e)
    BY <1>1, <1>3, <1>4, TextAssociates, Zenon
  <2>2. QED
    BY <1>3, <2>1, Zenon DEF Associates
<1>7. Join(e) = e
  <2>1. Labelled(Join(e), e)
    BY <1>4, JoinLabelled
  <2>2. Labelled(e, e)
    BY <1>4 DEF Labelled
  <2>3. QED
    BY <2>1, <2>2, LabelledUnique, Zenon
<1> HIDE DEF a
<1> DEFINE j == Join(a)
<1>8. Join(a \o e) = JoinParts(<<j, e>>) /\ j \in Text
  BY <1>4, <1>5, <1>7, JoinConcat, Zenon
<1> HIDE DEF j
<1>9. Join(t \o d) = JoinParts(<<j, e>>)
  BY <1>6, <1>8, Zenon
<1>10. JoinParts(<<j, e>>) = j \o (<<Dot>> \o e) /\ CutLast(j \o (<<Dot>> \o e)) = [type |-> j, domain |-> e]
  BY <1>2, <1>8, CutAtLast, Zenon DEF e
<1>11. r = [type |-> j, domain |-> e]
  BY <1>9, <1>10, Zenon
<1>12. r.type = j /\ r.domain = e
  BY <1>11
<1>13. Join(t \o d) = JoinParts(<<Join(t), Join(d)>>)
  BY <1>1, <1>5, JoinConcat, Zenon
<1>14. ASSUME n = 1 PROVE r.type = Join(t) /\ r.domain = Join(d)
  <2>1. d = e
    BY <1>3, <1>4, <1>14, ConcatEmptySeq, Zenon DEF Text
  <2>2. QED
    BY <1>5, <1>7, <1>12, <1>14, <2>1, Zenon DEF j
<1>15. QED
  BY <1>4, <1>8, <1>9, <1>12, <1>13, <1>14, Zenon

-----------------------------------------------------------------------------
(* The identity of the service, from the daemon to an event and back.      *)

Announced == svc.name \in Names /\ svc.type \in Types /\ svc.domain \in Domains /\ svc.ifc \in DaemonIndices

(* The type and domain of r, joined, are those of the service; they are    *)
(* cut elsewhere only by the meta-query on Windows.                        *)
Names2(r) ==
  /\ r.type \in Text /\ r.domain \in Text
  /\ JoinParts(<<r.type, r.domain>>) = JoinParts(<<TypeText, DomainText>>)
  /\ (platform = "windows" /\ asked.all => Len(svc.domain) = 1) =>
        r.type = TypeText /\ r.domain = DomainText

NamesService(e) == e.name = svc.name /\ e.ifc = ToIndex(svc.ifc) /\ Names2(e)

Started == stage \notin {"idle", "refused", "meta"}
Reported == stage \in {"found", "removed", "probed"}

IdentInv ==
  /\ Announced /\ platform \in {"linux", "macos", "windows"}
  /\ stage = "meta" => asked.all
  /\ platform = "windows" /\ Started => Names2(browse)
  /\ Reported => NamesService(event)
  /\ event = Unset \/ NamesService(event)
  /\ removed = Unset \/ (NamesService(removed) /\ NamesService(event))
  /\ ProbeReachesService

LEMMA AnnouncedText ==
  ASSUME Announced
  PROVE  /\ svc.name \in Text /\ TypeText \in Text /\ DomainText \in Text
         /\ svc.type \in Labels /\ Len(svc.type) = 2 /\ svc.type # <<>>
         /\ svc.domain \in Labels /\ Len(svc.domain) > 0 /\ svc.domain # <<>>
<1>1. svc.type \in Labels /\ Len(svc.type) = 2 /\ svc.domain \in Labels /\ Len(svc.domain) > 0
  BY IdentityConstantsOK DEF Announced, Labels
<1>2. Len(<<>>) = 0
  OBVIOUS
<1>3. svc.type # <<>> /\ svc.domain # <<>>
  <2>1. Len(svc.type) # 0 /\ Len(svc.domain) # 0
    BY <1>1
  <2>2. QED
    BY <1>2, <2>1, Zenon
<1>4. svc.name \in Text
  BY IdentityConstantsOK DEF Announced, Text
<1>5. QED
  BY <1>1, <1>3, <1>4, JoinEnds, Zenon DEF TypeText, DomainText

LEMMA TextNames ==
  ASSUME Announced, NEW r, r.type = TypeText, r.domain = DomainText
  PROVE  Names2(r)
BY AnnouncedText, Zenon DEF Names2

(* What the daemon writes on macOS is trimmed to the text. *)
LEMMA TrimmedNames ==
  ASSUME Announced, NEW t \in Absolute(svc.type), NEW d \in Absolute(svc.domain)
  PROVE  NamesService(Trimmed(svc.name, t, d))
<1> DEFINE e == Trimmed(svc.name, t, d)
<1>1. t \in Spelled(svc.type) /\ d \in Spelled(svc.domain)
  BY Zenon DEF Spelled
<1>2. TrimDot(t) = TypeText /\ TrimDot(d) = DomainText
  BY <1>1, AnnouncedText, SpelledTrims, Zenon DEF TypeText, DomainText
<1>3. e.name = svc.name /\ e.ifc = ToIndex(svc.ifc) /\ e.type = TrimDot(t) /\ e.domain = TrimDot(d)
  BY DEF Trimmed, Ident
<1> HIDE DEF e
<1>4. Names2(e)
  BY <1>2, <1>3, TextNames, Zenon
<1>5. QED
  BY <1>3, <1>4, Zenon DEF NamesService, e

LEMMA IdentNames ==
  ASSUME Announced
  PROVE  NamesService(Ident(svc.name, TypeText, DomainText))
<1> DEFINE e == Ident(svc.name, TypeText, DomainText)
<1>1. e.name = svc.name /\ e.ifc = ToIndex(svc.ifc) /\ e.type = TypeText /\ e.domain = DomainText
  BY DEF Ident
<1> HIDE DEF e
<1>2. Names2(e)
  BY <1>1, TextNames, Zenon
<1>3. QED
  BY <1>1, <1>2, Zenon DEF NamesService, e

(* instance_label strips what build_service asks it to: the instance comes *)
(* out whole, dots included.                                               *)
LEMMA LabelStripped ==
  ASSUME Announced, NEW r, Names2(r)
  PROVE  InstanceLabel(FullName, r.type, r.domain) = svc.name
<1> DEFINE suffix == <<Dot>> \o JoinParts(<<r.type, r.domain>>)
           full == svc.name \o suffix
<1>1. svc.name \in Text /\ TypeText \in Text /\ DomainText \in Text
  BY AnnouncedText
<1>2. JoinParts(<<r.type, r.domain>>) = JoinParts(<<TypeText, DomainText>>)
  BY Zenon DEF Names2
<1>3. FullName = svc.name \o (<<Dot>> \o JoinParts(<<TypeText, DomainText>>))
  BY <1>1, JoinThree, Zenon DEF FullName
<1>4. FullName = full
  BY <1>2, <1>3, Zenon
<1>5. suffix \in Text
  BY <1>1, <1>2, JoinTwo, DotIsText, Zenon
<1>6. InstanceLabel(FullName, r.type, r.domain) =
        IF IsSuffix(suffix, FullName) THEN SubSeq(FullName, 1, Len(FullName) - Len(suffix)) ELSE FullName
  BY Zenon DEF InstanceLabel
<1> HIDE DEF suffix
<1>7. IsSuffix(suffix, full) /\ SubSeq(full, 1, Len(full) - Len(suffix)) = svc.name
  BY <1>1, <1>5, SuffixOfConcat, Zenon DEF Text
<1>8. QED
  BY <1>4, <1>6, <1>7, Zenon

(* resolve() is given the name the daemon knows. *)
LEMMA QueryIsFullName ==
  ASSUME Announced, NEW e, NamesService(e)
  PROVE  QueryName(e) = FullName /\ FullName \in Text
<1>1. svc.name \in Text /\ TypeText \in Text /\ DomainText \in Text
  BY AnnouncedText
<1>2. /\ e.name = svc.name /\ e.type \in Text /\ e.domain \in Text
      /\ JoinParts(<<e.type, e.domain>>) = JoinParts(<<TypeText, DomainText>>)
  BY Zenon DEF NamesService, Names2
<1>3. FullName = svc.name \o (<<Dot>> \o JoinParts(<<TypeText, DomainText>>)) /\ FullName \in Text
  BY <1>1, JoinThree, Zenon DEF FullName
<1>4. QueryName(e) = e.name \o (<<Dot>> \o JoinParts(<<e.type, e.domain>>))
  <2>1. e.name \in Text
    BY <1>1, <1>2, Zenon
  <2>2. QED
    BY <1>2, <2>1, JoinThree, Zenon DEF QueryName
<1>5. QED
  BY <1>2, <1>3, <1>4, Zenon

(* An index that came from the daemon is accepted again. *)
LEMMA DaemonIndexAccepted ==
  ASSUME Announced, platform \in {"linux", "macos", "windows"}
  PROVE  /\ ~Refused(ToIndex(svc.ifc)) /\ Native(ToIndex(svc.ifc)) \in Int
         /\ IF svc.ifc > 0 THEN Native(ToIndex(svc.ifc)) = svc.ifc
            ELSE Anywhere(Native(ToIndex(svc.ifc)))
<1> DEFINE n == svc.ifc
           half == 2 ^ (Width - 1)
<1>1. half \in Int /\ half > 0
  BY IdentityConstantsOK
<1>2. CASE platform = "linux"
  <2>1. n \in Int /\ n <= half - 1
    BY <1>1, <1>2 DEF Announced, DaemonIndices, Unspec, I32Max
  <2> HIDE DEF n, half
  <2>2. ToIndex(n) \in Int /\ ~(ToIndex(n) > half - 1) /\ ToIndex(n) = IF n > 0 THEN n ELSE 0
    BY <1>1, <2>1 DEF ToIndex
  <2>3. I32Max = half - 1
    BY DEF half, I32Max
  <2>4. AsI32(ToIndex(n)) = ToIndex(n) /\ ~Refused(ToIndex(n))
    BY <2>2, <2>3 DEF AsI32, Refused
  <2>5. QED
    BY <1>2, <2>1, <2>2, <2>4 DEF Native, Anywhere, Unspec, n
<1>3. CASE platform # "linux"
  <2>1. n \in Int /\ n >= 0
    BY <1>3 DEF Announced, DaemonIndices, Indices
  <2> HIDE DEF n
  <2>2. QED
    BY <1>3, <2>1 DEF Native, Anywhere, ToIndex, Refused, n
<1>4. QED
  BY <1>2, <1>3

(* The service, the request and the platform stay what they are. *)
LEMMA GivensKept == [IdNext]_idVars => UNCHANGED <<asked, platform, svc>>
BY DEF IdNext, idVars, Ask, MetaReply, Found, Removed, Probe, Settled

LEMMA NamesKept ==
  ASSUME UNCHANGED <<asked, platform, svc>>
  PROVE  /\ \A r : Names2(r) => Names2(r)'
         /\ \A e : NamesService(e) => NamesService(e)'
<1>1. TypeText' = TypeText /\ DomainText' = DomainText /\ ToIndex(svc.ifc)' = ToIndex(svc.ifc)
  BY DEF TypeText, DomainText, ToIndex
<1>2. \A r : Names2(r) => Names2(r)'
  BY <1>1 DEF Names2
<1>3. QED
  BY <1>1, <1>2, Zenon DEF NamesService

(* What the Windows browse is given: the request's type and domain, or the *)
(* target of a meta reply cut at its last dot.                             *)
LEMMA WindowsBrowse ==
  ASSUME IdentInv, platform = "windows", stage' = "browse", Ask \/ MetaReply
  PROVE  Names2(browse')
<1>1. Announced
  BY DEF IdentInv
<1>2. CASE Ask
  <2>1. Browse(JoinParts(<<TypeText, DomainText>>), TypeText, DomainText)
    BY <1>2 DEF Ask
  <2>2. browse'.type = TypeText /\ browse'.domain = DomainText
    BY <2>1 DEF Browse
  <2>3. QED
    BY <1>1, <2>2, TextNames
<1>3. CASE MetaReply
  <2> DEFINE labels == svc.type \o svc.domain
  <2>1. PICK target \in Spelled(labels) :
          LET r == CutLast(TrimDot(target)) IN Browse(TrimDot(target), r.type, r.domain)
    BY <1>3 DEF MetaReply
  <2>2. /\ svc.type \in Labels /\ Len(svc.type) = 2 /\ svc.type # <<>>
        /\ svc.domain \in Labels /\ Len(svc.domain) > 0
    BY <1>1, AnnouncedText, Zenon
  <2>3. labels \in Labels /\ labels # <<>>
    <3>1. svc.type \in Seq(Tokens \ {Dot}) /\ svc.domain \in Seq(Tokens \ {Dot})
      BY <2>2, Zenon DEF Labels
    <3>2. labels \in Seq(Tokens \ {Dot})
      BY <3>1, ConcatProperties, Zenon
    <3>3. labels = <<>> => svc.type = <<>>
      BY <3>1, ConcatEqualIffEmpty
    <3>4. QED
      BY <2>2, <3>2, <3>3, Zenon DEF Labels
  <2>4. TrimDot(target) = Join(labels)
    BY <2>1, <2>3, SpelledTrims, Zenon
  <2> DEFINE r == CutLast(Join(labels))
  <2>5. browse'.type = r.type /\ browse'.domain = r.domain
    BY <2>1, <2>4 DEF Browse
  <2>6. /\ r.type \in Text /\ r.domain \in Text
        /\ JoinParts(<<r.type, r.domain>>) = JoinParts(<<Join(svc.type), Join(svc.domain)>>)
        /\ Len(svc.domain) = 1 => r.type = Join(svc.type) /\ r.domain = Join(svc.domain)
    BY <2>2, CutRejoins, Zenon
  <2>7. asked.all
    BY <1>3 DEF MetaReply, IdentInv
  <2> HIDE DEF r
  <2>8. QED
    BY <2>5, <2>6, <2>7, Zenon DEF Names2, TypeText, DomainText
<1>4. QED
  BY <1>2, <1>3

(* Every platform's Found names the service. *)
LEMMA FoundNames ==
  ASSUME IdentInv, Found
  PROVE  NamesService(event')
<1>1. Announced
  BY DEF IdentInv
<1>2. CASE platform = "linux" /\ event' = Ident(svc.name, TypeText, DomainText)
  BY <1>1, <1>2, IdentNames, Zenon
<1>3. CASE \E t \in Absolute(svc.type), d \in Absolute(svc.domain) : event' = Trimmed(svc.name, t, d)
  BY <1>1, <1>3, TrimmedNames, Zenon
<1>4. CASE /\ platform = "windows"
           /\ event' = Ident(InstanceLabel(FullName, browse.type, browse.domain), browse.type, browse.domain)
  <2>1. Names2(browse)
    BY <1>4 DEF IdentInv, Started, Found
  <2>2. event' = Ident(svc.name, browse.type, browse.domain)
    BY <1>1, <1>4, <2>1, LabelStripped, Zenon
  <2>3. event'.name = svc.name /\ event'.type = browse.type /\ event'.domain = browse.domain
        /\ event'.ifc = ToIndex(svc.ifc)
    BY <2>2 DEF Ident
  <2>4. QED
    BY <2>1, <2>3, Zenon DEF NamesService, Names2
<1>5. QED
  BY <1>2, <1>3, <1>4 DEF Found

LEMMA RemovedNames ==
  ASSUME IdentInv, Removed
  PROVE  NamesService(removed')
<1>1. Announced
  BY DEF IdentInv
<1>2. CASE removed' = Ident(svc.name, TypeText, DomainText)
  BY <1>1, <1>2, IdentNames, Zenon
<1>3. CASE \E t \in Absolute(svc.type), d \in Absolute(svc.domain) : removed' = Trimmed(svc.name, t, d)
  BY <1>1, <1>3, TrimmedNames, Zenon
<1>4. QED
  BY <1>2, <1>3 DEF Removed, RemovedService

(* resolve() with the fields of the event: accepted, for the full name of  *)
(* the service, on its interface.                                          *)
LEMMA ProbeReaches ==
  ASSUME IdentInv, Probe
  PROVE  /\ query' # Unset /\ query'.name = FullName
         /\ IF svc.ifc > 0 THEN query'.ifc = svc.ifc ELSE Anywhere(query'.ifc)
<1>1. Announced /\ platform \in {"linux", "macos", "windows"} /\ NamesService(event)
  BY DEF IdentInv, Probe, Reported
<1>2. event.ifc = ToIndex(svc.ifc)
  BY <1>1, Zenon DEF NamesService
<1>3. QueryName(event) = FullName /\ FullName \in Text
  BY <1>1, QueryIsFullName, Zenon
<1> DEFINE n == Native(ToIndex(svc.ifc))
<1>4. ~Refused(ToIndex(svc.ifc)) /\ n \in Int /\ IF svc.ifc > 0 THEN n = svc.ifc ELSE Anywhere(n)
  BY <1>1, DaemonIndexAccepted, Zenon
<1>5. query' = IF Refused(event.ifc) THEN Unset ELSE [name |-> QueryName(event), ifc |-> Native(event.ifc)]
  BY DEF Probe
<1>6. query' = [name |-> FullName, ifc |-> n]
  BY <1>2, <1>3, <1>4, <1>5, Zenon
<1> HIDE DEF n
<1>7. query' \in [name : Seq(Tokens), ifc : Int]
  BY <1>3, <1>4, <1>6 DEF Text
<1>8. query'.name = FullName /\ query'.ifc = n
  BY <1>6
<1>9. query' # Unset
  BY <1>7, IdentityConstantsOK
<1>10. QED
  BY <1>4, <1>8, <1>9, Zenon

LEMMA IdentInvInit == IdInit => IdentInv
BY DEF IdInit, IdentInv, Announced, Started, Reported, ProbeReachesService

LEMMA IdentInvStep == IdentInv /\ [IdNext]_idVars => IdentInv'
<1> SUFFICES ASSUME IdentInv, [IdNext]_idVars PROVE IdentInv'
  OBVIOUS
<1>1. UNCHANGED <<asked, platform, svc>>
  BY GivensKept
<1>2. Announced' /\ (platform \in {"linux", "macos", "windows"})'
  BY <1>1 DEF IdentInv, Announced, DaemonIndices
<1>3. /\ \A r : Names2(r) => Names2(r)'
      /\ \A e : NamesService(e) => NamesService(e)'
  BY <1>1, NamesKept
<1>4. ASSUME UNCHANGED browse PROVE (Names2(browse) => Names2(browse)')
  BY <1>3, <1>4, Zenon
<1>5. ASSUME UNCHANGED event
      PROVE  (NamesService(event) => NamesService(event)') /\ (event = Unset \/ NamesService(event))'
  BY <1>3, <1>5, Zenon DEF IdentInv
<1>6. ASSUME UNCHANGED <<event, removed>>
      PROVE  (removed = Unset \/ (NamesService(removed) /\ NamesService(event)))'
  BY <1>3, <1>6, Zenon DEF IdentInv
<1>7. ASSUME stage' # "probed" PROVE ProbeReachesService'
  BY <1>7 DEF ProbeReachesService
<1>8. CASE Ask
  <2>1. UNCHANGED <<event, removed>> /\ stage' \in {"refused", "meta", "browse"}
        /\ (stage' = "meta" => asked.all)
    BY <1>8 DEF Ask
  <2>2. platform = "windows" /\ stage' = "browse" => Names2(browse)'
    BY <1>3, <1>8, WindowsBrowse, Zenon
  <2>3. QED
    BY <1>1, <1>2, <1>5, <1>6, <1>7, <2>1, <2>2 DEF IdentInv, Started, Reported
<1>9. CASE MetaReply
  <2>1. UNCHANGED <<event, removed>> /\ stage' = "browse"
    BY <1>9 DEF MetaReply
  <2>2. platform = "windows" => Names2(browse)'
    BY <1>3, <1>9, <2>1, WindowsBrowse, Zenon
  <2>3. QED
    BY <1>1, <1>2, <1>5, <1>6, <1>7, <2>1, <2>2 DEF IdentInv, Started, Reported
<1>10. CASE Found
  <2>1. UNCHANGED <<browse, removed>> /\ stage = "browse" /\ stage' = "found"
    BY <1>10 DEF Found
  <2>2. NamesService(event)'
    BY <1>3, <1>10, FoundNames, Zenon
  <2>3. (removed = Unset \/ (NamesService(removed) /\ NamesService(event)))'
    BY <1>3, <2>1, <2>2, Zenon DEF IdentInv
  <2>4. QED
    BY <1>1, <1>2, <1>4, <1>7, <2>1, <2>2, <2>3 DEF IdentInv, Started, Reported
<1>11. CASE Removed
  <2>1. UNCHANGED <<browse, event>> /\ stage = "found" /\ stage' = "removed"
    BY <1>11 DEF Removed
  <2>2. NamesService(removed)'
    BY <1>3, <1>11, RemovedNames, Zenon
  <2>3. NamesService(event)'
    BY <1>5, <2>1 DEF IdentInv, Reported
  <2>4. QED
    BY <1>1, <1>2, <1>4, <1>7, <2>1, <2>2, <2>3 DEF IdentInv, Started, Reported
<1>12. CASE Probe
  <2>1. UNCHANGED <<browse, event, removed>> /\ stage \in {"found", "removed"} /\ stage' = "probed"
    BY <1>12 DEF Probe
  <2>2. NamesService(event)'
    BY <1>5, <2>1 DEF IdentInv, Reported
  <2>3. /\ query' # Unset /\ query'.name = FullName
        /\ IF svc.ifc > 0 THEN query'.ifc = svc.ifc ELSE Anywhere(query'.ifc)
    BY <1>12, ProbeReaches
  <2>4. ProbeReachesService'
    BY <1>1, <2>3 DEF ProbeReachesService, FullName, TypeText, DomainText, Anywhere
  <2>5. QED
    BY <1>1, <1>2, <1>4, <1>6, <2>1, <2>2, <2>4 DEF IdentInv, Started, Reported
<1>13. CASE Settled \/ UNCHANGED idVars
  <2>1. UNCHANGED <<stage, browse, event, removed, query>>
    BY <1>13 DEF Settled, idVars
  <2>2. ProbeReachesService'
    BY <1>1, <2>1 DEF IdentInv, ProbeReachesService, FullName, TypeText, DomainText, Anywhere
  <2>3. QED
    BY <1>1, <1>2, <1>4, <1>5, <1>6, <2>1, <2>2 DEF IdentInv, Started, Reported
<1>14. QED
  BY <1>8, <1>9, <1>10, <1>11, <1>12, <1>13 DEF IdNext

LEMMA IdentInvHolds == IdSpec => []IdentInv
BY IdentInvInit, IdentInvStep, PTL DEF IdSpec

(* Every Found and every Removed, on each platform, names the instance as  *)
(* it was announced, dots included, with its type and its domain; the      *)
(* Removed carries the interface of its Found. Windows keeps type and      *)
(* domain apart wherever the domain has one label or was asked for.        *)
THEOREM EventsAreFaithful == IdSpec => []EventsNameService
<1>1. IdentInv => EventsNameService
  BY Zenon DEF IdentInv, EventsNameService, NamesService, Names2
<1>2. QED
  BY <1>1, IdentInvHolds, PTL

(* Feeding an event to ServiceResolverBuilder leads back to the service:   *)
(* the full name the daemon knows, on the interface the event came from,   *)
(* and interface_to_avahi never refuses it.                                *)
THEOREM EventsCanBeResolved == IdSpec => []ProbeReachesService
<1>1. IdentInv => ProbeReachesService
  BY DEF IdentInv
<1>2. QED
  BY <1>1, IdentInvHolds, PTL

-----------------------------------------------------------------------------
(* What the meta-query finds, browsed under its own name.                  *)

(* The even numbers below 2 * n are n. *)
LEMMA EvensBelow ==
  ASSUME NEW n \in Nat, NEW S, S = {2 * j : j \in 0..(n - 1)}
  PROVE  Cardinality(S) = n
<1> DEFINE f == [k \in 1..n |-> 2 * (k - 1)]
<1>1. f \in [1..n -> S]
  <2>1. ASSUME NEW k \in 1..n PROVE 2 * (k - 1) \in S
    <3>1. k - 1 \in 0..(n - 1)
      OBVIOUS
    <3>2. QED
      BY <3>1
  <2>2. QED
    BY <2>1
<1>2. \A a, b \in 1..n : f[a] = f[b] => a = b
  OBVIOUS
<1>3. \A x \in S : \E k \in 1..n : f[k] = x
  <2>1. SUFFICES ASSUME NEW j \in 0..(n - 1) PROVE \E k \in 1..n : f[k] = 2 * j
    OBVIOUS
  <2>2. j + 1 \in 1..n /\ (j + 1) - 1 = j
    OBVIOUS
  <2>3. f[j + 1] = 2 * j
    BY <2>2
  <2>4. QED
    BY <2>2, <2>3
<1> HIDE DEF f
<1>4. ExistsBijection(1..n, S)
  <2>1. DOMAIN f = 1..n
    BY <1>1
  <2>2. f \in Injection(1..n, S)
    BY <1>1, <1>2, <2>1, Zenon DEF Injection, IsInjective
  <2>3. f \in Surjection(1..n, S)
    BY <1>1, <1>3, Zenon DEF Surjection
  <2>4. QED
    BY <2>2, <2>3, Zenon DEF ExistsBijection, Bijection
<1>5. QED
  BY <1>4, FS_CountingElements

(* The labels one by one, as split('.') yields them. *)
Pieces(ls) == [k \in DOMAIN ls |-> <<ls[k]>>]

(* The dots of joined labels are at the even positions, and the start and  *)
(* the end of the text count as cuts.                                      *)
LEMMA CutsAreEven ==
  ASSUME NEW ls \in Labels, ls # <<>>, NEW s, s = Join(ls)
  PROVE  /\ Len(ls) \in Nat \ {0}
         /\ {0, Len(s) + 1} \cup Dots(s) = {2 * j : j \in 0..Len(ls)}
<1> DEFINE n == Len(ls)
<1>1. ls \in Text /\ \A k \in 1..n : ls[k] # Dot
  <2>1. \A k \in 1..n : ls[k] \in Tokens \ {Dot}
    BY LenProperties DEF Labels
  <2>2. QED
    BY <2>1, JoinEnds
<1>2. Labelled(s, ls)
  BY <1>1, JoinLabelled, Zenon
<1>3. /\ n \in Nat \ {0} /\ Len(s) = 2 * n - 1 /\ DOMAIN s = 1..(2 * n - 1)
      /\ \A k \in 1..n : s[2 * k - 1] # Dot
      /\ \A k \in 1..(n - 1) : s[2 * k] = Dot
  BY <1>1, <1>2, LenProperties DEF Labelled, Text
<1> HIDE DEF n
<1>4. ASSUME NEW c \in {0, Len(s) + 1} \cup Dots(s) PROVE \E j \in 0..n : c = 2 * j
  <2>1. CASE c = 0
    <3>1. 0 \in 0..n /\ c = 2 * 0
      BY <1>3, <2>1
    <3>2. QED
      BY <3>1
  <2>2. CASE c = Len(s) + 1
    <3>1. n \in 0..n /\ c = 2 * n
      BY <1>3, <2>2
    <3>2. QED
      BY <3>1
  <2>3. CASE c \in Dots(s)
    <3>1. c \in 1..(2 * n - 1) /\ s[c] = Dot
      BY <1>3, <2>3 DEF Dots
    <3>2. (\E k \in 1..n : c = 2 * k - 1) \/ (\E k \in 1..(n - 1) : c = 2 * k)
      BY <1>3, <3>1, OddOrEven
    <3>3. \E k \in 1..(n - 1) : c = 2 * k
      BY <1>3, <3>1, <3>2
    <3>4. QED
      BY <1>3, <3>3
  <2>4. QED
    BY <2>1, <2>2, <2>3
<1>5. ASSUME NEW j \in 0..n PROVE 2 * j \in {0, Len(s) + 1} \cup Dots(s)
  <2>1. CASE j = 0
    BY <2>1
  <2>2. CASE j = n
    BY <1>3, <2>2
  <2>3. CASE j # 0 /\ j # n
    <3>1. j \in 1..(n - 1) /\ 2 * j \in 1..(2 * n - 1)
      BY <1>3, <2>3
    <3>2. QED
      BY <1>3, <3>1 DEF Dots
  <2>4. QED
    BY <2>1, <2>2, <2>3
<1> DEFINE cuts == {0, Len(s) + 1} \cup Dots(s)
<1>6. \A c : c \in cuts <=> c \in {2 * j : j \in 0..n}
  <2> HIDE DEF cuts
  <2>1. (\A c \in cuts : \E j \in 0..n : c = 2 * j) /\ \A j \in 0..n : 2 * j \in cuts
    BY <1>4, <1>5, Zenon DEF cuts
  <2>2. QED
    BY <2>1
<1>7. cuts = {2 * j : j \in 0..n}
  BY <1>6, Zenon
<1>8. QED
  BY <1>3, <1>7, Zenon DEF n

(* split('.') undoes a join of labels. *)
LEMMA SplitJoined ==
  ASSUME NEW ls \in Labels, ls # <<>>
  PROVE  SplitDots(Join(ls)) = Pieces(ls)
<1> DEFINE s == Join(ls)
           n == Len(ls)
           cuts == {0, Len(s) + 1} \cup Dots(s)
           Nth(k) == CHOOSE c \in cuts : Cardinality({b \in cuts : b < c}) = k
<1>1. n \in Nat \ {0} /\ cuts = {2 * j : j \in 0..n}
  BY CutsAreEven, Zenon
<1>2. /\ DOMAIN ls = 1..n /\ s \in Seq(Tokens) /\ Len(s) = 2 * n - 1
      /\ \A k \in 1..n : s[2 * k - 1] = ls[k] /\ ls[k] \in Tokens
  <2>1. ls \in Text
    BY JoinEnds
  <2>2. Labelled(s, ls)
    BY <2>1, JoinLabelled, Zenon
  <2> HIDE DEF s
  <2>3. QED
    BY <2>1, <2>2, LenProperties DEF Labelled, Text
<1>3. SplitDots(s) = [k \in 1..(Cardinality(cuts) - 1) |-> SubSeq(s, Nth(k - 1) + 1, Nth(k) - 1)]
  BY Zenon DEF SplitDots
<1> HIDE DEF s, n, cuts
<1>4. ASSUME NEW j \in 0..n PROVE Cardinality({b \in cuts : b < 2 * j}) = j
  <2>1. {b \in cuts : b < 2 * j} = {2 * h : h \in 0..(j - 1)}
    <3>1. ASSUME NEW b \in cuts, b < 2 * j PROVE b \in {2 * h : h \in 0..(j - 1)}
      <4>1. PICK h \in 0..n : b = 2 * h
        BY <1>1
      <4>2. h \in 0..(j - 1)
        BY <1>1, <3>1, <4>1
      <4>3. QED
        BY <4>1, <4>2
    <3>2. ASSUME NEW h \in 0..(j - 1) PROVE 2 * h \in cuts /\ 2 * h < 2 * j
      <4>1. h \in 0..n /\ 2 * h < 2 * j
        BY <1>1
      <4>2. QED
        BY <1>1, <4>1
    <3>3. QED
      BY <3>1, <3>2
  <2>2. j \in Nat
    BY <1>1
  <2>3. QED
    BY <2>1, <2>2, EvensBelow, Zenon
<1>5. Cardinality(cuts) = n + 1
  <2>1. n + 1 \in Nat /\ (n + 1) - 1 = n
    BY <1>1
  <2>2. cuts = {2 * j : j \in 0..((n + 1) - 1)}
    BY <1>1, <2>1, Zenon
  <2>3. QED
    BY <2>1, <2>2, EvensBelow, Zenon
<1>6. ASSUME NEW j \in 0..n PROVE Nth(j) = 2 * j
  <2>1. 2 * j \in cuts
    BY <1>1
  <2>2. ASSUME NEW c \in cuts, Cardinality({b \in cuts : b < c}) = j PROVE c = 2 * j
    <3>1. PICK h \in 0..n : c = 2 * h
      BY <1>1
    <3>2. Cardinality({b \in cuts : b < 2 * h}) = h
      BY <1>4
    <3>3. h = j
      BY <2>2, <3>1, <3>2, Zenon
    <3>4. QED
      BY <3>1, <3>3
  <2>3. QED
    BY <1>4, <2>1, <2>2, Zenon
<1> HIDE DEF Nth
<1>7. ASSUME NEW k \in 1..n PROVE SubSeq(s, Nth(k - 1) + 1, Nth(k) - 1) = <<ls[k]>>
  <2>1. k - 1 \in 0..n /\ k \in 0..n
    BY <1>1
  <2>2. Nth(k - 1) = 2 * (k - 1) /\ Nth(k) = 2 * k
    BY <2>1, <1>6
  <2>3. Nth(k - 1) + 1 = 2 * k - 1 /\ Nth(k) - 1 = 2 * k - 1
    BY <1>1, <2>2
  <2> DEFINE p == 2 * k - 1
             q == SubSeq(s, p, p)
             e == <<ls[k]>>
  <2>4. p \in Int /\ \A x \in p..p : s[x] \in Tokens
    BY <1>1, <1>2
  <2>5. s[p] = ls[k] /\ ls[k] \in Tokens
    BY <1>2
  <2> HIDE DEF p
  <2>6. q \in Seq(Tokens) /\ Len(q) = (IF p <= p THEN p - p + 1 ELSE 0) /\ \A x \in 1..(p - p + 1) : q[x] = s[p + x - 1]
    BY <2>4, SubSeqProperties
  <2> HIDE DEF q
  <2>7. p <= p /\ p - p + 1 = 1 /\ p + 1 - 1 = p /\ 1 \in 1..1
    BY <2>4
  <2>8. Len(q) = 1 /\ q[1] = ls[k]
    BY <2>5, <2>6, <2>7, Zenon
  <2>9. e \in Seq(Tokens) /\ Len(e) = 1 /\ e[1] = ls[k]
    BY <2>5
  <2> HIDE DEF e
  <2>10. q = e
    BY <2>6, <2>8, <2>9, SeqEqual
  <2>11. QED
    BY <2>3, <2>10, Zenon DEF p, q, e
<1>8. SplitDots(s) = [k \in 1..n |-> <<ls[k]>>]
  <2>1. Cardinality(cuts) - 1 = n
    BY <1>1, <1>5
  <2>2. SplitDots(s) = [k \in 1..n |-> SubSeq(s, Nth(k - 1) + 1, Nth(k) - 1)]
    BY <1>3, <2>1, Zenon DEF Nth
  <2>3. QED
    BY <1>7, <2>2, Zenon
<1>9. QED
  BY <1>2, <1>8, Zenon DEF Pieces, s

(* The pieces of a part are a part of the pieces. *)
LEMMA PiecesOfPart ==
  ASSUME NEW ls \in Text, NEW a \in Nat \ {0}, NEW b \in Nat, b <= Len(ls)
  PROVE  SubSeq(Pieces(ls), a, b) = Pieces(SubSeq(ls, a, b))
<1> DEFINE q == SubSeq(ls, a, b)
           ps == Pieces(ls)
           r == SubSeq(ps, a, b)
           m == IF a <= b THEN b - a + 1 ELSE 0
<1>1. Len(ls) \in Nat /\ DOMAIN ls = 1..Len(ls) /\ \A k \in 1..Len(ls) : ls[k] \in Tokens
  BY LenProperties DEF Text
<1>2. m \in Nat /\ (\A k \in a..b : k \in 1..Len(ls)) /\ (\A k \in 1..m : k \in 1..(b - a + 1) /\ a + k - 1 \in 1..Len(ls))
  BY <1>1
<1>3. \A k \in 1..Len(ls) : ps[k] = <<ls[k]>> /\ <<ls[k]>> \in Seq(Tokens)
  BY <1>1 DEF Pieces
<1> HIDE DEF ps
<1>4. q \in Seq(Tokens) /\ Len(q) = m /\ \A k \in 1..(b - a + 1) : q[k] = ls[a + k - 1]
  <2>1. \A k \in a..b : ls[k] \in Tokens
    BY <1>1, <1>2
  <2>2. QED
    BY <2>1, SubSeqProperties
<1>5. r \in Seq(Seq(Tokens)) /\ Len(r) = m /\ \A k \in 1..(b - a + 1) : r[k] = ps[a + k - 1]
  <2>1. \A k \in a..b : ps[k] \in Seq(Tokens)
    BY <1>2, <1>3, Zenon
  <2>2. QED
    BY <2>1, SubSeqProperties
<1> HIDE DEF q, r, m
<1>6. DOMAIN q = 1..m /\ DOMAIN r = 1..m
  BY <1>2, <1>4, <1>5, LenProperties
<1>7. \A k \in 1..m : r[k] = <<q[k]>>
  BY <1>2, <1>3, <1>4, <1>5, Zenon
<1>8. r = [k \in 1..m |-> r[k]]
  BY <1>5, <1>6
<1>9. r = [k \in 1..m |-> <<q[k]>>]
  BY <1>7, <1>8, Zenon
<1>10. QED
  BY <1>6, <1>9, Zenon DEF Pieces, q, r, ps

(* trim_start_matches leaves text that begins with a label, and nothing of *)
(* the root.                                                               *)
LEMMA TrimStartKeeps ==
  ASSUME NEW s \in Text, Len(s) >= 1, s[1] # Dot
  PROVE  TrimStart(s) = s
<1> DEFINE K == {Len(s) + 1} \cup (DOMAIN s \ Dots(s))
<1>1. s \in Seq(Tokens) /\ Len(s) \in Nat /\ DOMAIN s = 1..Len(s)
  BY LenProperties DEF Text
<1>2. K \in SUBSET Int /\ 1 \in K /\ \A q \in K : 1 <= q
  BY <1>1 DEF Dots
<1>3. TrimStart(s) = SubSeq(s, Min(K), Len(s))
  BY Zenon DEF TrimStart
<1> HIDE DEF K
<1>4. Min(K) = 1
  BY <1>2, MinIs
<1>5. QED
  BY <1>1, <1>3, <1>4, SubSeqFull, Zenon

LEMMA TrimStartDots ==
  ASSUME NEW s \in Text, \A k \in 1..Len(s) : s[k] = Dot
  PROVE  TrimStart(s) = <<>>
<1> DEFINE K == {Len(s) + 1} \cup (DOMAIN s \ Dots(s))
<1>1. s \in Seq(Tokens) /\ Len(s) \in Nat /\ DOMAIN s = 1..Len(s)
  BY LenProperties DEF Text
<1>2. K = {Len(s) + 1}
  BY <1>1 DEF Dots
<1>3. TrimStart(s) = SubSeq(s, Min(K), Len(s))
  BY Zenon DEF TrimStart
<1>4. K \in SUBSET Int /\ Len(s) + 1 \in K /\ \A q \in K : Len(s) + 1 <= q
  BY <1>1, <1>2
<1> HIDE DEF K
<1>5. Min(K) = Len(s) + 1
  BY <1>4, MinIs
<1>6. Len(s) + 1 \in Int /\ Len(s) \in Int /\ Len(s) < Len(s) + 1
  BY <1>1
<1>7. SubSeq(s, Len(s) + 1, Len(s)) = <<>>
  BY <1>6, SubSeqEmpty, Zenon
<1>8. QED
  BY <1>3, <1>5, <1>7, Zenon

LEMMA RootIsTrimmed ==
  ASSUME NEW s \in Absolute(<<>>)
  PROVE  TrimStart(s) = <<>>
<1>1. s \in {<<>>, <<Dot>>, <<Dot, Dot>>}
  BY DEF Absolute
<1>2. CASE s = <<>>
  <2>1. s \in Text /\ \A k \in 1..Len(s) : s[k] = Dot
    BY <1>2 DEF Text
  <2>2. QED
    BY <2>1, TrimStartDots
<1>3. CASE s = <<Dot>>
  <2>1. s \in Text /\ Len(s) = 1 /\ s[1] = Dot
    BY <1>3, IdentityConstantsOK DEF Text
  <2>2. \A k \in 1..Len(s) : s[k] = Dot
    BY <2>1
  <2>3. QED
    BY <2>1, <2>2, TrimStartDots
<1>4. CASE s = <<Dot, Dot>>
  <2>1. s \in Text /\ Len(s) = 2 /\ s[1] = Dot /\ s[2] = Dot
    BY <1>4, IdentityConstantsOK DEF Text
  <2>2. \A k \in 1..Len(s) : s[k] = Dot
    BY <2>1
  <2>3. QED
    BY <2>1, <2>2, TrimStartDots
<1>5. QED
  BY <1>1, <1>2, <1>3, <1>4

(* A domain written with a final dot loses nothing at its start. *)
LEMMA DomainIsKept ==
  ASSUME NEW ls \in Labels, ls # <<>>, NEW s \in Absolute(ls)
  PROVE  TrimStart(s) = Join(ls) \o <<Dot>> /\ Join(ls) \o <<Dot>> # <<>>
<1> DEFINE j == Join(ls)
           d == <<Dot>>
           c == j \o d
<1>1. s = c
  BY Zenon DEF Absolute
<1>2. j \in Seq(Tokens) /\ Len(j) >= 1 /\ j[1] # Dot
  BY JoinEnds, Zenon DEF Text
<1>3. d \in Seq(Tokens) /\ Len(d) = 1
  BY IdentityConstantsOK
<1> HIDE DEF j, d
<1>4. Glued(Tokens, j, d, c)
  BY <1>2, <1>3, ConcatFacts, Zenon
<1> HIDE DEF c
<1>5. c \in Text /\ Len(c) >= 1 /\ c[1] # Dot
  BY <1>2, <1>3, <1>4 DEF Glued, Text
<1>6. TrimStart(c) = c /\ c # <<>>
  <2>1. Len(<<>>) = 0
    OBVIOUS
  <2>2. c # <<>>
    BY <1>5, <2>1
  <2>3. QED
    BY <1>5, <2>2, TrimStartKeeps, Zenon
<1>7. QED
  BY <1>1, <1>6, Zenon DEF c, j, d

(* The labels of a reply: the first, the next two, and the rest. *)
LEMMA PartsOfReply ==
  ASSUME NEW ls \in Labels, Len(ls) >= 3
  PROVE  /\ ls[1] \in Tokens \ {Dot}
         /\ SubSeq(ls, 2, 3) \in Labels /\ SubSeq(ls, 2, 3) # <<>>
         /\ SubSeq(ls, 4, Len(ls)) \in Labels
         /\ (<<ls[1]>> \o SubSeq(ls, 2, 3)) \o SubSeq(ls, 4, Len(ls)) = ls
<1> DEFINE n == Len(ls)
           S == Tokens \ {Dot}
           p == SubSeq(ls, 2, 3)
           r == SubSeq(ls, 4, n)
<1>1. ls \in Seq(S) /\ n \in Nat
  BY DEF Labels
<1> HIDE DEF S
<1>2. \A k \in 1..n : ls[k] \in S
  BY <1>1
<1>3. p \in Seq(S) /\ Len(p) = 2
  <2>1. \A k \in 2..3 : ls[k] \in S
    BY <1>1, <1>2
  <2>2. p \in Seq(S) /\ Len(p) = IF 2 <= 3 THEN 3 - 2 + 1 ELSE 0
    BY <2>1, SubSeqProperties
  <2> HIDE DEF p
  <2>3. QED
    BY <2>2
<1>4. r \in Seq(S)
  <2>1. \A k \in 4..n : ls[k] \in S
    BY <1>1, <1>2
  <2>2. QED
    BY <1>1, <2>1, SubSeqProperties
<1>5. (<<ls[1]>> \o p) \o r = ls
  <2>1. 1 \in 1..n /\ 3 \in 1..n /\ 1 \in 1..(n + 1) /\ 3 \in (1 - 1)..n /\ n \in 3..n /\ 1 + 1 = 2 /\ 3 + 1 = 4
    BY <1>1
  <2>2. SubSeq(ls, 1, 3) = <<ls[1]>> \o SubSeq(ls, 1 + 1, 3)
    BY <1>1, <2>1, SubSeqRecursiveFirst, Zenon
  <2>3. SubSeq(ls, 1, 3) \o SubSeq(ls, 3 + 1, n) = SubSeq(ls, 1, n)
    BY <1>1, <2>1, ConcatAdjacentSubSeq, Zenon
  <2>4. SubSeq(ls, 1, n) = ls
    BY <1>1, SubSeqFull, Zenon
  <2>5. QED
    BY <2>1, <2>2, <2>3, <2>4, Zenon
<1>6. p # <<>>
  <2> HIDE DEF p
  <2>1. Len(<<>>) = 0
    OBVIOUS
  <2>2. QED
    BY <1>3, <2>1
<1>7. ls[1] \in S
  BY <1>1, <1>2
<1>8. QED
  BY <1>3, <1>4, <1>5, <1>6, <1>7, Zenon DEF Labels, S

(* The first label and the next two, joined as the code joins them. *)
LEMMA HeadOfReply ==
  ASSUME NEW l \in Tokens \ {Dot}, NEW p \in Labels, p # <<>>, NEW reg \in Spelled(p)
  PROVE  /\ <<l>> \o p \in Labels /\ <<l>> \o p # <<>>
         /\ \/ JoinParts(<<<<l>>, reg>>) = Join(<<l>> \o p)
            \/ JoinParts(<<<<l>>, reg>>) = Join(<<l>> \o p) \o <<Dot>>
<1> DEFINE e == <<l>>
           d == <<Dot>>
           j == Join(p)
<1>1. e \in Labels /\ e \in Text /\ e # <<>> /\ Len(e) = 1 /\ e[1] = l
  BY DEF Labels, Text
<1>2. d \in Text
  BY DotIsText
<1>3. p \in Text /\ j \in Text
  BY JoinEnds
<1>4. Join(e) = e
  <2> HIDE DEF e
  <2>1. Labelled(Join(e), e)
    BY <1>1, JoinLabelled
  <2>2. Labelled(e, e)
    BY <1>1 DEF Labelled
  <2>3. QED
    BY <2>1, <2>2, LabelledUnique, Zenon
<1>5. reg = j \/ reg = j \o d
  BY Zenon DEF Spelled, Absolute
<1> HIDE DEF e, d
<1>6. Join(e \o p) = JoinParts(<<Join(e), j>>)
  BY <1>1, <1>3, JoinConcat, Zenon
<1> HIDE DEF j
<1>7. JoinParts(<<e, j>>) = e \o (d \o j)
  BY <1>1, <1>3, JoinTwo, Zenon DEF d
<1>8. Join(e \o p) = e \o (d \o j)
  BY <1>4, <1>6, <1>7, Zenon
<1>9. j \o d \in Text
  BY <1>2, <1>3, ConcatProperties, Zenon DEF Text
<1>10. JoinParts(<<e, j \o d>>) = e \o (d \o (j \o d))
  BY <1>1, <1>9, JoinTwo, Zenon DEF d
<1>11. e \o (d \o (j \o d)) = (e \o (d \o j)) \o d
  <2>1. Associates(d, j, d)
    BY <1>2, <1>3, TextAssociates, Zenon
  <2>2. d \o j \in Text
    BY <1>2, <1>3, ConcatProperties, Zenon DEF Text
  <2>3. Associates(e, d \o j, d)
    BY <1>1, <1>2, <2>2, TextAssociates, Zenon
  <2>4. QED
    BY <2>1, <2>3, Zenon DEF Associates
<1>12. JoinParts(<<e, reg>>) = Join(e \o p) \/ JoinParts(<<e, reg>>) = Join(e \o p) \o d
  BY <1>5, <1>7, <1>8, <1>10, <1>11, Zenon
<1>13. e \o p \in Labels
  BY <1>1, ConcatProperties, Zenon DEF Labels
<1>14. e \o p # <<>>
  <2>1. e \in Seq(Tokens) /\ p \in Seq(Tokens)
    BY <1>1, <1>3, Zenon DEF Text
  <2>2. e \o p = <<>> => e = <<>>
    BY <2>1, ConcatEqualIffEmpty
  <2>3. QED
    BY <1>1, <2>2
<1>15. QED
  BY <1>12, <1>13, <1>14, Zenon DEF e, d

(* The reply's domain appended to what precedes it. *)
Gluing(head, suffix) ==
  IF suffix = <<>> THEN head
  ELSE (IF head[Len(head)] = Dot THEN head ELSE head \o <<Dot>>) \o suffix

LEMMA DotsAssociate ==
  ASSUME NEW a \in Text, NEW b \in Text, NEW d \in Text
  PROVE  (a \o d) \o (b \o d) = (a \o (d \o b)) \o d
<1>1. Associates(a, d, b)
  BY TextAssociates, Zenon
<1>2. Associates(a \o d, b, d)
  BY <1>1, TextAssociates, Zenon DEF Associates
<1>3. QED
  BY <1>1, <1>2, Zenon DEF Associates

(* What meta_reply_to_type_and_domain glues together is, up to a final     *)
(* dot, the name that mDNSResponder took apart.                            *)
LEMMA GluedName ==
  ASSUME NEW a \in Labels, a # <<>>, NEW r \in Labels, NEW rest \in Absolute(r),
         NEW head, head = Join(a) \/ head = Join(a) \o <<Dot>>
  PROVE  TrimDot(Gluing(head, TrimStart(rest))) = Join(a \o r)
<1> DEFINE suffix == TrimStart(rest)
           glued == Gluing(head, suffix)
           j == Join(a)
           d == <<Dot>>
           jr == Join(r)
<1>1. a \in Text /\ j \in Text /\ Len(j) >= 1 /\ j[Len(j)] # Dot
  BY JoinEnds
<1>2. d \in Seq(Tokens) /\ Len(d) = 1 /\ d[1] = Dot /\ 1 \in 1..1
  BY IdentityConstantsOK
<1>3. CASE r = <<>>
  <2>1. suffix = <<>>
    BY <1>3, RootIsTrimmed, Zenon
  <2>2. TrimDot(head) = j
    BY <1>1, TrimKeeps, Zenon
  <2>3. a \o r = a
    BY <1>1, <1>3, ConcatEmptySeq, Zenon DEF Text
  <2>4. glued = head
    BY <2>1, Zenon DEF Gluing
  <2>5. QED
    BY <2>2, <2>3, <2>4, Zenon
<1>4. CASE r # <<>>
  <2>1. suffix = jr \o d /\ suffix # <<>>
    BY <1>4, DomainIsKept, Zenon
  <2>2. r \in Text /\ jr \in Text
    BY <1>4, JoinEnds
  <2>3. head = j \/ head = j \o d
    OBVIOUS
  <2>4. glued = (IF head[Len(head)] = Dot THEN head ELSE head \o d) \o suffix
    BY <2>1, Zenon DEF Gluing
  <2>5. Join(a \o r) = JoinParts(<<j, jr>>)
    BY <1>1, <1>4, <2>2, JoinConcat, Zenon
  <2>6. JoinParts(<<j, jr>>) = j \o (d \o jr)
    BY <1>1, <2>2, JoinTwo, Zenon
  <2>7. a \o r \in Labels /\ a \o r # <<>>
    <3>1. a \in Seq(Tokens \ {Dot}) /\ r \in Seq(Tokens \ {Dot})
      BY Zenon DEF Labels
    <3>2. a \o r = <<>> => a = <<>>
      BY <3>1, ConcatEqualIffEmpty
    <3>3. QED
      BY <3>1, <3>2, ConcatProperties, Zenon DEF Labels
  <2> HIDE DEF j, d, jr, suffix, glued
  <2>8. Glued(Tokens, j, d, j \o d)
    BY <1>1, <1>2, ConcatFacts, Zenon DEF Text
  <2>9. (j \o d)[Len(j \o d)] = Dot
    <3> DEFINE c == j \o d
    <3>1. Glued(Tokens, j, d, c)
      BY <2>8, Zenon
    <3> HIDE DEF c
    <3>2. c[Len(c)] = Dot
      BY <1>2, <3>1 DEF Glued
    <3>3. QED
      BY <3>2, Zenon DEF c
  <2>10. (IF head[Len(head)] = Dot THEN head ELSE head \o d) = j \o d
    BY <1>1, <2>3, <2>9, Zenon
  <2>11. glued = (j \o d) \o (jr \o d)
    BY <2>1, <2>4, <2>10, Zenon
  <2>12. (j \o d) \o (jr \o d) = (j \o (d \o jr)) \o d
    BY <1>1, <1>2, <2>2, DotsAssociate, Zenon DEF Text
  <2>13. glued = Join(a \o r) \o d
    BY <2>5, <2>6, <2>11, <2>12, Zenon
  <2>14. TrimDot(Join(a \o r) \o d) = Join(a \o r)
    BY <2>7, JoinEnds, TrimKeeps, Zenon DEF d
  <2>15. QED
    BY <2>13, <2>14, Zenon DEF glued, suffix
<1>5. QED
  BY <1>3, <1>4

Recovers(t, dom, ls) ==
  \A reg \in Spelled(SubSeq(ls, 2, 3)), rest \in Absolute(SubSeq(ls, 4, Len(ls))) :
    /\ Rejoin(<<ls[1]>>, reg, rest).type = Join(t)
    /\ Rejoin(<<ls[1]>>, reg, rest).domain = Join(dom)

(* meta_reply_to_type_and_domain finds the type and the domain again,      *)
(* however mDNSResponder spells the parts and however many labels the      *)
(* domain has.                                                             *)
LEMMA RejoinRecovers ==
  ASSUME NEW t \in Labels, Len(t) = 2, NEW dom \in Labels, Len(dom) > 0
  PROVE  Recovers(t, dom, t \o dom)
<1> SUFFICES ASSUME NEW ls, ls = t \o dom PROVE Recovers(t, dom, ls)
  BY Zenon
<1> SUFFICES ASSUME NEW reg \in Spelled(SubSeq(ls, 2, 3)), NEW rest \in Absolute(SubSeq(ls, 4, Len(ls)))
             PROVE  /\ Rejoin(<<ls[1]>>, reg, rest).type = Join(t)
                    /\ Rejoin(<<ls[1]>>, reg, rest).domain = Join(dom)
  BY Zenon DEF Recovers
<1> DEFINE l == ls[1]
           p == SubSeq(ls, 2, 3)
           r == SubSeq(ls, 4, Len(ls))
           n == Len(ls)
           a == <<l>> \o p
           S == Tokens \ {Dot}
<1>1. t \in Seq(S) /\ dom \in Seq(S)
  BY DEF Labels
<1>2. Glued(S, t, dom, ls)
  BY <1>1, ConcatFacts, Zenon
<1>3. ls \in Seq(S) /\ n \in Nat /\ n = 2 + Len(dom) /\ n >= 3 /\ Len(dom) \in Nat
  BY <1>2 DEF Glued
<1>4. ls \in Labels /\ Len(ls) >= 3
  BY <1>3, Zenon DEF Labels
<1>5. SubSeq(ls, 1, 2) = t /\ SubSeq(ls, 3, n) = dom
  <2>1. t # <<>> /\ dom # <<>>
    <3>1. Len(<<>>) = 0
      OBVIOUS
    <3>2. Len(t) # 0 /\ Len(dom) # 0
      BY <1>3
    <3>3. QED
      BY <3>1, <3>2, Zenon
  <2>2. SubSeq(ls, 1, Len(t)) = t /\ SubSeq(ls, Len(t) + 1, Len(t) + Len(dom)) = dom
    BY <1>1, <2>1, PartsOfConcat, Zenon
  <2>3. 2 + 1 = 3
    OBVIOUS
  <2>4. QED
    BY <1>3, <2>2, <2>3, Zenon
<1>6. l \in Tokens \ {Dot} /\ p \in Labels /\ p # <<>> /\ r \in Labels
  BY <1>4, PartsOfReply, Zenon
<1>7. a \o r = ls
  BY <1>4, PartsOfReply, Zenon
<1>8. ls \in Labels /\ ls # <<>> /\ ls \in Text
  <2>1. Len(<<>>) = 0
    OBVIOUS
  <2>2. ls # <<>>
    BY <1>4, <2>1
  <2>3. QED
    BY <1>4, <2>2, JoinEnds, Zenon
<1> HIDE DEF l, p, r
<1> DEFINE head == JoinParts(<<<<l>>, reg>>)
           glued == Gluing(head, TrimStart(rest))
           labels == SplitDots(TrimDot(glued))
<1>9. reg \in Spelled(p) /\ rest \in Absolute(r)
  BY Zenon DEF p, r
<1>10. a \in Labels /\ a # <<>> /\ (head = Join(a) \/ head = Join(a) \o <<Dot>>)
  BY <1>6, <1>9, HeadOfReply, Zenon
<1>11. Rejoin(<<l>>, reg, rest) =
         [type |-> JoinParts(SubSeq(labels, 1, 2)), domain |-> JoinParts(SubSeq(labels, 3, Len(labels)))]
  BY Zenon DEF Rejoin, Gluing
<1> HIDE DEF a, head
<1>12. TrimDot(glued) = Join(a \o r)
  BY <1>6, <1>9, <1>10, GluedName, Zenon
<1>13. labels = Pieces(ls)
  BY <1>7, <1>8, <1>12, SplitJoined, Zenon
<1> HIDE DEF labels
<1>14. Len(labels) = n
  <2>1. DOMAIN ls = 1..n
    BY <1>3, LenProperties, Zenon
  <2>2. DOMAIN labels = 1..n
    BY <1>13, <2>1, Zenon DEF Pieces
  <2>3. QED
    BY <1>3, <1>13, <2>1, <2>2 DEF Pieces
<1>15. SubSeq(labels, 1, 2) = Pieces(t) /\ SubSeq(labels, 3, Len(labels)) = Pieces(dom)
  <2>1. 1 \in Nat \ {0} /\ 3 \in Nat \ {0} /\ 2 \in Nat /\ n \in Nat /\ 2 <= Len(ls) /\ n <= Len(ls)
    BY <1>3
  <2>2. SubSeq(Pieces(ls), 1, 2) = Pieces(SubSeq(ls, 1, 2)) /\ SubSeq(Pieces(ls), 3, n) = Pieces(SubSeq(ls, 3, n))
    BY <1>8, <2>1, PiecesOfPart, Zenon
  <2>3. QED
    BY <1>5, <1>13, <1>14, <2>2, Zenon
<1>16. JoinParts(Pieces(t)) = Join(t) /\ JoinParts(Pieces(dom)) = Join(dom)
  BY Zenon DEF Join, Pieces
<1>17. Rejoin(<<l>>, reg, rest) = [type |-> Join(t), domain |-> Join(dom)]
  BY <1>11, <1>15, <1>16, Zenon
<1>18. Rejoin(<<l>>, reg, rest).type = Join(t) /\ Rejoin(<<l>>, reg, rest).domain = Join(dom)
  BY <1>17
<1>19. QED
  BY <1>18, Zenon DEF l

BrowsedInv == Announced /\ BrowsesWhatWasAnnounced

(* What a browse is given by each platform's handling of a meta reply. *)
LEMMA MetaReplyBrowses ==
  ASSUME Announced, MetaReply
  PROVE  /\ browse'.query = JoinParts(<<TypeText, DomainText>>)
         /\ platform # "windows" => browse'.type = TypeText /\ browse'.domain = DomainText
<1> DEFINE ls == svc.type \o svc.domain
           t == Join(svc.type)
           d == Join(svc.domain)
<1>1. /\ svc.type \in Labels /\ Len(svc.type) = 2 /\ svc.type # <<>> /\ svc.type \in Text
      /\ svc.domain \in Labels /\ Len(svc.domain) > 0 /\ svc.domain # <<>> /\ svc.domain \in Text
  BY AnnouncedText, JoinEnds, Zenon
<1>2. Join(ls) = JoinParts(<<t, d>>)
  BY <1>1, JoinConcat, Zenon
<1>3. TypeText = t /\ DomainText = d
  BY Zenon DEF TypeText, DomainText
<1>4. CASE platform = "linux" /\ Browse(Join(ls), TypeText, DomainText)
  <2>1. browse'.query = Join(ls) /\ browse'.type = TypeText /\ browse'.domain = DomainText
    BY <1>4 DEF Browse
  <2>2. QED
    BY <1>2, <1>3, <2>1, Zenon
<1>5. CASE \E reg \in Spelled(SubSeq(ls, 2, 3)), rest \in Absolute(SubSeq(ls, 4, Len(ls))) :
             LET r == Rejoin(<<ls[1]>>, reg, rest)
             IN  Browse(JoinParts(<<r.type, r.domain>>), r.type, r.domain)
  <2>1. PICK reg \in Spelled(SubSeq(ls, 2, 3)), rest \in Absolute(SubSeq(ls, 4, Len(ls))) :
             LET r == Rejoin(<<ls[1]>>, reg, rest)
             IN  Browse(JoinParts(<<r.type, r.domain>>), r.type, r.domain)
    BY <1>5, Zenon
  <2> DEFINE r == Rejoin(<<ls[1]>>, reg, rest)
  <2>2. r.type = t /\ r.domain = d
    <3>1. Recovers(svc.type, svc.domain, ls)
      BY <1>1, RejoinRecovers, Zenon
    <3> HIDE DEF ls
    <3>2. QED
      BY <2>1, <3>1, Zenon DEF Recovers
  <2>3. Browse(JoinParts(<<r.type, r.domain>>), r.type, r.domain)
    BY <2>1, Zenon
  <2> HIDE DEF r
  <2>4. browse'.query = JoinParts(<<r.type, r.domain>>) /\ browse'.type = r.type /\ browse'.domain = r.domain
    BY <2>3 DEF Browse
  <2>5. QED
    BY <1>3, <2>2, <2>4, Zenon
<1>6. CASE /\ platform = "windows"
           /\ \E target \in Spelled(ls) :
                LET r == CutLast(TrimDot(target)) IN Browse(TrimDot(target), r.type, r.domain)
  <2>1. PICK target \in Spelled(ls) :
                LET r == CutLast(TrimDot(target)) IN Browse(TrimDot(target), r.type, r.domain)
    BY <1>6, Zenon
  <2>2. browse'.query = TrimDot(target)
    BY <2>1 DEF Browse
  <2>3. ls \in Labels /\ ls # <<>>
    <3>1. svc.type \in Seq(Tokens \ {Dot}) /\ svc.domain \in Seq(Tokens \ {Dot})
      BY <1>1, Zenon DEF Labels
    <3>2. ls = <<>> => svc.type = <<>>
      BY <3>1, ConcatEqualIffEmpty
    <3>3. QED
      BY <1>1, <3>1, <3>2, ConcatProperties, Zenon DEF Labels
  <2>4. TrimDot(target) = Join(ls)
    BY <2>3, SpelledTrims, Zenon
  <2>5. QED
    BY <1>2, <1>3, <1>6, <2>2, <2>4, Zenon
<1>7. QED
  BY <1>4, <1>5, <1>6, Zenon DEF MetaReply

(* A type found by the meta-query is browsed under its own name and in its *)
(* own domain, for domains of any number of labels: on macOS               *)
(* meta_reply_to_type_and_domain puts together again what mDNSResponder    *)
(* took apart, however it spells the root.                                 *)
THEOREM MetaTypesBrowsed == IdSpec => []BrowsesWhatWasAnnounced
<1>1. IdInit => BrowsedInv
  BY DEF IdInit, BrowsedInv, Announced, BrowsesWhatWasAnnounced
<1>2. BrowsedInv /\ [IdNext]_idVars => BrowsedInv'
  <2> SUFFICES ASSUME BrowsedInv, [IdNext]_idVars PROVE BrowsedInv'
    OBVIOUS
  <2>1. UNCHANGED <<asked, platform, svc>>
    BY GivensKept
  <2>2. Announced'
    BY <2>1 DEF BrowsedInv, Announced, DaemonIndices
  <2>3. TypeText' = TypeText /\ DomainText' = DomainText
    BY <2>1 DEF TypeText, DomainText
  <2>4. CASE UNCHANGED browse
    BY <2>1, <2>2, <2>3, <2>4, Zenon DEF BrowsedInv, BrowsesWhatWasAnnounced
  <2>5. CASE MetaReply
    <3>1. /\ browse'.query = JoinParts(<<TypeText, DomainText>>)
          /\ platform # "windows" => browse'.type = TypeText /\ browse'.domain = DomainText
      BY <2>5, MetaReplyBrowses, Zenon DEF BrowsedInv
    <3>2. QED
      BY <2>1, <2>2, <2>3, <3>1, Zenon DEF BrowsedInv, BrowsesWhatWasAnnounced
  <2>6. CASE Browse(JoinParts(<<TypeText, DomainText>>), TypeText, DomainText)
    <3>1. /\ browse'.query = JoinParts(<<TypeText, DomainText>>)
          /\ browse'.type = TypeText /\ browse'.domain = DomainText
      BY <2>6 DEF Browse
    <3>2. QED
      BY <2>1, <2>2, <2>3, <3>1, Zenon DEF BrowsedInv, BrowsesWhatWasAnnounced
  <2>7. UNCHANGED browse \/ MetaReply \/ Browse(JoinParts(<<TypeText, DomainText>>), TypeText, DomainText)
    BY DEF IdNext, idVars, Ask, Found, Removed, Probe, Settled
  <2>8. QED
    BY <2>4, <2>5, <2>6, <2>7
<1>3. BrowsedInv => BrowsesWhatWasAnnounced
  BY DEF BrowsedInv
<1>4. QED
  BY <1>1, <1>2, <1>3, PTL DEF IdSpec
=============================================================================
