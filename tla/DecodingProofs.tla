--------------------------- MODULE DecodingProofs ---------------------------
(***************************************************************************)
(* Proofs about the parts of the collector that decode and enrich: the     *)
(* decoders of NetFlow v5 and sFlow read nothing outside of their slices,  *)
(* for every length an exporter may write; the enricher credits the side   *)
(* that exported, whatever links are configured; and the decoders of v9    *)
(* and IPFIX decode a record with a layout and a rate of its own exporter, *)
(* whatever the shared tables evict.                                       *)
(***************************************************************************)
EXTENDS TemplateDecoding, SampleDecoding, Enrichment,
        SequenceTheorems, FunctionTheorems, FiniteSetTheorems, TLAPS

-----------------------------------------------------------------------------
(* The engine and its scope. *)

(* With a local AS the alert engine only runs once the prefixes are known, *)
(* however often the fetch fails: main starts it with them, or holds it    *)
(* until FetchForEngine has them, and nothing forgets them.                *)
THEOREM EngineAlwaysScoped == ENSpec => []EngineIsScoped
<1>1. ENInit => EngineIsScoped
  BY DEF ENInit, EngineIsScoped
<1>2. EngineIsScoped /\ [ENNext]_enVars => EngineIsScoped'
  <2> SUFFICES ASSUME EngineIsScoped, [ENNext]_enVars PROVE EngineIsScoped'
    OBVIOUS
  <2> USE DEF EngineIsScoped
  <2>1. ASSUME NEW a \in {"prefixes", "empty", "error"}, FetchAtStart(a) PROVE EngineIsScoped'
    BY <2>1 DEF FetchAtStart, Answered
  <2>2. ASSUME NEW a \in {"prefixes", "empty", "error"}, FetchForEngine(a) PROVE EngineIsScoped'
    BY <2>2 DEF FetchForEngine, Answered
  <2>3. CASE StartEngine
    <3>1. CASE LocalAS > 0 /\ engine' = "running"
      <4>1. LocalAS # 0
        BY <3>1
      <4>2. ~localNets => engine' \in {"none", "held"}
        BY <2>3, <4>1 DEF StartEngine
      <4> QED
        BY <2>3, <3>1, <4>2 DEF StartEngine
    <3> QED
      BY <3>1
  <2>4. CASE LoadLinks \/ ReloadLinks \/ UNCHANGED enVars
    BY <2>4 DEF LoadLinks, ReloadLinks, enVars
  <2> QED
    BY <2>1, <2>2, <2>3, <2>4 DEF ENNext, Fetches
<1> QED
  BY <1>1, <1>2, PTL DEF ENSpec

\* The side that gets the credit.
LEMMA Credited ==
  ASSUME NEW flow \in RawFlows
  PROVE  /\ flow.in \in links /\ flow.out \in links =>
              CreditedSide(flow) = IF flow.hint = "out" THEN "out" ELSE "in"
         /\ flow.in \in links /\ flow.out \notin links => CreditedSide(flow) = "in"
         /\ flow.in \notin links /\ flow.out \in links => CreditedSide(flow) = "out"
         /\ flow.in \notin links /\ flow.out \notin links => CreditedSide(flow) = "none"
<1>1. CASE flow.hint = "out"
  BY <1>1 DEF CreditedSide, RawFlows
<1>2. CASE flow.hint # "out"
  BY <1>2 DEF CreditedSide, RawFlows
<1> QED
  BY <1>1, <1>2

(* Enrich credits a flow between two links to the side that exported it,   *)
(* for every table of links, every timestamp and every window.             *)
THEOREM ExportingSideCredited == ENSpec => []CreditsTheExportingSide
<1>1. CreditsTheExportingSide
  <2> SUFFICES ASSUME NEW flow \in RawFlows
               PROVE  LET out == Enriched(flow)
                      IN /\ out.ts \in -SkewPast .. SkewFuture
                         /\ out.side = "none" <=> {flow.in, flow.out} \cap links = {}
                         /\ {flow.in, flow.out} \subseteq links =>
                              out.side = IF flow.hint = "out" THEN "out" ELSE "in"
                         /\ out.as # flow.as => localNets /\ flow.local /\ flow.as # "public"
    BY DEF CreditsTheExportingSide
  <2>1. Enriched(flow).ts \in -SkewPast .. SkewFuture
    <3>1. SkewPast \in Nat /\ SkewFuture \in Nat /\ flow.ts \in Int
      BY EnrichmentAssumption DEF RawFlows
    <3>2. Enriched(flow).ts = IF InRange(flow.ts) THEN flow.ts ELSE 0
      BY DEF Enriched
    <3> QED
      BY <3>1, <3>2 DEF InRange
  <2>2. Enriched(flow).side = CreditedSide(flow)
    BY DEF Enriched
  <2>3. Enriched(flow).as # flow.as => localNets /\ flow.local /\ flow.as # "public"
    BY DEF Enriched, ASOf
  <2> QED
    BY <2>1, <2>2, <2>3, Credited
<1> QED
  BY <1>1, PTL

-----------------------------------------------------------------------------
(* The reads of a frame. *)

\* The reads of a transport header with n bytes from off on.
LEMMA TransportInside ==
  ASSUME NEW off \in Nat, NEW n \in Int, NEW proto, NEW end \in parseTransport(off, n, proto)
  PROVE  end \in Nat /\ end <= off + n
BY DEF parseTransport

\* The reads of an IPv4 header and what follows it end inside the frame.
LEMMA IPv4Inside ==
  ASSUME NEW off \in Nat, NEW n \in Int, NEW ihl \in Nat, NEW proto,
         NEW end \in parseIPv4Header(off, n, ihl, proto)
  PROVE  end \in Nat /\ end <= off + n
<1>1. /\ n >= 20
      /\ \/ end = off + 20
         \/ n >= ihl * 4 + 4 /\ end \in parseTransport(off + ihl * 4, n - ihl * 4, proto)
  BY DEF parseIPv4Header
<1>2. CASE end = off + 20
  BY <1>1, <1>2
<1>3. CASE end \in parseTransport(off + ihl * 4, n - ihl * 4, proto)
  <2>1. off + ihl * 4 \in Nat /\ n - ihl * 4 \in Int /\ (off + ihl * 4) + (n - ihl * 4) = off + n
    OBVIOUS
  <2> QED
    BY <1>3, <2>1, TransportInside
<1> QED
  BY <1>1, <1>2, <1>3

\* The reads of an IPv6 header and what follows it end inside the frame.
LEMMA IPv6Inside ==
  ASSUME NEW off \in Nat, NEW n \in Int, NEW proto, NEW end \in parseIPv6Header(off, n, proto)
  PROVE  end \in Nat /\ end <= off + n
<1>1. n >= 40 /\ (end = off + 40 \/ end \in parseTransport(off + 40, n - 40, proto))
  BY DEF parseIPv6Header
<1>2. CASE end = off + 40
  BY <1>1, <1>2
<1>3. CASE end \in parseTransport(off + 40, n - 40, proto)
  <2>1. off + 40 \in Nat /\ n - 40 \in Int /\ (off + 40) + (n - 40) = off + n
    OBVIOUS
  <2> QED
    BY <1>3, <2>1, TransportInside
<1> QED
  BY <1>1, <1>2, <1>3

\* No read of a frame goes past the bytes that were captured.
LEMMA FrameInside ==
  ASSUME NEW h \in Nat, NEW f \in Frames, NEW end \in FrameReads(h, f)
  PROVE  end <= h
<1>1. f.tags \in Nat /\ f.ihl \in Nat
  BY SampleAssumption DEF Frames
<1> DEFINE ip == 14 + 4 * f.tags
<1>2. ip \in Nat /\ h >= 14
  BY <1>1 DEF FrameReads
<1>3. \/ end = 14 \/ \E k \in TagsRead(h, f.tags) : end = 14 + 4 * k
      \/ end \in parseIPv4Header(ip, h - ip, f.ihl, f.proto)
      \/ end \in parseIPv6Header(ip, h - ip, f.proto)
  BY <1>2 DEF FrameReads
<1> HIDE DEF ip
<1>4. h - ip \in Int /\ ip + (h - ip) = h
  BY <1>2
<1>5. CASE end = 14 \/ \E k \in TagsRead(h, f.tags) : end = 14 + 4 * k
  BY <1>2, <1>5 DEF TagsRead
<1>6. CASE end \in parseIPv4Header(ip, h - ip, f.ihl, f.proto)
  BY <1>1, <1>2, <1>4, <1>6, IPv4Inside
<1>7. CASE end \in parseIPv6Header(ip, h - ip, f.proto)
  BY <1>2, <1>4, <1>7, IPv6Inside
<1> QED
  BY <1>3, <1>5, <1>6, <1>7

-----------------------------------------------------------------------------
(* The walk over the slices: its inductive invariant. *)

\* An interface as an exporter writes it.
AnIf == (0 .. 3) \X (0 .. Bits30 - 1)

\* What a sample is to its flows: counted once at least, on the interfaces written for it.
Sound(s) == s.rate >= 1 /\ s.in = Named(s.wrote.in) /\ s.out = Named(s.wrote.out)

ASample ==
  {s \in [rate : Nat, in : Nat, out : Nat,
          wrote : [kind : {"v5", "flow", "expanded"}, in : AnIf, out : AnIf]] : Sound(s)}
    \cup {NoSample}

ASlice ==
  [level : {"samples", "records"}, length : Nat, off : Nat, todo : 0 .. MaxSamples,
   sample : ASample]

Walking ==
  /\ nest \in Seq(ASlice)
  /\ \A r \in reads : r.end <= r.length
  /\ sampled \in ASample

\* The lengths and counts an exporter may write are natural numbers.
LEMMA LengthsAreNat ==
  /\ V5Lengths \subseteq Nat /\ V5Counts \subseteq Nat /\ Lengths \subseteq Nat /\ SampleLengths \subseteq Nat
  /\ RecordLens \subseteq Nat /\ HeaderLens \subseteq Nat /\ Counts \subseteq Nat /\ MaxSamples \in Nat
  /\ IfsWritten \subseteq AnIf
BY SampleAssumption DEF AnIf

\* A number is taken apart in its multiples of b and the rest.
LEMMA Quotient ==
  ASSUME NEW b \in Nat \ {0}, NEW f \in Nat, NEW v \in 0 .. b - 1
  PROVE  (f * b + v) \div b = f /\ (f * b + v) % b = v
<1> DEFINE x == f * b + v
           q == x \div b
           r == x % b
<1>1. x \in Nat
  OBVIOUS
<1>2. q \in Int /\ r \in 0 .. b - 1 /\ x = b * q + r
  BY <1>1
<1>3. x = b * f + v /\ v \in Int /\ 0 <= v /\ v < b /\ r \in Int /\ 0 <= r /\ r < b
  BY <1>2
<1> HIDE DEF x, q, r
<1>4. b * (q - f) = v - r
  BY <1>2, <1>3
<1>5. q - f \in Int /\ v - r < b /\ v - r > -b
  BY <1>2, <1>3
<1>6. ~(q - f >= 1)
  <2>1. q - f >= 1 => b * (q - f) >= b
    BY <1>5
  <2> QED
    BY <1>3, <1>4, <1>5, <2>1
<1>7. ~(q - f <= -1)
  <2>1. q - f <= -1 => b * (q - f) <= -b
    BY <1>5
  <2> QED
    BY <1>3, <1>4, <1>5, <2>1
<1>8. q = f
  BY <1>2, <1>5, <1>6, <1>7
<1> QED
  BY <1>2, <1>3, <1>8 DEF x, q, r

\* The value of an interface has 30 bits.
LEMMA ThirtyBits == Bits30 \in Nat \ {0} /\ 7 < ifUnknown /\ ifUnknown = Bits30 - 1
<1>1. Bits10 \in Nat /\ Bits10 > 8
  BY DEF Bits10
<1>2. Bits10 * Bits10 \in Nat /\ Bits10 * Bits10 > Bits10
  BY <1>1
<1>3. (Bits10 * Bits10) * Bits10 \in Nat /\ (Bits10 * Bits10) * Bits10 > Bits10
  BY <1>1, <1>2
<1> QED
  BY <1>1, <1>3 DEF Bits30, ifUnknown

\* The word of an interface is taken apart as it was put together.
LEMMA WordOfInterface ==
  ASSUME NEW i \in AnIf
  PROVE  /\ compactIfIndex(i[1] * Bits30 + i[2]) = Named(i)
         /\ expandedIfIndex(i[1], i[2]) = Named(i)
         /\ Named(i) \in Nat
<1>1. i[1] \in 0 .. 3 /\ i[2] \in 0 .. Bits30 - 1
  BY DEF AnIf
<1>2. (i[1] * Bits30 + i[2]) \div Bits30 = i[1] /\ (i[1] * Bits30 + i[2]) % Bits30 = i[2]
  <2>1. i[1] \in Nat /\ Bits30 \in Nat \ {0}
    BY <1>1, ThirtyBits
  <2> QED
    BY <1>1, <2>1, Quotient
<1>3. expandedIfIndex(i[1], i[2]) = Named(i)
  BY DEF expandedIfIndex, Named
<1>4. Named(i) \in Nat
  BY <1>1, ThirtyBits DEF Named
<1> QED
  BY <1>2, <1>3, <1>4 DEF compactIfIndex

\* The header of a sample gives its flows the interfaces that were written.
LEMMA SampleIsSound ==
  ASSUME NEW kind \in {"flow", "expanded"}, NEW rate \in {0, 5}, NEW in \in AnIf, NEW out \in AnIf
  PROVE  SampleOf(kind, rate, in, out) \in ASample
<1> DEFINE ifs == ReadInterfaces(kind, ifWords(kind, in, out))
<1>1. ifs.in = Named(in) /\ ifs.out = Named(out)
  <2>1. CASE kind = "expanded"
    BY <2>1, WordOfInterface DEF ReadInterfaces, ifWords
  <2>2. CASE kind = "flow"
    BY <2>2, WordOfInterface DEF ReadInterfaces, ifWords
  <2> QED
    BY <2>1, <2>2
<1> HIDE DEF ifs
<1>2. Named(in) \in Nat /\ Named(out) \in Nat
  BY WordOfInterface
<1>3. SampleOf(kind, rate, in, out) =
        [rate |-> IF rate = 0 THEN 1 ELSE rate, in |-> ifs.in, out |-> ifs.out,
         wrote |-> [kind |-> kind, in |-> in, out |-> out]]
  BY DEF SampleOf, ifs
<1> QED
  BY <1>1, <1>2, <1>3 DEF ASample, Sound

\* So does a record of NetFlow v5.
LEMMA V5SampleIsSound ==
  ASSUME NEW rate \in {0, 5}, NEW override \in {0, 3}, NEW in \in {0, 7}, NEW out \in {0, 7}
  PROVE  V5Sample(rate, override, in, out) \in ASample
<1>1. V5Rate(rate, override) \in Nat /\ V5Rate(rate, override) >= 1
  BY DEF V5Rate
<1>2. /\ <<0, in>> \in AnIf /\ <<0, out>> \in AnIf
      /\ Named(<<0, in>>) = in /\ Named(<<0, out>>) = out
  BY ThirtyBits DEF AnIf, Named
<1> QED
  BY <1>1, <1>2 DEF V5Sample, ASample, Sound

\* Reads that stay inside.
LEMMA ReadsInside ==
  ASSUME NEW n \in Nat, NEW ends \in SUBSET Nat, \A e \in ends : e <= n
  PROVE  \A r \in Reads(n, ends) : r.end <= r.length
BY DEF Reads

\* A new loop over a slice has the type of one.
LEMMA SliceType ==
  ASSUME NEW level \in {"samples", "records"}, NEW n \in Nat, NEW off \in Nat, NEW count \in Nat,
         NEW sample \in ASample
  PROVE  Slice(level, n, off, count, sample) \in ASlice
<1>1. Least(count, MaxSamples) \in 0 .. MaxSamples
  BY LengthsAreNat DEF Least
<1> QED
  BY <1>1 DEF Slice, ASlice

\* The innermost slice, and the ones around it.
LEMMA InnerOuter ==
  ASSUME nest \in Seq(ASlice), nest # <<>>
  PROVE  Inner \in ASlice /\ Outer \in Seq(ASlice)
<1>1. Len(nest) \in Nat \ {0} /\ \A i \in 1 .. Len(nest) : nest[i] \in ASlice
  OBVIOUS
<1>2. Inner \in ASlice
  BY <1>1 DEF Inner
<1>3. Outer \in Seq(ASlice)
  <2>1. Len(nest) - 1 \in Int /\ 1 \in Int /\ \A i \in 1 .. (Len(nest) - 1) : nest[i] \in ASlice
    BY <1>1
  <2> QED
    BY <2>1, SubSeqProperties DEF Outer
<1> QED
  BY <1>2, <1>3

\* The slice after one of its elements.
LEMMA AfterType ==
  ASSUME NEW x \in ASlice, x.todo > 0, NEW n \in Nat
  PROVE  After(x, n) \in ASlice /\ AfterRecord(x, n) \in ASlice
<1>1. x.off + 8 + n \in Nat /\ x.todo - 1 \in 0 .. MaxSamples
  BY LengthsAreNat DEF ASlice
<1>2. After(x, n) \in ASlice /\ After(x, n).off = x.off + 8 + n
  BY <1>1 DEF After, ASlice
<1>3. Pad(x.off + 8 + n) \in Nat
  BY <1>1 DEF Pad
<1> QED
  BY <1>2, <1>3 DEF AfterRecord, ASlice

\* The walk goes on in outer and perhaps in one more slice.
LEMMA NestType ==
  ASSUME NEW outer \in Seq(ASlice), NEW a \in ASlice, NEW b \in ASlice
  PROVE  outer \o <<a>> \in Seq(ASlice) /\ outer \o <<a, b>> \in Seq(ASlice)
<1>1. <<a>> \in Seq(ASlice) /\ <<a, b>> \in Seq(ASlice)
  OBVIOUS
<1> QED
  BY <1>1, ConcatProperties

\* Inside a slice whose loop goes on.
LEMMA InElement ==
  ASSUME Walking, nest # <<>>, More
  PROVE  /\ Inner \in ASlice /\ Outer \in Seq(ASlice) /\ Inner.todo > 0
         /\ Inner.length \in Nat /\ Inner.off \in Nat /\ Inner.off + 8 <= Inner.length
BY InnerOuter DEF Walking, More, ASlice

\* NetFlow v5: the records that are read fit in the datagram.
LEMMA V5Step ==
  ASSUME Walking, NEW n \in Nat, NEW count \in Nat, NEW rate \in {0, 5}, NEW override \in {0, 3},
         NEW in \in {0, 7}, NEW out \in {0, 7}, DecodeV5(n, count, rate, override, in, out)
  PROVE  Walking'
<1>1. V5Records(n, count) \in Nat /\ (V5Records(n, count) > 0 => 24 + V5Records(n, count) * 48 <= n)
  BY DEF V5Records, Fits
<1>2. V5Sample(rate, override, in, out) \in ASample /\ NoSample \in ASample
  BY V5SampleIsSound DEF ASample
<1> DEFINE m == V5Records(n, count)
           ends == {24} \cup {24 + i * 48 : i \in 1 .. m}
<1>3. \A r \in reads' : r.end <= r.length
  <2>1. CASE n < 24
    BY <2>1 DEF DecodeV5
  <2>2. CASE ~(n < 24)
    <3> HIDE DEF m
    <3>1. ends \in SUBSET Nat
      BY <1>1 DEF m
    <3>2. \A i \in 1 .. m : 24 + i * 48 <= 24 + m * 48 /\ m > 0
      BY <1>1 DEF m
    <3>3. \A e \in ends : e <= n
      BY <1>1, <2>2, <3>2 DEF m
    <3>4. reads' = Reads(n, ends)
      BY <2>2 DEF DecodeV5, m
    <3> HIDE DEF ends
    <3> QED
      BY <3>1, <3>3, <3>4, ReadsInside
  <2> QED
    BY <2>1, <2>2
<1>4. sampled' \in ASample
  BY <1>2 DEF DecodeV5
<1> QED
  BY <1>3, <1>4 DEF Walking, DecodeV5

\* A datagram opens the loop over its samples.
LEMMA DatagramStep ==
  ASSUME Walking, NEW n \in Nat, NEW t \in 1 .. 3, NEW count \in Nat, DecodeDatagram(n, t, count)
  PROVE  Walking'
<1>1. sampled' = NoSample /\ NoSample \in ASample
  BY DEF DecodeDatagram, ASample
<1>2. CASE HeaderFits(n, t) /\ t \in {1, 2}
  <2>1. nest' = <<Slice("samples", n, HeaderEnd(t), count, NoSample)>> /\ reads' = Reads(n, {8, HeaderEnd(t)})
    BY <1>2 DEF DecodeDatagram
  <2>2. HeaderEnd(t) \in Nat /\ HeaderEnd(t) <= n /\ 8 <= n
    BY <1>2 DEF HeaderFits, HeaderEnd
  <2>3. Slice("samples", n, HeaderEnd(t), count, NoSample) \in ASlice
    BY <1>1, <2>2, SliceType
  <2>4. nest' \in Seq(ASlice)
    BY <2>1, <2>3
  <2>5. \A r \in reads' : r.end <= r.length
    BY <2>1, <2>2, ReadsInside
  <2> QED
    BY <1>1, <2>4, <2>5 DEF Walking
<1>3. CASE ~(HeaderFits(n, t) /\ t \in {1, 2})
  <2>1. nest' = <<>> /\ reads' = IF n >= 28 THEN Reads(n, {8}) ELSE {}
    BY <1>3 DEF DecodeDatagram
  <2>2. \A r \in reads' : r.end <= r.length
    <3>1. CASE n >= 28
      BY <2>1, <3>1, ReadsInside
    <3> QED
      BY <2>1, <3>1
  <2>3. nest' \in Seq(ASlice)
    BY <2>1
  <2> QED
    BY <1>1, <2>2, <2>3 DEF Walking
<1> QED
  BY <1>2, <1>3

\* A loop ends, or an element does not fit.
LEMMA LoopEndStep ==
  ASSUME Walking, NEW n \in Nat, LoopEnds \/ ElementOverruns(n)
  PROVE  Walking'
<1>1. nest # <<>> /\ nest' = Outer /\ sampled' = sampled
  BY DEF LoopEnds, ElementOverruns
<1>2. nest' \in Seq(ASlice)
  BY <1>1, InnerOuter DEF Walking
<1>3. \A r \in reads' : r.end <= r.length
  <2>1. CASE LoopEnds
    BY <2>1 DEF LoopEnds
  <2>2. CASE ElementOverruns(n)
    <3>1. More /\ reads' = Reads(Inner.length, {Inner.off + 8})
      BY <2>2 DEF ElementOverruns
    <3>2. Inner.length \in Nat /\ Inner.off + 8 \in Nat /\ Inner.off + 8 <= Inner.length
      BY <1>1, <3>1, InElement
    <3> QED
      BY <3>1, <3>2, ReadsInside
  <2> QED
    BY <2>1, <2>2
<1> QED
  BY <1>1, <1>2, <1>3 DEF Walking

\* A sample opens the loop over its records.
LEMMA FlowSampleStep ==
  ASSUME Walking, NEW n \in Nat, NEW kind \in {"flow", "expanded", "counter"}, NEW count \in Nat,
         NEW rate \in {0, 5}, NEW in \in AnIf, NEW out \in AnIf,
         decodeFlowSample(n, kind, count, rate, in, out)
  PROVE  Walking'
<1>1. nest # <<>> /\ More /\ ~Overruns(n) /\ sampled' = NoSample /\ NoSample \in ASample
  BY DEF decodeFlowSample, ASample
<1> DEFINE records == Slice("records", n, SampleHeader(kind), count, SampleOf(kind, rate, in, out))
<1>2. /\ Inner \in ASlice /\ Outer \in Seq(ASlice) /\ Inner.todo > 0
      /\ Inner.length \in Nat /\ Inner.off \in Nat /\ Inner.off + 8 <= Inner.length
  BY <1>1, InElement
<1>3. Inner.off + 8 + n <= Inner.length
  BY <1>1, <1>2 DEF Overruns
<1>4. After(Inner, n) \in ASlice
  BY <1>2, AfterType
<1>5. SampleHeader(kind) \in Nat
  BY DEF SampleHeader
<1>6. CASE kind \in {"flow", "expanded"} /\ n >= SampleHeader(kind)
  <2>1. /\ nest' = Outer \o <<After(Inner, n), records>>
        /\ reads' = Reads(Inner.length, {Inner.off + 8 + n}) \cup Reads(n, {SampleHeader(kind)})
    BY <1>6 DEF decodeFlowSample
  <2>2. records \in ASlice
    BY <1>5, <1>6, SampleIsSound, SliceType
  <2>3. nest' \in Seq(ASlice)
    BY <1>2, <1>4, <2>1, <2>2, NestType
  <2>4. \A r \in Reads(Inner.length, {Inner.off + 8 + n}) : r.end <= r.length
    BY <1>2, <1>3, ReadsInside
  <2>5. \A r \in Reads(n, {SampleHeader(kind)}) : r.end <= r.length
    BY <1>5, <1>6, ReadsInside
  <2> QED
    BY <1>1, <2>1, <2>3, <2>4, <2>5 DEF Walking
<1>7. CASE ~(kind \in {"flow", "expanded"} /\ n >= SampleHeader(kind))
  <2>1. nest' = Outer \o <<After(Inner, n)>> /\ reads' = Reads(Inner.length, {Inner.off + 8})
    BY <1>7 DEF decodeFlowSample
  <2>2. nest' \in Seq(ASlice)
    BY <1>2, <1>4, <2>1, NestType
  <2>3. \A r \in Reads(Inner.length, {Inner.off + 8}) : r.end <= r.length
    BY <1>2, ReadsInside
  <2> QED
    BY <1>1, <2>1, <2>2, <2>3 DEF Walking
<1> QED
  BY <1>6, <1>7

\* A record is skipped or decoded.
LEMMA RecordStep ==
  ASSUME Walking, NEW n \in Nat, NEW h \in Nat, SkipRecord(n) \/ decodeRawPacketRecord(n, h)
  PROVE  Walking'
<1>1. nest # <<>> /\ More /\ ~Overruns(n) /\ nest' = Outer \o <<AfterRecord(Inner, n)>>
  BY DEF SkipRecord, decodeRawPacketRecord
<1>2. /\ Inner \in ASlice /\ Outer \in Seq(ASlice) /\ Inner.todo > 0
      /\ Inner.length \in Nat /\ Inner.off \in Nat /\ Inner.off + 8 <= Inner.length
  BY <1>1, InElement
<1>3. Inner.off + 8 + n <= Inner.length
  BY <1>1, <1>2 DEF Overruns
<1>4. AfterRecord(Inner, n) \in ASlice
  BY <1>2, AfterType
<1>5. nest' \in Seq(ASlice)
  BY <1>1, <1>2, <1>4, NestType
<1>6. CASE SkipRecord(n)
  <2>1. \A r \in Reads(Inner.length, {Inner.off + 8}) : r.end <= r.length
    BY <1>2, ReadsInside
  <2>2. n >= 16 => \A r \in Reads(n, {16}) : r.end <= r.length
    BY ReadsInside
  <2>3. reads' = Reads(Inner.length, {Inner.off + 8}) \cup (IF n >= 16 THEN Reads(n, {16}) ELSE {})
        /\ sampled' = sampled
    BY <1>6 DEF SkipRecord
  <2> QED
    BY <1>5, <2>1, <2>2, <2>3 DEF Walking
<1>7. CASE decodeRawPacketRecord(n, h)
  <2>1. n >= 16 /\ 16 + h <= n
        /\ reads' = Reads(Inner.length, {Inner.off + 8 + n}) \cup Reads(n, {16, 16 + h})
    BY <1>7 DEF decodeRawPacketRecord
  <2>2. \A r \in Reads(Inner.length, {Inner.off + 8 + n}) : r.end <= r.length
    BY <1>2, <1>3, ReadsInside
  <2>3. \A r \in Reads(n, {16, 16 + h}) : r.end <= r.length
    BY <2>1, ReadsInside
  <2>4. sampled' \in ASample
    BY <1>2, <1>7 DEF decodeRawPacketRecord, ASlice
  <2> QED
    BY <1>5, <2>1, <2>2, <2>3, <2>4 DEF Walking
<1> QED
  BY <1>6, <1>7

(* The decoders of v5 and sFlow never read past the slice they have, down  *)
(* to the transport header of a sampled frame, for every length, count and *)
(* header an exporter may write; a count above the cap does not matter,    *)
(* and every flow counts at least once and is on the interfaces that the   *)
(* exporter named in the header of its sample, in either layout.           *)
THEOREM DecodersReadInside == SDSpec => []ReadsStayInside
<1>1. SDInit => Walking
  BY DEF SDInit, Walking, ASample
<1>2. Walking /\ [SDNext]_sdVars => Walking'
  <2> SUFFICES ASSUME Walking, [SDNext]_sdVars PROVE Walking'
    OBVIOUS
  <2>1. CASE UNCHANGED sdVars
    BY <2>1 DEF Walking, sdVars
  <2> QED
    BY <2>1, LengthsAreNat, V5Step, DatagramStep, LoopEndStep, FlowSampleStep, RecordStep DEF SDNext
<1>3. Walking => ReadsStayInside
  <2> SUFFICES ASSUME Walking PROVE ReadsStayInside
    OBVIOUS
  <2>1. \A i \in DOMAIN nest : nest[i].todo <= MaxSamples
    <3>1. nest \in Seq(ASlice) /\ \A i \in DOMAIN nest : nest[i] \in ASlice
      BY DEF Walking
    <3>2. \A x \in ASlice : x.todo <= MaxSamples
      BY LengthsAreNat DEF ASlice
    <3> QED
      BY <3>1, <3>2
  <2>2. \A h \in HeaderLens, f \in Frames : \A end \in FrameReads(h, f) : end <= h
    BY LengthsAreNat, FrameInside
  <2>3. sampled.rate >= 1 /\ (sampled # NoSample => Sound(sampled))
    BY DEF Walking, ASample, Sound, NoSample
  <2> QED
    BY <2>1, <2>2, <2>3 DEF Walking, ReadsStayInside, Sound
<1> QED
  BY <1>1, <1>2, <1>3, PTL DEF SDSpec

-----------------------------------------------------------------------------
(* The bounded tables of the decoders of v9 and IPFIX. *)

\* A set of positions has a last one: else the positions up to one of it would be
\* mapped to the next ones, one by one and without a first.
LEMMA LastPosition ==
  ASSUME NEW n \in Nat, NEW at \in SUBSET (1 .. n), at # {}
  PROVE  Max(at) \in at
<1> DEFINE upTo == {k \in 1 .. n : \E i \in at : k <= i}
           next == [k \in upTo |-> k + 1]
<1>1. ASSUME \A i \in at : \E j \in at : ~ (i >= j) PROVE FALSE
  <2>1. next \in [upTo -> upTo \ {1}]
    <3> SUFFICES ASSUME NEW k \in upTo PROVE k + 1 \in upTo \ {1}
      OBVIOUS
    <3>1. PICK i \in at : k <= i
      OBVIOUS
    <3>2. PICK j \in at : ~ (i >= j)
      BY <1>1
    <3>3. k \in 1 .. n /\ i \in 1 .. n /\ j \in 1 .. n
      OBVIOUS
    <3>4. k + 1 \in 1 .. n /\ k + 1 <= j /\ k + 1 # 1
      BY <3>1, <3>2, <3>3
    <3> QED
      BY <3>4
  <2>2. 1 \in upTo
    <3>1. PICK i \in at : i \in 1 .. n
      OBVIOUS
    <3>2. 1 \in 1 .. n /\ 1 <= i
      BY <3>1
    <3> QED
      BY <3>2
  <2>3. IsFiniteSet(upTo)
    <3>1. IsFiniteSet(1 .. n) /\ upTo \in SUBSET (1 .. n)
      BY FS_Interval
    <3> QED
      BY <3>1, FS_Subset
  <2>4. \A k, l \in upTo : next[k] = next[l] => k = l
    <3>1. \A k \in upTo : next[k] = k + 1 /\ k \in Int
      OBVIOUS
    <3> QED
      BY <3>1
  <2> HIDE DEF upTo, next
  <2>5. Cardinality(upTo) \in Nat
    BY <2>3, FS_CardinalityType
  <2>6. IsFiniteSet(upTo \ {1}) /\ Cardinality(upTo \ {1}) = Cardinality(upTo) - 1
    BY <2>2, <2>3, FS_RemoveElement
  <2>7. Cardinality(upTo \ {1}) < Cardinality(upTo)
    BY <2>5, <2>6
  <2> QED
    BY <2>1, <2>3, <2>4, <2>6, <2>7, FS_PigeonHole
<1> QED
  BY <1>1 DEF Max

\* A sequence without the element at a position.
LEMMA RemoveAtProperties ==
  ASSUME NEW S, NEW s \in Seq(S), NEW i \in 1 .. Len(s)
  PROVE  /\ RemoveAt(s, i) \in Seq(S)
         /\ Len(RemoveAt(s, i)) = Len(s) - 1
         /\ \A j \in 1 .. Len(s) - 1 : RemoveAt(s, i)[j] = IF j < i THEN s[j] ELSE s[j + 1]
<1> DEFINE front == SubSeq(s, 1, i - 1)
           back == SubSeq(s, i + 1, Len(s))
<1>1. Len(s) \in Nat /\ i \in Int /\ \A j \in 1 .. Len(s) : s[j] \in S
  OBVIOUS
<1>2. front \in Seq(S) /\ Len(front) = i - 1 /\ \A j \in 1 .. i - 1 : front[j] = s[j]
  <2>1. i - 1 \in Int /\ \A j \in 1 .. i - 1 : s[j] \in S
    BY <1>1
  <2>2. /\ front \in Seq(S) /\ Len(front) = IF 1 <= i - 1 THEN (i - 1) - 1 + 1 ELSE 0
        /\ \A j \in 1 .. (i - 1) - 1 + 1 : front[j] = s[1 + j - 1]
    BY <2>1, SubSeqProperties
  <2> QED
    BY <1>1, <2>2
<1>3. back \in Seq(S) /\ Len(back) = Len(s) - i /\ \A j \in 1 .. Len(s) - i : back[j] = s[i + j]
  <2>1. i + 1 \in Int /\ \A j \in i + 1 .. Len(s) : s[j] \in S
    BY <1>1
  <2>2. /\ back \in Seq(S) /\ Len(back) = IF i + 1 <= Len(s) THEN Len(s) - (i + 1) + 1 ELSE 0
        /\ \A j \in 1 .. Len(s) - (i + 1) + 1 : back[j] = s[(i + 1) + j - 1]
    BY <1>1, <2>1, SubSeqProperties
  <2> QED
    BY <1>1, <2>2
<1> HIDE DEF front, back
<1>4. /\ front \o back \in Seq(S) /\ Len(front \o back) = Len(front) + Len(back)
      /\ \A j \in 1 .. Len(front) + Len(back) :
           (front \o back)[j] = IF j <= Len(front) THEN front[j] ELSE back[j - Len(front)]
  BY <1>2, <1>3, ConcatProperties
<1>5. RemoveAt(s, i) = front \o back
  BY DEF RemoveAt, front, back
<1>6. ASSUME NEW j \in 1 .. Len(s) - 1 PROVE (front \o back)[j] = IF j < i THEN s[j] ELSE s[j + 1]
  <2>1. CASE j < i
    BY <1>1, <1>2, <1>3, <1>4, <2>1
  <2>2. CASE ~(j < i)
    <3>1. j - (i - 1) \in 1 .. Len(s) - i /\ i + (j - (i - 1)) = j + 1 /\ ~(j <= i - 1)
      BY <1>1, <2>2
    <3>2. (front \o back)[j] = back[j - (i - 1)]
      BY <1>1, <1>2, <1>3, <1>4, <3>1
    <3> QED
      BY <1>3, <2>2, <3>1, <3>2
  <2> QED
    BY <2>1, <2>2
<1>7. Len(front) + Len(back) = Len(s) - 1
  BY <1>1, <1>2, <1>3
<1> QED
  BY <1>4, <1>5, <1>6, <1>7

\* The ages of a table: each key once, and no more of them than the table may have.
Aged(table, age, limit) ==
  /\ age \in Seq(DOMAIN table) /\ Range(age) = DOMAIN table /\ Len(age) <= limit
  /\ \A i, j \in 1 .. Len(age) : age[i] = age[j] => i = j

\* There are as many ages as keys.
LEMMA AgesCount ==
  ASSUME NEW table, NEW age, NEW limit, Aged(table, age, limit)
  PROVE  Cardinality(DOMAIN table) = Len(age)
<1>1. Len(age) \in Nat /\ age \in [1 .. Len(age) -> DOMAIN table] /\ DOMAIN age = 1 .. Len(age)
  BY LenProperties DEF Aged
<1>2. \A k \in DOMAIN table : \E i \in 1 .. Len(age) : age[i] = k
  BY <1>1 DEF Aged, Range
<1>3. age \in Bijection(1 .. Len(age), DOMAIN table)
  BY <1>1, <1>2, Fun_IsBij DEF Aged
<1>4. IsFiniteSet(1 .. Len(age)) /\ Cardinality(1 .. Len(age)) = Len(age)
  BY <1>1, FS_Interval
<1>5. ExistsBijection(1 .. Len(age), DOMAIN table)
  BY <1>3 DEF ExistsBijection
<1> QED
  BY <1>4, <1>5, FS_Bijection

\* What is left of the ages when key is set: not key, and room for it.
KeptAges(table, limit, key, age) ==
  LET gone == MakeRoom(table, limit, key, age) IN IF gone = 0 THEN age ELSE RemoveAt(age, gone)

\* The ages that are left are those of keys, each once, and one more fits.
LEMMA KeptProperties ==
  ASSUME NEW table, NEW age, NEW limit \in Nat \ {0}, NEW key, Aged(table, age, limit)
  PROVE  LET kept == KeptAges(table, limit, key, age)
         IN  /\ kept \in Seq(DOMAIN table) /\ Len(kept) < limit
             /\ \A i, j \in 1 .. Len(kept) : kept[i] = kept[j] => i = j
             /\ \A i \in 1 .. Len(kept) : kept[i] # key
<1> DEFINE gone == MakeRoom(table, limit, key, age)
           kept == KeptAges(table, limit, key, age)
<1>1. /\ age \in Seq(DOMAIN table) /\ Len(age) \in Nat /\ Len(age) <= limit
      /\ \A i, j \in 1 .. Len(age) : age[i] = age[j] => i = j
      /\ \A i \in 1 .. Len(age) : age[i] \in DOMAIN table
      /\ DOMAIN age = 1 .. Len(age)
  BY LenProperties, ElementOfSeq DEF Aged
<1>2. Cardinality(DOMAIN table) = Len(age)
  BY AgesCount
<1>3. CASE gone = 0
  <2>1. kept = age
    BY <1>3 DEF KeptAges
  <2>2. key \notin DOMAIN table /\ ~ (Len(age) >= limit)
    <3>1. key \in DOMAIN table => gone \in DOMAIN age
      BY DEF MakeRoom, Aged, Range
    <3>2. 0 \notin 1 .. Len(age)
      OBVIOUS
    <3>3. key \notin DOMAIN table
      BY <1>1, <1>3, <3>1, <3>2
    <3> QED
      BY <1>2, <1>3, <3>3 DEF MakeRoom
  <2> QED
    BY <1>1, <2>1, <2>2
<1>4. CASE gone # 0
  <2>1. gone \in 1 .. Len(age)
    <3>1. CASE key \in DOMAIN table
      <4>1. \E i \in DOMAIN age : age[i] = key
        BY <3>1 DEF Aged, Range
      <4> QED
        BY <1>1, <3>1, <4>1 DEF MakeRoom
    <3>2. CASE key \notin DOMAIN table
      <4>1. Len(age) >= limit /\ gone = 1
        BY <1>2, <1>4, <3>2 DEF MakeRoom
      <4> QED
        BY <1>1, <4>1
    <3> QED
      BY <3>1, <3>2
  <2>2. key \in DOMAIN table => age[gone] = key
    <3>1. SUFFICES ASSUME key \in DOMAIN table PROVE age[gone] = key
      OBVIOUS
    <3>2. \E i \in DOMAIN age : age[i] = key
      BY <3>1 DEF Aged, Range
    <3> QED
      BY <3>1, <3>2 DEF MakeRoom
  <2> HIDE DEF gone
  <2>3. /\ kept \in Seq(DOMAIN table) /\ Len(kept) = Len(age) - 1
        /\ \A j \in 1 .. Len(age) - 1 : kept[j] = age[IF j < gone THEN j ELSE j + 1]
    <3>1. kept = RemoveAt(age, gone)
      BY <1>4 DEF KeptAges, gone
    <3> HIDE DEF kept
    <3> QED
      BY <1>1, <2>1, <3>1, RemoveAtProperties
  <2> HIDE DEF kept
  <2> DEFINE from(j) == IF j < gone THEN j ELSE j + 1
  <2>4. \A j \in 1 .. Len(kept) : from(j) \in 1 .. Len(age) /\ from(j) # gone /\ kept[j] = age[from(j)]
    BY <1>1, <2>1, <2>3
  <2>5. \A i, j \in 1 .. Len(kept) : from(i) = from(j) => i = j
    BY <1>1, <2>1, <2>3
  <2> HIDE DEF from
  <2>6. \A i, j \in 1 .. Len(kept) : kept[i] = kept[j] => i = j
    BY <1>1, <2>4, <2>5
  <2>7. ASSUME NEW i \in 1 .. Len(kept) PROVE kept[i] # key
    <3>1. CASE key \in DOMAIN table
      BY <1>1, <2>1, <2>2, <2>4, <3>1
    <3>2. CASE key \notin DOMAIN table
      BY <1>1, <2>4, <3>2
    <3> QED
      BY <3>1, <3>2
  <2>8. Len(kept) < limit
    BY <1>1, <2>3
  <2> QED
    BY <2>3, <2>6, <2>7, <2>8 DEF kept
<1> QED
  BY <1>3, <1>4

\* Setting a key keeps the ages those of the keys and within the cap, and changes
\* no other entry that is still there.
LEMMA SetProperties ==
  ASSUME NEW table, NEW age, NEW limit \in Nat \ {0}, NEW key, NEW value, Aged(table, age, limit)
  PROVE  LET after == TableAfterSet(table, limit, key, age, value)
         IN  /\ Aged(after, AgeAfterSet(table, limit, key, age), limit)
             /\ \A k \in DOMAIN after :
                  k \in DOMAIN table \cup {key} /\ after[k] = IF k = key THEN value ELSE table[k]
<1> DEFINE kept == KeptAges(table, limit, key, age)
           next == AgeAfterSet(table, limit, key, age)
           after == TableAfterSet(table, limit, key, age, value)
<1>1. /\ kept \in Seq(DOMAIN table) /\ Len(kept) < limit
      /\ \A i, j \in 1 .. Len(kept) : kept[i] = kept[j] => i = j
      /\ \A i \in 1 .. Len(kept) : kept[i] # key
  BY KeptProperties
<1>2. next = Append(kept, key)
  BY DEF KeptAges, AgeAfterSet
<1>3. after = [k \in Range(next) |-> IF k = key THEN value ELSE table[k]]
  BY DEF TableAfterSet
<1> HIDE DEF kept, next, after
<1>4. Len(kept) \in Nat /\ \A i \in 1 .. Len(kept) : kept[i] \in DOMAIN table
  BY <1>1, LenProperties
<1>5. /\ next \in Seq(DOMAIN table \cup {key}) /\ Len(next) = Len(kept) + 1
      /\ \A i \in 1 .. Len(next) : next[i] = IF i <= Len(kept) THEN kept[i] ELSE key
  <2>1. kept \in Seq(DOMAIN table \cup {key}) /\ key \in DOMAIN table \cup {key}
    BY <1>1, SeqMonotonic
  <2> QED
    BY <1>2, <1>4, <2>1, AppendProperties
<1>6. DOMAIN next = 1 .. Len(next) /\ Len(next) \in Nat
  BY <1>5, LenProperties
<1>7. Range(next) = DOMAIN after
  BY <1>3
<1>8. next \in Seq(DOMAIN after)
  <2>1. next \in [1 .. Len(next) -> DOMAIN after]
    <3>1. next \in [1 .. Len(next) -> DOMAIN table \cup {key}]
      BY <1>5, LenProperties
    <3>2. \A i \in 1 .. Len(next) : next[i] \in DOMAIN after
      BY <1>6, <1>7 DEF Range
    <3> QED
      BY <3>1, <3>2
  <2> QED
    BY <1>6, <2>1, SeqDef
<1>9. \A i, j \in 1 .. Len(next) : next[i] = next[j] => i = j
  <2> SUFFICES ASSUME NEW i \in 1 .. Len(next), NEW j \in 1 .. Len(next), next[i] = next[j] PROVE i = j
    OBVIOUS
  <2>1. (i <= Len(kept) => i \in 1 .. Len(kept)) /\ (j <= Len(kept) => j \in 1 .. Len(kept))
    BY <1>4, <1>6
  <2>2. (~ (i <= Len(kept)) => i = Len(next)) /\ (~ (j <= Len(kept)) => j = Len(next))
    BY <1>4, <1>5, <1>6
  <2> QED
    BY <1>1, <1>5, <2>1, <2>2
<1>10. Len(next) <= limit
  BY <1>1, <1>4, <1>5
<1>11. Aged(after, next, limit)
  BY <1>7, <1>8, <1>9, <1>10 DEF Aged
<1>12. ASSUME NEW k \in DOMAIN after
       PROVE  k \in DOMAIN table \cup {key} /\ after[k] = IF k = key THEN value ELSE table[k]
  <2>1. PICK i \in 1 .. Len(next) : next[i] = k
    BY <1>6, <1>7 DEF Range
  <2>2. k \in DOMAIN table \cup {key}
    BY <1>4, <1>5, <1>6, <2>1
  <2>3. after[k] = IF k = key THEN value ELSE table[k]
    BY <1>3, <1>7
  <2> QED
    BY <2>2, <2>3
<1> QED
  BY <1>11, <1>12 DEF next, after

-----------------------------------------------------------------------------
(* The rate of a record. *)

\* The fields of a template that a packet holds.
LEMMA LayoutFields ==
  ASSUME NEW t \in Layouts
  PROVE  Len(t.fields) \in Nat /\ DOMAIN t.fields = 1 .. Len(t.fields)
BY PacketAssumption, LenProperties

\* What a field holds is a natural number.
LEMMA FieldValueIsNat ==
  ASSUME NEW fields, Len(fields) \in Nat, DOMAIN fields = 1 .. Len(fields),
         NEW v \in [DOMAIN fields -> Values], NEW t
  PROVE  FieldValue(fields, v, 1, t) \in Nat
<1> DEFINE at == {i \in 1 .. Len(fields) : fields[i] = t}
<1>1. CASE at = {}
  BY <1>1 DEF FieldValue
<1>2. CASE at # {}
  <2>1. Max(at) \in at
    BY <1>2, LastPosition
  <2>2. v[Max(at)] \in Nat
    BY <2>1, TemplateAssumption
  <2> QED
    BY <1>2, <2>2 DEF FieldValue
<1> QED
  BY <1>1, <1>2

\* What a record says of its sampling is natural numbers.
LEMMA InfoIsNat ==
  ASSUME NEW fields, Len(fields) \in Nat, DOMAIN fields = 1 .. Len(fields),
         NEW v \in [DOMAIN fields -> Values]
  PROVE  LET info == samplingInfo(fields, v, 1)
         IN  /\ info.interval \in Nat /\ info.randomInterval \in Nat /\ info.pktInterval \in Nat
             /\ info.pktSpace \in Nat /\ info.size \in Nat /\ info.population \in Nat
             /\ info.probability \in Nat
<1>1. \A t \in {"interval", "randomInterval", "pktInterval", "pktSpace",
                "size", "population", "probability", "samplerID"} :
        samplingInfo(fields, v, 1)[t] = FieldValue(fields, v, 1, t)
  BY DEF samplingInfo
<1> QED
  BY <1>1, FieldValueIsNat

\* The least of up to six positions.
LEMMA FirstPosition ==
  ASSUME NEW at \in SUBSET (1 .. 6), at # {}
  PROVE  Min(at) \in at
<1>1. ASSUME \A i \in at : \E j \in at : ~ (i <= j) PROVE FALSE
  <2>1. \A i \in at : i \in {1, 2, 3, 4, 5, 6}
    OBVIOUS
  <2>2. 1 \notin at
    BY <1>1, <2>1
  <2>3. 2 \notin at
    BY <1>1, <2>1, <2>2
  <2>4. 3 \notin at
    BY <1>1, <2>1, <2>2, <2>3
  <2>5. 4 \notin at
    BY <1>1, <2>1, <2>2, <2>3, <2>4
  <2>6. 5 \notin at
    BY <1>1, <2>1, <2>2, <2>3, <2>4, <2>5
  <2>7. 6 \notin at
    BY <1>1, <2>1, <2>2, <2>3, <2>4, <2>5, <2>6
  <2> QED
    BY <2>1, <2>2, <2>3, <2>4, <2>5, <2>6, <2>7
<1> QED
  BY <1>1 DEF Min

\* A chain of fallbacks yields an element of one of them, and of the first if that has any.
LEMMA FirstOfProperties ==
  ASSUME NEW n \in 1 .. 6, NEW sets, DOMAIN sets = 1 .. n, \E i \in 1 .. n : sets[i] # {}
  PROVE  /\ \E i \in 1 .. n : FirstOf(sets) \in sets[i]
         /\ sets[1] # {} => FirstOf(sets) \in sets[1]
<1> DEFINE at == {i \in DOMAIN sets : sets[i] # {}}
<1>1. at \in SUBSET (1 .. 6) /\ at # {} /\ at \subseteq 1 .. n
  OBVIOUS
<1>2. Min(at) \in at
  BY <1>1, FirstPosition
<1>3. FirstOf(sets) \in sets[Min(at)]
  BY <1>2 DEF FirstOf
<1>4. 1 \in at => Min(at) = 1
  <2> SUFFICES ASSUME 1 \in at PROVE Min(at) = 1
    OBVIOUS
  <2>1. \A j \in at : 1 <= j /\ j \in Int
    BY <1>1
  <2>2. \A y \in at : Min(at) <= y
    BY <2>1 DEF Min
  <2> HIDE DEF at
  <2> QED
    BY <1>2, <2>1, <2>2
<1>5. sets[1] # {} => 1 \in at
  OBVIOUS
<1> QED
  BY <1>1, <1>2, <1>3, <1>4, <1>5

\* The rate of a record is a natural number.
LEMMA RateIsNat ==
  ASSUME NEW fields, Len(fields) \in Nat, DOMAIN fields = 1 .. Len(fields),
         NEW v \in [DOMAIN fields -> Values]
  PROVE  RateOf(samplingInfo(fields, v, 1)) \in Nat
<1> DEFINE info == samplingInfo(fields, v, 1)
           If(c, r) == IF c THEN {r} ELSE {}
           described == <<
             If(info.pktInterval > 0 /\ info.hasPktSpace,
                Round((info.pktInterval + info.pktSpace) % Wide, info.pktInterval)),
             If(info.pktInterval > 0, info.pktInterval),
             If(info.interval > 0, info.interval),
             If(info.randomInterval > 0, info.randomInterval),
             If(info.size > 0 /\ info.population >= info.size, Round(info.population, info.size)),
             If(info.probability > 0, info.probability)>>
<1>1. /\ info.interval \in Nat /\ info.randomInterval \in Nat /\ info.pktInterval \in Nat
      /\ info.pktSpace \in Nat /\ info.size \in Nat /\ info.population \in Nat
      /\ info.probability \in Nat
  BY InfoIsNat
<1>2. \A a \in Int, b \in Nat \ {0} : Round(a, b) \in Int
  BY DEF Round
<1>3. RateOf(info) = IF \A i \in DOMAIN described : described[i] = {} THEN 0
                     ELSE Max({1, Min({FirstOf(described), MaxRate})})
  BY DEF RateOf
<1> HIDE DEF info
<1>4. (info.pktInterval + info.pktSpace) % Wide \in Int
  BY <1>1, TemplateAssumption
<1>5. DOMAIN described = 1 .. 6
  OBVIOUS
<1>6. ASSUME NEW i \in 1 .. 6 PROVE described[i] \subseteq Int
  <2>1. described[1] \subseteq Int
    <3> SUFFICES ASSUME NEW r \in described[1] PROVE r \in Int
      OBVIOUS
    <3>1. info.pktInterval > 0 /\ r = Round((info.pktInterval + info.pktSpace) % Wide, info.pktInterval)
      OBVIOUS
    <3>2. info.pktInterval \in Nat \ {0}
      BY <1>1, <3>1
    <3> QED
      BY <1>2, <1>4, <3>1, <3>2
  <2>2. /\ described[2] \subseteq Int /\ described[3] \subseteq Int
        /\ described[4] \subseteq Int /\ described[6] \subseteq Int
    BY <1>1
  <2>3. described[5] \subseteq Int
    <3> SUFFICES ASSUME NEW r \in described[5] PROVE r \in Int
      OBVIOUS
    <3>1. info.size > 0 /\ r = Round(info.population, info.size)
      OBVIOUS
    <3>2. info.size \in Nat \ {0} /\ info.population \in Int
      BY <1>1, <3>1
    <3> QED
      BY <1>2, <3>1, <3>2
  <2> HIDE DEF described
  <2> QED
    BY <2>1, <2>2, <2>3
<1> HIDE DEF described
<1>7. CASE \A i \in DOMAIN described : described[i] = {}
  BY <1>3, <1>7 DEF info
<1>8. CASE \E i \in DOMAIN described : described[i] # {}
  <2>1. FirstOf(described) \in Int
    BY <1>5, <1>6, <1>8, FirstOfProperties
  <2>2. MaxRate \in Int
    BY TemplateAssumption
  <2>3. \A a \in Int, b \in Int : Min({a, b}) \in Int
    BY DEF Min
  <2>4. ASSUME NEW a \in Int PROVE Max({1, a}) \in Nat
    <3>1. \E x \in {1, a} : \A y \in {1, a} : x >= y
      <4>1. (\A y \in {1, a} : 1 >= y) \/ \A y \in {1, a} : a >= y
        OBVIOUS
      <4> QED
        BY <4>1
    <3>2. Max({1, a}) \in {1, a} /\ \A y \in {1, a} : Max({1, a}) >= y
      BY <3>1, Zenon DEF Max
    <3>3. Max({1, a}) >= 1 /\ Max({1, a}) \in Int
      BY <3>2
    <3> QED
      BY <3>3
  <2> QED
    BY <1>3, <1>8, <2>1, <2>2, <2>3, <2>4 DEF info
<1> QED
  BY <1>7, <1>8

-----------------------------------------------------------------------------
(* What a decoder has in hand, and the inductive invariant. *)

\* A set of a packet, perhaps without the first of its templates.
HandSets ==
  [kind : {"templates"}, options : BOOLEAN, items : Seq(Items) \ {<<>>}]
    \cup {s \in PacketSets : s.kind # "templates"}

\* Sets of a packet are left, the layout in use is one the exporter announced, and
\* a record is only measured with a layout.
InHand(d, ann) ==
  /\ d = [exporter |-> d.exporter, proto |-> d.proto, sets |-> d.sets, tmpl |-> d.tmpl,
          left |-> d.left, next |-> d.next]
  /\ d.sets \in Seq(HandSets) \ {<<>>}
  /\ \A t \in d.tmpl : <<d.exporter, t>> \in ann
  /\ d.next # {} => d.tmpl # {}

Hands ==
  /\ DOMAIN worker = Workers
  /\ \A w \in Workers : worker[w] = Idle \/ InHand(worker[w], announced.templates)

TableAnnounced ==
  /\ announced = [templates |-> announced.templates, rates |-> announced.rates]
  /\ \A a \in announced.templates : a[2] \in Layouts
  /\ \A k \in DOMAIN templates : <<k[1], templates[k]>> \in announced.templates
  /\ \A k \in DOMAIN rates : <<k, rates[k]>> \in announced.rates

FlowHasItsSource ==
  emitted # NoFlow =>
    /\ <<emitted.exporter, emitted.tmpl>> \in announced.templates /\ ~emitted.tmpl.options
    /\ emitted.rate \in IF emitted.own > 0 THEN {emitted.own} ELSE RateSources(emitted)

AgesKept == Aged(templates, tmplAge, MaxTemplates) /\ Aged(rates, rateAge, MaxRates)

DecodersInv == AgesKept /\ TableAnnounced /\ Hands /\ FlowHasItsSource

\* What is in hand stays so when more is announced.
LEMMA InHandGrows ==
  ASSUME NEW d, NEW a, NEW b, a \subseteq b, InHand(d, a)
  PROVE  InHand(d, b)
<1>1. \A t \in d.tmpl : <<d.exporter, t>> \in b
  BY DEF InHand
<1> QED
  BY <1>1 DEF InHand

\* A sequence with a length is not empty.
LEMMA HasLength ==
  ASSUME NEW S, NEW s \in Seq(S), Len(s) # 0
  PROVE  s # <<>>
OBVIOUS

\* The set in hand, when it is of templates.
LEMMA HandSetTypes ==
  ASSUME NEW d, NEW ann, InHand(d, ann)
  PROVE  /\ Head(d.sets) \in HandSets /\ Tail(d.sets) \in Seq(HandSets)
         /\ Len(d.sets) # 1 => Tail(d.sets) # <<>>
         /\ Head(d.sets).kind = "templates" =>
              Head(d.sets) \in [kind : {"templates"}, options : BOOLEAN, items : Seq(Items) \ {<<>>}]
<1>1. d.sets \in Seq(HandSets) /\ d.sets # <<>>
  BY DEF InHand
<1>2. Head(d.sets) \in HandSets /\ Tail(d.sets) \in Seq(HandSets) /\ Len(Tail(d.sets)) = Len(d.sets) - 1
  BY <1>1, HeadTailProperties
<1>3. Len(d.sets) \in Nat
  BY <1>1, LenProperties
<1>4. Len(d.sets) # 1 => Tail(d.sets) # <<>>
  <2> SUFFICES ASSUME Len(d.sets) # 1 PROVE Tail(d.sets) # <<>>
    OBVIOUS
  <2>1. Len(Tail(d.sets)) # 0
    BY <1>2, <1>3
  <2> QED
    BY <1>2, <2>1, HasLength
<1>5. Head(d.sets).kind = "templates" =>
        Head(d.sets) \in [kind : {"templates"}, options : BOOLEAN, items : Seq(Items) \ {<<>>}]
  BY <1>2 DEF HandSets
<1> QED
  BY <1>2, <1>4, <1>5

\* The next set of the packet, or none.
LEMMA NextSetInHand ==
  ASSUME NEW d, NEW ann, InHand(d, ann)
  PROVE  NextSet(d) = Idle \/ InHand(NextSet(d), ann)
<1>1. CASE Len(d.sets) = 1
  BY <1>1 DEF NextSet
<1>2. CASE Len(d.sets) # 1
  <2>1. NextSet(d) = [exporter |-> d.exporter, proto |-> d.proto, sets |-> Tail(d.sets), tmpl |-> {},
                      left |-> 0, next |-> {}]
    BY <1>2 DEF NextSet, InHand
  <2>2. Tail(d.sets) \in Seq(HandSets) \ {<<>>}
    BY <1>2, HandSetTypes
  <2> QED
    BY <2>1, <2>2 DEF InHand
<1> QED
  BY <1>1, <1>2

\* The next template of the set, or the next set.
LEMMA NextItemInHand ==
  ASSUME NEW d, NEW ann, InHand(d, ann), Head(d.sets).kind = "templates"
  PROVE  NextItem(d) = Idle \/ InHand(NextItem(d), ann)
<1>1. CASE Len(Head(d.sets).items) = 1
  BY <1>1, NextSetInHand DEF NextItem
<1>2. CASE Len(Head(d.sets).items) # 1
  <2> DEFINE set == Head(d.sets)
             rest == [set EXCEPT !.items = Tail(set.items)]
  <2>1. set \in [kind : {"templates"}, options : BOOLEAN, items : Seq(Items) \ {<<>>}]
    BY HandSetTypes
  <2>2. rest \in HandSets
    <3>1. set.items \in Seq(Items) /\ set.items # <<>>
      BY <2>1
    <3>2. Len(set.items) \in Nat /\ Tail(set.items) \in Seq(Items) /\ Len(Tail(set.items)) = Len(set.items) - 1
      BY <3>1, LenProperties, HeadTailProperties
    <3> HIDE DEF set
    <3>3. Tail(set.items) # <<>>
      <4>1. Len(Tail(set.items)) # 0
        BY <1>2, <3>2 DEF set
      <4> QED
        BY <3>2, <4>1, HasLength
    <3>4. rest \in [kind : {"templates"}, options : BOOLEAN, items : Seq(Items) \ {<<>>}]
      BY <2>1, <3>2, <3>3
    <3> QED
      BY <3>4 DEF HandSets
  <2>3. NextItem(d) = [d EXCEPT !.sets = <<rest>> \o Tail(d.sets)]
    BY <1>2 DEF NextItem
  <2> HIDE DEF rest
  <2>4. <<rest>> \o Tail(d.sets) \in Seq(HandSets) \ {<<>>}
    <3>1. <<rest>> \in Seq(HandSets) /\ Tail(d.sets) \in Seq(HandSets) /\ Len(<<rest>>) = 1
      BY <2>2, HandSetTypes
    <3>2. /\ <<rest>> \o Tail(d.sets) \in Seq(HandSets)
          /\ Len(<<rest>> \o Tail(d.sets)) = 1 + Len(Tail(d.sets)) /\ Len(Tail(d.sets)) \in Nat
      BY <3>1, ConcatProperties, LenProperties
    <3>3. Len(<<>>) = 0
      OBVIOUS
    <3> QED
      BY <3>2, <3>3
  <2>5. NextItem(d) = [exporter |-> d.exporter, proto |-> d.proto, sets |-> <<rest>> \o Tail(d.sets),
                       tmpl |-> d.tmpl, left |-> d.left, next |-> d.next]
    BY <2>3 DEF InHand
  <2> QED
    BY <2>4, <2>5 DEF InHand
<1> QED
  BY <1>1, <1>2

\* After a record.
LEMMA AdvanceInHand ==
  ASSUME NEW d, NEW ann, InHand(d, ann), NEW n
  PROVE  Advance(d, n) = Idle \/ InHand(Advance(d, n), ann)
<1>1. CASE n = 0
  BY <1>1, NextSetInHand DEF Advance
<1>2. CASE n # 0
  <2>1. Advance(d, n) = [exporter |-> d.exporter, proto |-> d.proto, sets |-> d.sets, tmpl |-> d.tmpl,
                         left |-> d.left - n, next |-> {}]
    BY <1>2 DEF Advance, InHand
  <2> QED
    BY <2>1 DEF InHand
<1> QED
  BY <1>1, <1>2

\* With a layout, and with the length of a record.
LEMMA TakeInHand ==
  ASSUME NEW d, NEW ann, InHand(d, ann), NEW tmpl, NEW size, NEW n
  PROVE  /\ d.tmpl = {} /\ (\A t \in tmpl : <<d.exporter, t>> \in ann) =>
              InHand([d EXCEPT !.tmpl = tmpl, !.left = size], ann)
         /\ d.tmpl # {} => InHand([d EXCEPT !.next = {n}], ann)
<1>1. [d EXCEPT !.tmpl = tmpl, !.left = size] =
        [exporter |-> d.exporter, proto |-> d.proto, sets |-> d.sets,
         tmpl |-> tmpl, left |-> size, next |-> d.next]
  <2>1. d = [exporter |-> d.exporter, proto |-> d.proto, sets |-> d.sets,
             tmpl |-> d.tmpl, left |-> d.left, next |-> d.next]
    BY DEF InHand
  <2> DEFINE z == [d EXCEPT !.tmpl = tmpl]
  <2>2. z = [exporter |-> d.exporter, proto |-> d.proto, sets |-> d.sets,
             tmpl |-> tmpl, left |-> d.left, next |-> d.next]
    BY <2>1
  <2>3. [d EXCEPT !.tmpl = tmpl, !.left = size] = [z EXCEPT !.left = size]
    BY Zenon
  <2> HIDE DEF z
  <2>4. [z EXCEPT !.left = size] = [exporter |-> d.exporter, proto |-> d.proto, sets |-> d.sets,
                                    tmpl |-> tmpl, left |-> size, next |-> d.next]
    BY <2>2
  <2> QED
    BY <2>3, <2>4
<1>2. [d EXCEPT !.next = {n}] =
        [exporter |-> d.exporter, proto |-> d.proto, sets |-> d.sets,
         tmpl |-> d.tmpl, left |-> d.left, next |-> {n}]
  <2>1. d = [exporter |-> d.exporter, proto |-> d.proto, sets |-> d.sets,
             tmpl |-> d.tmpl, left |-> d.left, next |-> d.next]
    BY DEF InHand
  <2> QED
    BY <2>1
<1>3. ASSUME d.tmpl = {}, \A t \in tmpl : <<d.exporter, t>> \in ann
      PROVE  InHand([d EXCEPT !.tmpl = tmpl, !.left = size], ann)
  BY <1>1, <1>3 DEF InHand
<1>4. d.tmpl # {} => InHand([d EXCEPT !.next = {n}], ann)
  BY <1>2 DEF InHand
<1> QED
  BY <1>3, <1>4

\* A step of one decoder leaves the others with what they have.
LEMMA HandsStep ==
  ASSUME Hands, NEW w \in Workers, NEW d, worker' = [worker EXCEPT ![w] = d],
         announced.templates \subseteq announced'.templates,
         d = Idle \/ InHand(d, announced'.templates)
  PROVE  Hands'
<1>1. DOMAIN worker' = Workers /\ worker'[w] = d /\ \A v \in Workers \ {w} : worker'[v] = worker[v]
  BY DEF Hands
<1>2. ASSUME NEW v \in Workers PROVE worker'[v] = Idle \/ InHand(worker'[v], announced'.templates)
  <2>1. CASE v = w
    BY <1>1, <2>1
  <2>2. CASE v # w
    BY <1>1, <2>2, InHandGrows DEF Hands
  <2> QED
    BY <2>1, <2>2
<1> QED
  BY <1>1, <1>2 DEF Hands

\* A flow keeps its source when more is announced.
LEMMA SourceKept ==
  ASSUME FlowHasItsSource, UNCHANGED emitted, announced.templates \subseteq announced'.templates,
         announced.rates \subseteq announced'.rates
  PROVE  FlowHasItsSource'
<1>1. RateSources(emitted) \subseteq RateSources(emitted)'
  BY DEF RateSources
<1> QED
  BY <1>1 DEF FlowHasItsSource

\* A step that leaves the tables and the flow alone.
LEMMA HandStep ==
  ASSUME DecodersInv, NEW w \in Workers, NEW d, worker' = [worker EXCEPT ![w] = d],
         UNCHANGED <<templates, tmplAge, rates, rateAge, emitted, announced>>,
         d = Idle \/ InHand(d, announced.templates)
  PROVE  DecodersInv'
<1>1. AgesKept' /\ TableAnnounced'
  BY DEF DecodersInv, AgesKept, TableAnnounced
<1>2. Hands'
  BY HandsStep DEF DecodersInv
<1>3. FlowHasItsSource'
  BY SourceKept DEF DecodersInv
<1> QED
  BY <1>1, <1>2, <1>3 DEF DecodersInv

\* A decoder that has a set has it in hand.
LEMMA BusyInHand ==
  ASSUME DecodersInv, NEW w \in Workers, Busy(w)
  PROVE  InHand(worker[w], announced.templates)
BY DEF DecodersInv, Hands, Busy, Idle

\* A packet is taken: nothing of it is decoded yet.
LEMMA ReceiveStep ==
  ASSUME DecodersInv, NEW w \in Workers, ReceivePacket(w)
  PROVE  DecodersInv'
<1>1. PICK e \in Exporters, p \in Packets :
        worker' = [worker EXCEPT ![w] = [exporter |-> e, proto |-> p.proto, sets |-> p.sets,
                                         tmpl |-> {}, left |-> 0, next |-> {}]]
  BY DEF ReceivePacket
<1> DEFINE d == [exporter |-> e, proto |-> p.proto, sets |-> p.sets, tmpl |-> {}, left |-> 0, next |-> {}]
<1>2. PacketSets \subseteq HandSets
  BY PacketAssumption DEF HandSets, TemplateSets
<1>3. p.sets \in Seq(HandSets) \ {<<>>}
  BY <1>2, PacketAssumption, SeqMonotonic
<1>4. InHand(d, announced.templates)
  BY <1>3 DEF InHand
<1> QED
  BY <1>1, <1>4, HandStep DEF ReceivePacket

\* The steps that only work on what is in hand.
LEMMA DropStep ==
  ASSUME DecodersInv, NEW w \in Workers,
         PacketCut(w) \/ BadTemplate(w) \/ Withdrawal(w) \/ SetEnds(w) \/ TruncatedRecord(w)
  PROVE  DecodersInv'
<1>1. Busy(w)
  BY DEF PacketCut, BadTemplate, Withdrawal, SetEnds, TruncatedRecord, HasRecord
<1>2. InHand(worker[w], announced.templates)
  BY <1>1, BusyInHand
<1>3. CASE PacketCut(w)
  BY <1>3, HandStep DEF PacketCut
<1>4. CASE BadTemplate(w) \/ SetEnds(w)
  BY <1>2, <1>4, NextSetInHand, HandStep DEF BadTemplate, SetEnds
<1>5. CASE Withdrawal(w)
  <2>1. Head(worker[w].sets).kind = "templates"
    BY <1>5 DEF Withdrawal, Current
  <2>2. \/ worker' = [worker EXCEPT ![w] = NextItem(worker[w])]
        \/ worker' = [worker EXCEPT ![w] = NextSet(worker[w])]
    BY <1>5 DEF Withdrawal
  <2> QED
    BY <1>2, <1>5, <2>1, <2>2, NextItemInHand, NextSetInHand, HandStep DEF Withdrawal
<1>6. CASE TruncatedRecord(w)
  BY <1>2, <1>6, AdvanceInHand, HandStep DEF TruncatedRecord, HasRecord
<1> QED
  BY <1>3, <1>4, <1>5, <1>6

\* A data set takes its layout, and a record is measured.
LEMMA MeasureStep ==
  ASSUME DecodersInv, NEW w \in Workers, decodeDataSet(w) \/ walkRecord(w)
  PROVE  DecodersInv'
<1>1. InHand(worker[w], announced.templates)
  BY BusyInHand DEF decodeDataSet, walkRecord
<1>2. CASE decodeDataSet(w)
  <2> DEFINE tmpl == Get(worker[w].exporter, Current(w).id)
             d == [worker[w] EXCEPT !.tmpl = tmpl, !.left = Current(w).size]
  <2>1. \A t \in tmpl : <<worker[w].exporter, t>> \in announced.templates
    BY DEF Get, makeKey, DecodersInv, TableAnnounced
  <2>2. worker[w].tmpl = {}
    BY <1>2 DEF decodeDataSet
  <2>3. InHand(d, announced.templates)
    BY <1>1, <2>1, <2>2, TakeInHand
  <2>4. \/ worker' = [worker EXCEPT ![w] = NextSet(worker[w])]
        \/ worker' = [worker EXCEPT ![w] = d]
    BY <1>2 DEF decodeDataSet
  <2> HIDE DEF d
  <2> QED
    BY <1>1, <1>2, <2>3, <2>4, NextSetInHand, HandStep DEF decodeDataSet
<1>3. CASE walkRecord(w)
  <2>1. PICK n : worker' = [worker EXCEPT ![w].next = {n}]
    BY <1>3 DEF walkRecord
  <2> DEFINE d == [worker[w] EXCEPT !.next = {n}]
  <2>2. worker' = [worker EXCEPT ![w] = d]
    BY <2>1
  <2>3. InHand(d, announced.templates)
    BY <1>1, <1>3, TakeInHand DEF walkRecord
  <2> HIDE DEF d
  <2> QED
    BY <1>3, <2>2, <2>3, HandStep DEF walkRecord
<1> QED
  BY <1>2, <1>3

\* A template is announced and set.
LEMMA CacheStep ==
  ASSUME DecodersInv, NEW w \in Workers, CacheTemplate(w)
  PROVE  DecodersInv'
<1> DEFINE t == Head(Current(w).items)
           e == worker[w].exporter
           key == makeKey(e, t.id)
<1>1. InHand(worker[w], announced.templates) /\ Head(worker[w].sets).kind = "templates"
  BY BusyInHand DEF CacheTemplate, Current
<1>2. t \in Layouts
  <2>1. Current(w) \in [kind : {"templates"}, options : BOOLEAN, items : Seq(Items) \ {<<>>}]
    BY <1>1, HandSetTypes DEF Current
  <2>2. Current(w).items \in Seq(Items) /\ Current(w).items # <<>>
    BY <2>1
  <2>3. t \in Items
    BY <2>2, HeadTailProperties
  <2> QED
    BY <2>3 DEF CacheTemplate, Layouts
<1>3. worker' = [worker EXCEPT ![w] = NextItem(worker[w])]
  BY DEF CacheTemplate
<1>4. NextItem(worker[w]) = Idle \/ InHand(NextItem(worker[w]), announced.templates)
  BY <1>1, NextItemInHand
<1>5. CASE ~ Cacheable(t)
  BY <1>3, <1>4, <1>5, HandStep DEF CacheTemplate
<1>6. CASE Cacheable(t)
  <2>1. /\ templates' = TableAfterSet(templates, MaxTemplates, key, tmplAge, t)
        /\ tmplAge' = AgeAfterSet(templates, MaxTemplates, key, tmplAge)
        /\ announced' = [announced EXCEPT !.templates = @ \cup {<<e, t>>}]
        /\ UNCHANGED <<rates, rateAge, emitted>>
    BY <1>6 DEF CacheTemplate
  <2>2. key[1] = e
    BY DEF makeKey
  <2> HIDE DEF t, e, key
  <2>3. /\ announced'.templates = announced.templates \cup {<<e, t>>} /\ announced'.rates = announced.rates
        /\ announced' = [templates |-> announced'.templates, rates |-> announced'.rates]
    BY <2>1 DEF DecodersInv, TableAnnounced
  <2>4. /\ Aged(templates', tmplAge', MaxTemplates)
        /\ \A k \in DOMAIN templates' :
             k \in DOMAIN templates \cup {key} /\ templates'[k] = IF k = key THEN t ELSE templates[k]
    BY <2>1, SetProperties, TemplateAssumption DEF DecodersInv, AgesKept
  <2>5. AgesKept'
    BY <2>1, <2>4 DEF DecodersInv, AgesKept
  <2>6. ASSUME NEW k \in DOMAIN templates' PROVE <<k[1], templates'[k]>> \in announced'.templates
    <3>1. CASE k = key
      BY <2>2, <2>3, <2>4, <3>1
    <3>2. CASE k # key
      BY <2>3, <2>4, <3>2 DEF DecodersInv, TableAnnounced
    <3> QED
      BY <3>1, <3>2
  <2>7. \A a \in announced'.templates : a[2] \in Layouts
    BY <1>2, <2>3 DEF DecodersInv, TableAnnounced
  <2>8. \A k \in DOMAIN rates' : <<k, rates'[k]>> \in announced'.rates
    BY <2>1, <2>3 DEF DecodersInv, TableAnnounced
  <2>9. TableAnnounced'
    BY <2>3, <2>6, <2>7, <2>8 DEF TableAnnounced
  <2>10. NextItem(worker[w]) = Idle \/ InHand(NextItem(worker[w]), announced'.templates)
    BY <1>4, <2>3, InHandGrows
  <2>11. Hands'
    BY <1>3, <2>3, <2>10, HandsStep DEF DecodersInv
  <2>12. FlowHasItsSource'
    BY <2>1, <2>3, SourceKept DEF DecodersInv
  <2> QED
    BY <2>5, <2>9, <2>11, <2>12 DEF DecodersInv
<1> QED
  BY <1>5, <1>6

\* A record of an options template announces its rate, if it has one.
LEMMA LearnStep ==
  ASSUME DecodersInv, NEW w \in Workers, OptionsRecord(w)
  PROVE  DecodersInv'
<1>1. PICK n : HasRecord(w, n)
  BY DEF OptionsRecord
<1>2. PICK info : learnSampling(worker[w].exporter, info)
  BY DEF OptionsRecord
<1> DEFINE key == <<worker[w].exporter, info.samplerID>>
           rate == RateOf(info)
<1>3. worker' = [worker EXCEPT ![w] = Advance(worker[w], n)] /\ Busy(w)
      /\ UNCHANGED <<templates, tmplAge, emitted>>
  BY <1>1 DEF HasRecord, OptionsRecord
<1>4. Advance(worker[w], n) = Idle \/ InHand(Advance(worker[w], n), announced.templates)
  BY <1>3, BusyInHand, AdvanceInHand
<1>5. CASE rate = 0
  <2>1. UNCHANGED <<rates, rateAge, announced>>
    BY <1>2, <1>5 DEF learnSampling
  <2> QED
    BY <1>3, <1>4, <2>1, HandStep
<1>6. CASE rate # 0
  <2>1. /\ rates' = TableAfterSet(rates, MaxRates, key, rateAge, rate)
        /\ rateAge' = AgeAfterSet(rates, MaxRates, key, rateAge)
        /\ announced' = [announced EXCEPT !.rates = @ \cup {<<key, rate>>}]
    BY <1>2, <1>6 DEF learnSampling
  <2> HIDE DEF key, rate
  <2>2. /\ announced'.rates = announced.rates \cup {<<key, rate>>} /\ announced'.templates = announced.templates
        /\ announced' = [templates |-> announced'.templates, rates |-> announced'.rates]
    BY <2>1 DEF DecodersInv, TableAnnounced
  <2>3. /\ Aged(rates', rateAge', MaxRates)
        /\ \A k \in DOMAIN rates' :
             k \in DOMAIN rates \cup {key} /\ rates'[k] = IF k = key THEN rate ELSE rates[k]
    BY <2>1, SetProperties, TemplateAssumption DEF DecodersInv, AgesKept
  <2>4. AgesKept'
    BY <1>3, <2>3 DEF DecodersInv, AgesKept
  <2>5. ASSUME NEW k \in DOMAIN rates' PROVE <<k, rates'[k]>> \in announced'.rates
    <3>1. CASE k = key
      BY <2>2, <2>3, <3>1
    <3>2. CASE k # key
      BY <2>2, <2>3, <3>2 DEF DecodersInv, TableAnnounced
    <3> QED
      BY <3>1, <3>2
  <2>6. TableAnnounced'
    BY <1>3, <2>2, <2>5 DEF DecodersInv, TableAnnounced
  <2>7. Hands'
    BY <1>3, <1>4, <2>2, HandsStep DEF DecodersInv
  <2>8. FlowHasItsSource'
    BY <1>3, <2>2, SourceKept DEF DecodersInv
  <2> QED
    BY <2>4, <2>6, <2>7, <2>8 DEF DecodersInv
<1> QED
  BY <1>5, <1>6

\* The rate of a flow is its own, or one announced for it.
LEMMA ResolvedRate ==
  ASSUME TableAnnounced, NEW info, NEW exporter, RateOf(info) \in Nat
  PROVE  resolveSamplingRate(info, exporter) \in
           IF RateOf(info) > 0 THEN {RateOf(info)}
           ELSE {a[2] : a \in {a \in announced.rates : a[1] \in {<<exporter, info.samplerID>>, <<exporter, 0>>}}}
                  \cup overrideRate(exporter) \cup {1}
<1> DEFINE sets == <<{RateOf(info)} \ {0}, Announced(info, exporter), overrideRate(exporter), {1}>>
           sources == {a[2] : a \in {a \in announced.rates : a[1] \in {<<exporter, info.samplerID>>, <<exporter, 0>>}}}
<1>1. DOMAIN sets = 1 .. 4 /\ sets[4] # {} /\ 4 \in 1 .. 6 /\ 4 \in 1 .. 4
  OBVIOUS
<1>2. Announced(info, exporter) \subseteq sources
  <2>1. \A k \in DOMAIN rates : <<k, rates[k]>> \in announced.rates
    BY DEF TableAnnounced
  <2>2. ASSUME NEW k \in {<<exporter, info.samplerID>>, <<exporter, 0>>} \cap DOMAIN rates
        PROVE  rates[k] \in sources
    <3>1. <<k, rates[k]>> \in {a \in announced.rates : a[1] \in {<<exporter, info.samplerID>>, <<exporter, 0>>}}
      BY <2>1
    <3> QED
      BY <3>1
  <2> HIDE DEF sources
  <2> QED
    BY <2>2 DEF Announced, AnnouncedFor
<1>3. sets[1] = {RateOf(info)} \ {0} /\ sets[2] = Announced(info, exporter)
      /\ sets[3] = overrideRate(exporter) /\ sets[4] = {1}
  OBVIOUS
<1>4. resolveSamplingRate(info, exporter) = FirstOf(sets)
  BY DEF resolveSamplingRate
<1> HIDE DEF sets, sources
<1>5. (\E i \in 1 .. 4 : FirstOf(sets) \in sets[i]) /\ (sets[1] # {} => FirstOf(sets) \in sets[1])
  BY <1>1, FirstOfProperties
<1>6. CASE RateOf(info) > 0
  <2>1. sets[1] = {RateOf(info)}
    BY <1>3, <1>6
  <2> QED
    BY <1>4, <1>5, <1>6, <2>1
<1>7. CASE ~ (RateOf(info) > 0)
  <2>1. sets[1] = {}
    BY <1>3, <1>7
  <2>2. FirstOf(sets) \in sets[2] \cup sets[3] \cup sets[4]
    <3>1. \A i \in 1 .. 4 : i = 1 \/ i = 2 \/ i = 3 \/ i = 4
      OBVIOUS
    <3> QED
      BY <1>5, <2>1, <3>1
  <2> QED
    BY <1>2, <1>3, <1>4, <1>7, <2>2 DEF sources
<1> QED
  BY <1>6, <1>7

\* A record of another template becomes a flow, with the layout in hand.
LEMMA FlowStep ==
  ASSUME DecodersInv, NEW w \in Workers, decodeTemplateRecord(w)
  PROVE  DecodersInv'
<1>1. PICK n : HasRecord(w, n)
  BY DEF decodeTemplateRecord
<1>2. worker' = [worker EXCEPT ![w] = Advance(worker[w], n)] /\ Busy(w) /\ worker[w].next = {n}
      /\ UNCHANGED <<templates, tmplAge, rates, rateAge, announced>>
  BY <1>1 DEF HasRecord, decodeTemplateRecord
<1>3. InHand(worker[w], announced.templates)
  BY <1>2, BusyInHand
<1>4. Advance(worker[w], n) = Idle \/ InHand(Advance(worker[w], n), announced.templates)
  BY <1>3, AdvanceInHand
<1> DEFINE e == worker[w].exporter
           t == Template(w)
<1>5. t \in worker[w].tmpl
  BY <1>2, <1>3 DEF InHand, Template
<1>6. <<e, t>> \in announced.templates
  BY <1>3, <1>5 DEF InHand
<1>7. t \in Layouts
  BY <1>6 DEF DecodersInv, TableAnnounced
<1>8. PICK r \in RecordsOf[<<t.fields, 1>>] :
        emitted' = [exporter |-> e, tmpl |-> t, data |-> r.data, own |-> RateOf(r.info),
                    sampler |-> r.info.samplerID, rate |-> resolveSamplingRate(r.info, e)]
  BY DEF decodeTemplateRecord
<1>9. ~ t.options
  BY DEF decodeTemplateRecord
<1> HIDE DEF e, t
<1>10. RateOf(r.info) \in Nat
  <2>1. RecordsOf[<<t.fields, 1>>] =
          {[info |-> samplingInfo(t.fields, v, 1), data |-> finish(t.fields, v)] : v \in [DOMAIN t.fields -> Values]}
    BY <1>7 DEF RecordsOf
  <2>2. PICK v \in [DOMAIN t.fields -> Values] : r.info = samplingInfo(t.fields, v, 1)
    BY <1>8, <2>1
  <2> QED
    BY <1>7, <2>2, LayoutFields, RateIsNat
<1>11. FlowHasItsSource'
  <2>1. emitted'.exporter = e /\ emitted'.tmpl = t /\ emitted'.own = RateOf(r.info)
        /\ emitted'.sampler = r.info.samplerID /\ emitted'.rate = resolveSamplingRate(r.info, e)
    BY <1>8
  <2>2. RateSources(emitted)' =
          {a[2] : a \in {a \in announced.rates : a[1] \in {<<e, r.info.samplerID>>, <<e, 0>>}}}
            \cup overrideRate(e) \cup {1}
    BY <1>2, <2>1 DEF RateSources
  <2>3. emitted'.rate \in IF emitted'.own > 0 THEN {emitted'.own} ELSE RateSources(emitted)'
    BY <1>10, <2>1, <2>2, ResolvedRate DEF DecodersInv
  <2> QED
    BY <1>2, <1>6, <1>9, <2>1, <2>3 DEF FlowHasItsSource
<1>12. AgesKept' /\ TableAnnounced'
  BY <1>2 DEF DecodersInv, AgesKept, TableAnnounced
<1>13. Hands'
  BY <1>2, <1>4, HandsStep DEF DecodersInv
<1> QED
  BY <1>11, <1>12, <1>13 DEF DecodersInv

(***************************************************************************)
(* A record becomes a flow with a layout that its own exporter announced,  *)
(* and with the rate it carries, or one its exporter announced, or the     *)
(* configured one, or 1 (decodeDataRecord, resolveSamplingRate): however   *)
(* many decoders share the tables, in whatever order they take packets     *)
(* apart, and whatever the tables evict, at any caps (makeKey, Set).       *)
(***************************************************************************)
THEOREM FlowsKeepTheirExporter == TDSpec => []FlowsStayWithTheirExporter
<1>1. TDInit => DecodersInv
  <2> SUFFICES ASSUME TDInit PROVE DecodersInv
    OBVIOUS
  <2>1. templates = <<>> /\ tmplAge = <<>> /\ rates = <<>> /\ rateAge = <<>>
    BY DEF TDInit
  <2>2. AgesKept
    BY <2>1, TemplateAssumption DEF AgesKept, Aged, Range
  <2>3. TableAnnounced
    BY <2>1 DEF TDInit, TableAnnounced
  <2>4. Hands
    BY DEF TDInit, Hands
  <2> QED
    BY <2>2, <2>3, <2>4 DEF TDInit, DecodersInv, FlowHasItsSource
<1>2. DecodersInv /\ [TDNext]_tdVars => DecodersInv'
  <2> SUFFICES ASSUME DecodersInv, [TDNext]_tdVars PROVE DecodersInv'
    OBVIOUS
  <2>1. CASE UNCHANGED tdVars
    BY <2>1 DEF tdVars, DecodersInv, AgesKept, TableAnnounced, Hands, FlowHasItsSource, RateSources
  <2> QED
    BY <2>1, ReceiveStep, DropStep, MeasureStep, CacheStep, LearnStep, FlowStep DEF TDNext, WorkerStep
<1>3. DecodersInv => FlowsStayWithTheirExporter
  BY DEF DecodersInv, AgesKept, Aged, FlowHasItsSource, FlowsStayWithTheirExporter, TablesKeepTheirCaps
<1> QED
  BY <1>1, <1>2, <1>3, PTL DEF TDSpec
=============================================================================
