--------------------------- MODULE SampleDecoding ---------------------------
(***************************************************************************)
(* The decoders without state: NetFlow v5 and sFlow v5, down to the sampled*)
(* frame.  A datagram is nested slices (samples, records, the header of a  *)
(* frame), each with a length the exporter wrote in it; the decoder walks  *)
(* them with an offset.  What is modelled is every length, every offset    *)
(* and every guard between them, with the numbers of the code; the bytes   *)
(* themselves are chosen when they are read.                               *)
(***************************************************************************)
EXTENDS Integers, Sequences, FiniteSets

CONSTANTS
  V5Lengths, V5Counts,       \* lengths of a v5 datagram, flow counts in its header
  Lengths,                   \* lengths of an sFlow datagram
  SampleLengths, RecordLens, HeaderLens,  \* lengths written in a datagram
  Counts,                    \* numbers of samples and of records
  MaxSamples,                \* 1000 in the code: the cap of both numbers
  Tags, IHLs,                \* VLAN tags of a frame; header lengths of IPv4, in words
  IfsWritten                 \* what exporters write of an interface: <<format, value>>

Bits10 == 1024
Bits30 == Bits10 * Bits10 * Bits10

ASSUME SampleAssumption ==
  /\ UNION {V5Lengths, V5Counts, Lengths, SampleLengths, RecordLens, HeaderLens, Counts, Tags, IHLs}
       \subseteq Nat
  /\ MaxSamples \in Nat
  /\ IfsWritten \subseteq (0 .. 3) \X (0 .. Bits30 - 1)

VARIABLES
  nest,    \* the slices being walked, the innermost last: its level, length, offset and count,
           \* and the sample it belongs to
  reads,   \* the bytes the last step read: where each read ends, and the length of its slice
  sampled  \* the last flow of the datagram, or of the sample, that is being decoded

sdVars == <<nest, reads, sampled>>

\* What a flow has of its sample: the rate, the interfaces, and (history) what was written.
NoSample == [rate |-> 1, in |-> 0, out |-> 0, wrote |-> [kind |-> "none"]]
SDInit == nest = <<>> /\ reads = {} /\ sampled = NoSample

\* Reads of a slice of length n, up to each of ends.
Reads(n, ends) == {[end |-> e, length |-> n] : e \in ends}
Least(a, b) == IF a <= b THEN a ELSE b
Pad(off) == ((off + 3) \div 4) * 4

-----------------------------------------------------------------------------
(* NetFlow v5: a header of 24 bytes and up to 30 records of 48. *)

\* The last record is not counted.
OneRecordShort(n, count) == n >= 24 + (count - 1) * 48

\* A datagram is accepted when its records fit in it.
Fits(n, count) == n >= 24 + count * 48

V5Records(n, count) == IF count \in 1 .. 30 /\ Fits(n, count) THEN count ELSE 0

\* The rate of the header; the operator's override, if any, when it has none.
V5Rate(rate, override) == IF rate > 0 THEN rate ELSE IF override > 0 THEN override ELSE 1

\* The interfaces are read as they are written.
V5Sample(rate, override, in, out) ==
  [rate |-> V5Rate(rate, override), in |-> in, out |-> out,
   wrote |-> [kind |-> "v5", in |-> <<0, in>>, out |-> <<0, out>>]]

DecodeV5(n, count, rate, override, in, out) ==
  /\ nest = <<>>
  /\ reads' = IF n < 24 THEN {}
              ELSE Reads(n, {24} \cup {24 + i * 48 : i \in 1 .. V5Records(n, count)})
  /\ sampled' = IF n >= 24 /\ V5Records(n, count) > 0
                THEN V5Sample(rate, override, in, out) ELSE NoSample
  /\ UNCHANGED nest

-----------------------------------------------------------------------------
(* sFlow: the datagram and its samples. *)

Slice(level, n, off, count, sample) ==
  [level |-> level, length |-> n, off |-> off, todo |-> Least(count, MaxSamples), sample |-> sample]
Inner == nest[Len(nest)]
Outer == SubSeq(nest, 1, Len(nest) - 1)

\* Where the samples begin: after the agent address and the rest of the header.
HeaderEnd(addrType) == IF addrType = 1 THEN 28 ELSE 40

\* An IPv6 agent is taken for an IPv4 one by the check of the length.
ShortHeader(n, addrType) == n >= 28

HeaderFits(n, addrType) == n >= 28 /\ n >= HeaderEnd(addrType)

DecodeDatagram(n, addrType, count) ==
  /\ nest = <<>>
  /\ IF HeaderFits(n, addrType) /\ addrType \in {1, 2}
     THEN /\ nest' = <<Slice("samples", n, HeaderEnd(addrType), count, NoSample)>>
          /\ reads' = Reads(n, {8, HeaderEnd(addrType)})
     ELSE nest' = <<>> /\ reads' = IF n >= 28 THEN Reads(n, {8}) ELSE {}
  /\ sampled' = NoSample

\* The loop over a slice goes on while it has more elements and their header fits.
More == Inner.todo > 0 /\ Inner.off + 8 <= Inner.length
After(slice, n) == [slice EXCEPT !.off = @ + 8 + n, !.todo = @ - 1]
Overruns(n) == Inner.off + 8 + n > Inner.length

LoopEnds ==
  /\ nest # <<>> /\ ~More
  /\ nest' = Outer /\ reads' = {} /\ UNCHANGED sampled

\* An element longer than what is left ends the loop.
ElementOverruns(n) ==
  /\ nest # <<>> /\ More /\ Overruns(n)
  /\ nest' = Outer /\ reads' = Reads(Inner.length, {Inner.off + 8}) /\ UNCHANGED sampled

\* A flow sample begins with its rate, its interfaces and its number of records.
SampleHeader(kind) == IF kind = "expanded" THEN 44 ELSE 32

\* An interface is its format and its value, two words or one of which 30 bits are the value.
ifWords(kind, in, out) ==
  IF kind = "expanded" THEN <<in[1], in[2], out[1], out[2]>>
  ELSE <<in[1] * Bits30 + in[2], out[1] * Bits30 + out[2]>>

\* Only format 0 is an ifIndex, and all ones stands for an unknown one.
ifUnknown == Bits30 - 1
expandedIfIndex(format, value) == IF format # 0 \/ value = ifUnknown THEN 0 ELSE value
compactIfIndex(word) == expandedIfIndex(word \div Bits30, word % Bits30)

\* The interfaces of an expanded sample are read as single words.
SingleWords(kind, words) ==
  [in |-> compactIfIndex(words[1]), out |-> compactIfIndex(words[2])]

ReadInterfaces(kind, words) ==
  IF kind = "expanded"
  THEN [in |-> expandedIfIndex(words[1], words[2]), out |-> expandedIfIndex(words[3], words[4])]
  ELSE [in |-> compactIfIndex(words[1]), out |-> compactIfIndex(words[2])]

\* What the records of a sample get from its header.
SampleOf(kind, rate, in, out) ==
  LET ifs == ReadInterfaces(kind, ifWords(kind, in, out))
  IN [rate |-> IF rate = 0 THEN 1 ELSE rate, in |-> ifs.in, out |-> ifs.out,
      wrote |-> [kind |-> kind, in |-> in, out |-> out]]

decodeFlowSample(n, kind, count, rate, in, out) ==
  /\ nest # <<>> /\ Inner.level = "samples" /\ More /\ ~Overruns(n)
  /\ IF kind \in {"flow", "expanded"} /\ n >= SampleHeader(kind)
     THEN /\ nest' = Outer \o <<After(Inner, n), Slice("records", n, SampleHeader(kind), count,
                                                       SampleOf(kind, rate, in, out))>>
          /\ reads' = Reads(Inner.length, {Inner.off + 8 + n}) \cup Reads(n, {SampleHeader(kind)})
     ELSE /\ nest' = Outer \o <<After(Inner, n)>>
          /\ reads' = Reads(Inner.length, {Inner.off + 8})
  /\ sampled' = NoSample

-----------------------------------------------------------------------------
(* sFlow: the records of a sample and the frame in a raw packet record. *)

AfterRecord(slice, n) == [After(slice, n) EXCEPT !.off = Pad(@)]

\* The tags that are read: each must fit.
TagsRead(h, tags) == {k \in 1 .. tags : 14 + 4 * k <= h}

\* The ends of the reads of the transport header, from off on with n bytes.
parseTransport(off, n, proto) ==
  IF n < 4 \/ proto = "other" THEN {}
  ELSE {off + 4} \cup IF proto = "tcp" /\ n >= 14 THEN {off + 14} ELSE {}

\* The bounds of the transport header are not checked.
UncheckedIPv4(off, n, ihl, proto) ==
  IF n < 20 THEN {} ELSE {off + 20} \cup parseTransport(off + ihl * 4, 4, proto)

parseIPv4Header(off, n, ihl, proto) ==
  IF n < 20 THEN {}
  ELSE {off + 20} \cup IF ihl > 0 /\ n >= ihl * 4 + 4
                       THEN parseTransport(off + ihl * 4, n - ihl * 4, proto) ELSE {}

parseIPv6Header(off, n, proto) ==
  IF n < 40 THEN {}
  ELSE {off + 40} \cup IF n >= 44 THEN parseTransport(off + 40, n - 40, proto) ELSE {}

\* The reads of a sampled frame of which h bytes were captured.
FrameReads(h, f) ==
  LET ip == 14 + 4 * f.tags
  IN IF h < 14 THEN {}
     ELSE {14} \cup {14 + 4 * k : k \in TagsRead(h, f.tags)}
               \cup CASE Cardinality(TagsRead(h, f.tags)) < f.tags -> {}
                      [] Cardinality(TagsRead(h, f.tags)) = f.tags /\ f.type = "ipv4" ->
                           parseIPv4Header(ip, h - ip, f.ihl, f.proto)
                      [] Cardinality(TagsRead(h, f.tags)) = f.tags /\ f.type = "ipv6" ->
                           parseIPv6Header(ip, h - ip, f.proto)
                      [] OTHER -> {}

Frames ==
  [tags : Tags, type : {"ipv4"}, ihl : IHLs, proto : {"tcp", "udp", "other"}]
    \cup [tags : Tags, type : {"ipv6"}, ihl : {0}, proto : {"tcp", "udp", "other"}]
    \cup [tags : Tags, type : {"other"}, ihl : {0}, proto : {"other"}]

\* A record that is not a raw packet, or is too short for its header, is skipped.
SkipRecord(n) ==
  /\ nest # <<>> /\ Inner.level = "records" /\ More /\ ~Overruns(n)
  /\ nest' = Outer \o <<AfterRecord(Inner, n)>>
  /\ reads' = Reads(Inner.length, {Inner.off + 8}) \cup IF n >= 16 THEN Reads(n, {16}) ELSE {}
  /\ UNCHANGED sampled

\* The frame of a raw packet record becomes a flow.
decodeRawPacketRecord(n, h) ==
  /\ nest # <<>> /\ Inner.level = "records" /\ More /\ ~Overruns(n)
  /\ n >= 16 /\ h <= 65535 /\ 16 + h <= n
  /\ nest' = Outer \o <<AfterRecord(Inner, n)>>
  /\ reads' = Reads(Inner.length, {Inner.off + 8 + n}) \cup Reads(n, {16, 16 + h})
  /\ sampled' = Inner.sample

SDNext ==
  \/ \E n \in V5Lengths, c \in V5Counts, rate \in {0, 5}, override \in {0, 3}, in, out \in {0, 7} :
       DecodeV5(n, c, rate, override, in, out)
  \/ \E n \in Lengths, t \in 1 .. 3, c \in Counts : DecodeDatagram(n, t, c)
  \/ LoopEnds
  \/ \E n \in SampleLengths \cup RecordLens : ElementOverruns(n)
  \/ \E n \in SampleLengths, k \in {"flow", "expanded", "counter"}, c \in Counts, rate \in {0, 5},
        in, out \in IfsWritten : decodeFlowSample(n, k, c, rate, in, out)
  \/ \E n \in RecordLens : SkipRecord(n)
  \/ \E n \in RecordLens, h \in HeaderLens : decodeRawPacketRecord(n, h)

SDSpec == SDInit /\ [][SDNext]_sdVars

-----------------------------------------------------------------------------
\* The interface the exporter named, if it named one.
Named(i) == IF i[1] = 0 /\ i[2] # ifUnknown THEN i[2] ELSE 0

(***************************************************************************)
(* No read goes past the slice it reads from, at any length an exporter    *)
(* may write: a decoder that did would panic and end the collector.  A     *)
(* sampled flow counts at least once, and its interfaces are the ones the  *)
(* exporter named in the header of the sample it came in, in either of the *)
(* two layouts; a discarded packet, one sent to several interfaces and one *)
(* on an unknown interface are on none (expandedIfIndex).                  *)
(***************************************************************************)
ReadsStayInside ==
  /\ \A r \in reads : r.end <= r.length
  /\ \A i \in DOMAIN nest : nest[i].todo <= MaxSamples
  /\ nest # <<>> /\ Inner.level = "records" /\ More =>
       \A h \in HeaderLens, f \in Frames : \A end \in FrameReads(h, f) : end <= h
  /\ sampled.rate >= 1
  /\ sampled # NoSample =>
       /\ sampled.in = Named(sampled.wrote.in)
       /\ sampled.out = Named(sampled.wrote.out)
=============================================================================
