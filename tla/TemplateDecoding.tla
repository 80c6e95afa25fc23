-------------------------- MODULE TemplateDecoding --------------------------
(***************************************************************************)
(* The decoders of NetFlow v9 and IPFIX.  Decoder goroutines share the     *)
(* template cache and the table of announced sampling rates; the packets   *)
(* of one exporter are taken by whichever decoder is free, so a data set   *)
(* may overtake the template it needs.                                     *)
(*                                                                         *)
(* A packet is a sequence of sets, a template a sequence of fields.  Bytes *)
(* are abstracted to lengths: a record of a template with variable-length  *)
(* fields has any length from the template's minimum on.  The values of a  *)
(* record are chosen from a small set.  Logs and metrics are left out.     *)
(***************************************************************************)
EXTENDS Integers, SequencesExt

CONSTANTS
  Exporters,      \* <<router, source id>>, as the keys of both tables use them
  Workers,        \* decoder goroutines
  Packets,        \* the packets an exporter may send
  Values,         \* what a field of a record may hold
  MaxTemplates,   \* maxTemplateCacheSize
  MaxRates,       \* maxSamplingEntries
  MaxRate,        \* math.MaxUint32
  Wide,           \* 2^64: the sum of two fields wraps
  Override,       \* router |-> rate, from COLLECTOR_SAMPLING_OVERRIDE
  MaxDatagrams    \* bound: packets received

ASSUME TemplateAssumption ==
  /\ MaxTemplates \in Nat \ {0} /\ MaxRates \in Nat \ {0} /\ MaxRate \in Nat \ {0}
  /\ Wide \in Nat \ {0} /\ Values \subseteq Nat /\ MaxDatagrams \in Nat

\* The sets of the packets, what the template sets hold, and the templates among it.
PacketSets == UNION {Range(p.sets) : p \in Packets}
TemplateSets == {s \in PacketSets : s.kind = "templates"}
Items == UNION {Range(s.items) : s \in TemplateSets}
Layouts == {t \in Items : t.kind = "template"}

\* Packets without a set, and template sets without a template, have no effect.
ASSUME PacketAssumption ==
  /\ \A p \in Packets : p.sets \in Seq(PacketSets) \ {<<>>}
  /\ TemplateSets \subseteq [kind : {"templates"}, options : BOOLEAN, items : Seq(Items) \ {<<>>}]
  /\ \A t \in Layouts : t.fields \in Seq(Range(t.fields))

VARIABLES
  templates,   \* <<exporter, id>> |-> template
  tmplAge,     \* the keys of templates, the oldest first
  rates,       \* <<exporter, sampler>> |-> rate; sampler 0 is exporter-wide
  rateAge,     \* the keys of rates, the oldest first
  worker,      \* what a decoder has in hand
  emitted,     \* the last flow decoded, with where it comes from
  announced,   \* history: every template announced, by exporter, and every rate, by key
  datagrams    \* packets received

tdVars == <<templates, tmplAge, rates, rateAge, worker, emitted, announced, datagrams>>

NoFlow == [rate |-> 1]
Idle == [sets |-> <<>>]

TDInit ==
  /\ templates = <<>> /\ tmplAge = <<>> /\ rates = <<>> /\ rateAge = <<>>
  /\ worker = [w \in Workers |-> Idle]
  /\ emitted = NoFlow /\ announced = [templates |-> {}, rates |-> {}] /\ datagrams = 0

-----------------------------------------------------------------------------
(* The two bounded tables. *)

\* The position of the entry that goes when key is set, 0 for none: the one it
\* replaces, or in a full table the one received first.
MakeRoom(table, limit, key, age) ==
  IF key \in DOMAIN table THEN CHOOSE i \in DOMAIN age : age[i] = key
  ELSE IF Cardinality(DOMAIN table) >= limit THEN 1 ELSE 0

\* The keys by age once key has been set: a re-sent entry becomes the newest.
AgeAfterSet(table, limit, key, age) ==
  LET gone == MakeRoom(table, limit, key, age)
  IN Append(IF gone = 0 THEN age ELSE RemoveAt(age, gone), key)

\* Set: the entry is replaced, whether its layout changed or not.
TableAfterSet(table, limit, key, age, value) ==
  [k \in Range(AgeAfterSet(table, limit, key, age)) |-> IF k = key THEN value ELSE table[k]]

SharedKey(exporter, id) == <<exporter[1], id>>

makeKey(exporter, id) == <<exporter, id>>

\* Get: the cache of the process never expires an entry by age.
Get(exporter, id) == {templates[k] : k \in {makeKey(exporter, id)} \cap DOMAIN templates}

-----------------------------------------------------------------------------
(* What a record says of its sampling, and what rate a flow gets. *)

\* The value of the last field of type t from position first on; 0 without one.
FieldValue(fields, v, first, t) ==
  LET at == {i \in first .. Len(fields) : fields[i] = t}
  IN IF at = {} THEN 0 ELSE v[Max(at)]

HasField(fields, first, t) == \E i \in first .. Len(fields) : fields[i] = t

samplingInfo(fields, v, first) ==
  [t \in {"interval", "randomInterval", "pktInterval", "pktSpace", "hasPktSpace", "size",
          "population", "probability", "samplerID"} |->
     IF t = "hasPktSpace" THEN HasField(fields, first, "pktSpace") ELSE FieldValue(fields, v, first, t)]

Round(a, b) == (2 * a + b) \div (2 * b)

\* The element of the first set that has one: a chain of fallbacks.
FirstOf(sets) == CHOOSE r \in sets[Min({i \in DOMAIN sets : sets[i] # {}})] : TRUE

\* rate: the 1-in-N the fields describe, 0 for none.  A probability field holds
\* n for the probability 1/n, and 0 for one outside (0, 1].
RateOf(info) ==
  LET If(c, r) == IF c THEN {r} ELSE {}
      described == <<
        If(info.pktInterval > 0 /\ info.hasPktSpace,
           Round((info.pktInterval + info.pktSpace) % Wide, info.pktInterval)),
        If(info.pktInterval > 0, info.pktInterval),
        If(info.interval > 0, info.interval),
        If(info.randomInterval > 0, info.randomInterval),
        If(info.size > 0 /\ info.population >= info.size, Round(info.population, info.size)),
        If(info.probability > 0, info.probability)>>
  IN IF \A i \in DOMAIN described : described[i] = {} THEN 0
     ELSE Max({1, Min({FirstOf(described), MaxRate})})

\* Any announced rate of the exporter will do.
AnySampler(info, exporter) == {rates[k] : k \in {k \in DOMAIN rates : k[1] = exporter}}

AnnouncedFor(exporter, sampler) == {rates[k] : k \in {<<exporter, sampler>>} \cap DOMAIN rates}

\* The rate announced for the record's sampler, else the exporter-wide one.
Announced(info, exporter) ==
  IF info.samplerID # 0 /\ AnnouncedFor(exporter, info.samplerID) # {}
  THEN AnnouncedFor(exporter, info.samplerID)
  ELSE AnnouncedFor(exporter, 0)

overrideRate(exporter) == {Override[r] : r \in {exporter[1]} \cap DOMAIN Override} \ {0}

\* The most specific rate known.
resolveSamplingRate(info, exporter) ==
  FirstOf(<<{RateOf(info)} \ {0}, Announced(info, exporter), overrideRate(exporter), {1}>>)

-----------------------------------------------------------------------------
(* The fields of a flow whose meaning depends on another field. *)

AddressBits(fields) ==
  LET at == {i \in DOMAIN fields : fields[i] \in {"addr4", "addr6"}}
  IN IF at = {} THEN 0 ELSE IF fields[Max(at)] = "addr4" THEN 32 ELSE 128

\* The length of the prefix, 0 for none: no address, no mask, or one too long.
prefixString(fields, v) ==
  LET mask == FieldValue(fields, v, 1, "mask")
  IN IF mask <= AddressBits(fields) THEN mask ELSE 0

\* IN_BYTES counts wherever the template puts it; OUT_BYTES is a fallback.
finish(fields, v) ==
  [bytes  |-> FieldValue(fields, v, 1, IF HasField(fields, 1, "inBytes") THEN "inBytes" ELSE "outBytes"),
   prefix |-> prefixString(fields, v)]

-----------------------------------------------------------------------------
(* Decoders. *)

\* A decoder takes the next packet of its queue.
ReceivePacket(w) ==
  /\ worker[w] = Idle /\ datagrams < MaxDatagrams
  /\ \E e \in Exporters, p \in Packets :
       worker' = [worker EXCEPT ![w] = [exporter |-> e, proto |-> p.proto, sets |-> p.sets,
                                        tmpl |-> {}, left |-> 0, next |-> {}]]
  /\ datagrams' = datagrams + 1
  /\ UNCHANGED <<templates, tmplAge, rates, rateAge, emitted, announced>>

Current(w) == Head(worker[w].sets)
Busy(w) == worker[w].sets # <<>>

\* Dropping the set in hand; with the last one, the decoder is idle again.
NextSet(d) == IF Len(d.sets) = 1 THEN Idle ELSE [d EXCEPT !.sets = Tail(@), !.tmpl = {}, !.left = 0, !.next = {}]
NextItem(d) ==
  LET set == Head(d.sets)
  IN IF Len(set.items) = 1 THEN NextSet(d)
     ELSE [d EXCEPT !.sets = <<[set EXCEPT !.items = Tail(set.items)]>> \o Tail(d.sets)]

\* A set whose length does not fit ends the packet.
PacketCut(w) ==
  /\ Busy(w) /\ Current(w).kind = "cut"
  /\ worker' = [worker EXCEPT ![w] = Idle]
  /\ UNCHANGED <<templates, tmplAge, rates, rateAge, emitted, announced, datagrams>>

\* One template of a template or options template set; its record must have a length.
Cacheable(t) == t.len > 0

CacheTemplate(w) ==
  /\ Busy(w) /\ Current(w).kind = "templates"
  /\ LET t == Head(Current(w).items)
         e == worker[w].exporter
         key == makeKey(e, t.id)
     IN /\ t.kind = "template"
        /\ IF Cacheable(t)
           THEN /\ templates' = TableAfterSet(templates, MaxTemplates, key, tmplAge, t)
                /\ tmplAge' = AgeAfterSet(templates, MaxTemplates, key, tmplAge)
                /\ announced' = [announced EXCEPT !.templates = @ \cup {<<e, t>>}]
           ELSE UNCHANGED <<templates, tmplAge, announced>>
  /\ worker' = [worker EXCEPT ![w] = NextItem(@)]
  /\ UNCHANGED <<rates, rateAge, emitted, datagrams>>

\* A template without fields, or one that does not fit, ends the set, except
\* that an IPFIX options template set goes on after a withdrawal.
BadTemplate(w) ==
  /\ Busy(w) /\ Current(w).kind = "templates" /\ Head(Current(w).items).kind = "bad"
  /\ worker' = [worker EXCEPT ![w] = NextSet(@)]
  /\ UNCHANGED <<templates, tmplAge, rates, rateAge, emitted, announced, datagrams>>

Withdrawal(w) ==
  /\ Busy(w) /\ Current(w).kind = "templates" /\ Head(Current(w).items).kind = "withdrawal"
  /\ worker' = [worker EXCEPT ![w] =
       IF Current(w).options /\ worker[w].proto = "ipfix" THEN NextItem(@) ELSE NextSet(@)]
  /\ UNCHANGED <<templates, tmplAge, rates, rateAge, emitted, announced, datagrams>>

\* A data set reads its template once, and is dropped without one.
decodeDataSet(w) ==
  /\ Busy(w) /\ Current(w).kind = "data" /\ worker[w].tmpl = {}
  /\ LET tmpl == Get(worker[w].exporter, Current(w).id)
     IN worker' = [worker EXCEPT ![w] = IF tmpl = {} THEN NextSet(@)
                                        ELSE [@ EXCEPT !.tmpl = tmpl, !.left = Current(w).size]]
  /\ UNCHANGED <<templates, tmplAge, rates, rateAge, emitted, announced, datagrams>>

Template(w) == CHOOSE t \in worker[w].tmpl : TRUE

\* The lengths the next record may turn out to have; 0 for one that does not fit.
RecordLengths(t, left) ==
  IF ~t.varLen THEN {t.len} ELSE {IF n <= left THEN n ELSE 0 : n \in t.len .. left + 1}

\* decodeRecords: the set is exhausted (what is left is padding), or never had records.
SetEnds(w) ==
  /\ Busy(w) /\ worker[w].tmpl # {}
  /\ worker[w].left < Template(w).len \/ Template(w).len = 0
  /\ worker' = [worker EXCEPT ![w] = NextSet(@)]
  /\ UNCHANGED <<templates, tmplAge, rates, rateAge, emitted, announced, datagrams>>

\* walkRecord: the length of the next record, in part read from the record.
walkRecord(w) ==
  /\ Busy(w) /\ worker[w].tmpl # {} /\ worker[w].next = {}
  /\ Template(w).len > 0 /\ worker[w].left >= Template(w).len
  /\ \E n \in RecordLengths(Template(w), worker[w].left) :
       worker' = [worker EXCEPT ![w].next = {n}]
  /\ UNCHANGED <<templates, tmplAge, rates, rateAge, emitted, announced, datagrams>>

\* A record that does not fit is tried again.
TryAgain(d, n) == [d EXCEPT !.left = @ - n, !.next = IF n = 0 THEN @ ELSE {}]

\* The decoder goes on after the record, or leaves the set when it does not fit.
Advance(d, n) == IF n = 0 THEN NextSet(d) ELSE [d EXCEPT !.left = @ - n, !.next = {}]

HasRecord(w, n) ==
  /\ Busy(w) /\ worker[w].next = {n}
  /\ worker' = [worker EXCEPT ![w] = Advance(@, n)]

TruncatedRecord(w) ==
  /\ HasRecord(w, 0)
  /\ UNCHANGED <<templates, tmplAge, rates, rateAge, emitted, announced, datagrams>>

\* What the records of a layout may hold, its fields read from position first on.
RecordsOf ==
  [x \in {t.fields : t \in Layouts} \X ({1} \cup {t.scope + 1 : t \in Layouts}) |->
     LET fields == x[1]  first == x[2]
     IN {[info |-> samplingInfo(fields, v, first), data |-> finish(fields, v)] : v \in [DOMAIN fields -> Values]}]

\* A record of an options template is never a flow: it may announce a rate.  The
\* scope fields of v9 are of another type space.
learnSampling(exporter, info) ==
  LET key == <<exporter, info.samplerID>>
  IN IF RateOf(info) = 0 THEN UNCHANGED <<rates, rateAge, announced>>
     ELSE /\ rates' = TableAfterSet(rates, MaxRates, key, rateAge, RateOf(info))
          /\ rateAge' = AgeAfterSet(rates, MaxRates, key, rateAge)
          /\ announced' = [announced EXCEPT !.rates = @ \cup {<<key, RateOf(info)>>}]

OptionsRecord(w) ==
  /\ \E n \in 1 .. worker[w].left : HasRecord(w, n)
  /\ Template(w).options
  /\ \E r \in RecordsOf[<<Template(w).fields, IF worker[w].proto = "ipfix" THEN 1 ELSE Template(w).scope + 1>>] :
       learnSampling(worker[w].exporter, r.info)
  /\ UNCHANGED <<templates, tmplAge, emitted, datagrams>>

\* Any other record becomes a flow.
decodeTemplateRecord(w) ==
  /\ \E n \in 1 .. worker[w].left : HasRecord(w, n)
  /\ ~Template(w).options
  /\ \E r \in RecordsOf[<<Template(w).fields, 1>>] :
       emitted' = [exporter |-> worker[w].exporter, tmpl |-> Template(w), data |-> r.data,
                   own |-> RateOf(r.info), sampler |-> r.info.samplerID,
                   rate |-> resolveSamplingRate(r.info, worker[w].exporter)]
  /\ UNCHANGED <<templates, tmplAge, rates, rateAge, announced, datagrams>>

WorkerStep(w) ==
  \/ PacketCut(w) \/ CacheTemplate(w) \/ BadTemplate(w) \/ Withdrawal(w)
  \/ (worker[w] # Idle /\ (decodeDataSet(w) \/ SetEnds(w) \/ walkRecord(w) \/ TruncatedRecord(w)
                             \/ OptionsRecord(w) \/ decodeTemplateRecord(w)))

TDNext == \E w \in Workers : ReceivePacket(w) \/ WorkerStep(w)

\* A decoder with a packet in hand goes on.
TDFairness == \A w \in Workers : WF_tdVars(WorkerStep(w))

TDSpec == TDInit /\ [][TDNext]_tdVars /\ TDFairness

-----------------------------------------------------------------------------
(* Properties. *)

\* Neither the cache nor the sampling table outgrows its cap, and the ages are those of its keys.
TablesKeepTheirCaps ==
  /\ Range(tmplAge) = DOMAIN templates /\ Range(rateAge) = DOMAIN rates
  /\ Len(tmplAge) <= MaxTemplates /\ Len(rateAge) <= MaxRates

\* Where a rate that is not the record's own may come from.
RateSources(flow) ==
  {a[2] : a \in {a \in announced.rates : a[1] \in {<<flow.exporter, flow.sampler>>, <<flow.exporter, 0>>}}}
    \cup overrideRate(flow.exporter) \cup {1}

(***************************************************************************)
(* Whatever the order in which the decoders take the packets, and whatever *)
(* was evicted or re-sent meanwhile, a flow was read with a layout that    *)
(* its own exporter announced, never with that of an options template, and *)
(* a rate it does not carry itself was announced by its exporter for its   *)
(* sampler or for all ("a sampler-specific announcement is deliberately    *)
(* never applied to records that do not name that sampler",                *)
(* resolveSamplingRate).  The two tables stay within their caps.           *)
(***************************************************************************)
FlowsStayWithTheirExporter ==
  /\ TablesKeepTheirCaps
  /\ emitted # NoFlow =>
       /\ <<emitted.exporter, emitted.tmpl>> \in announced.templates /\ ~emitted.tmpl.options
       /\ emitted.rate \in IF emitted.own > 0 THEN {emitted.own} ELSE RateSources(emitted)

(***************************************************************************)
(* "Callers advancing by it always make progress" (walkRecord, and the     *)
(* guard of decodeRecords against wedging a decoder): every packet is      *)
(* finished, whatever its templates, truncated records and padding.        *)
(***************************************************************************)
EveryPacketIsFinished == \A w \in Workers : (worker[w] # Idle) ~> (worker[w] = Idle)
=============================================================================
