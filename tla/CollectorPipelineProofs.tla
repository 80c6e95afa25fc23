----------------------- MODULE CollectorPipelineProofs -----------------------
(***************************************************************************)
(* Proofs about the pipeline of the collector, for any number of listeners *)
(* and decoders, any capacities and any batch size: nobody sends on the    *)
(* closed channel, the number of pending flows is not negative, and the    *)
(* pipeline implements FlowFate: no flow is lost or counted twice.         *)
(***************************************************************************)
EXTENDS CollectorPipeline, SequenceTheorems, FiniteSetTheorems, TLAPS

-----------------------------------------------------------------------------
(* Channels and batches as sequences of flows, in which a flow is once. *)

Once(s) == \A i, j \in DOMAIN s : s[i] = s[j] => i = j
Batch(s) == s \in Seq(Flows) /\ Once(s)

\* The empty batch holds nothing.
LEMMA NothingHeld == Batch(<<>>) /\ Held(<<>>) = {}
BY DEF Batch, Once, Held

\* What a batch holds are flows.
LEMMA HeldAreFlows == ASSUME NEW s, Batch(s) PROVE Held(s) \subseteq Flows
BY DEF Batch, Held

\* A batch that holds nothing is empty.
LEMMA HoldsNothing == ASSUME NEW s, Batch(s), Held(s) = {} PROVE s = <<>>
<1>1. s # <<>> => 1 \in DOMAIN s
  BY DEF Batch
<1> QED
  BY <1>1 DEF Held

\* A batch of one flow.
LEMMA HoldsOne == ASSUME NEW x \in Flows PROVE Batch(<<x>>) /\ Held(<<x>>) = {x}
<1>1. <<x>> \in Seq(Flows) /\ DOMAIN <<x>> = {1} /\ <<x>>[1] = x
  OBVIOUS
<1> QED
  BY <1>1 DEF Batch, Once, Held

\* A receive takes one flow out of the channel.
LEMMA TakeHead ==
  ASSUME NEW s, Batch(s), s # <<>>
  PROVE  /\ Batch(Tail(s)) /\ Head(s) \in Flows /\ Head(s) \in Held(s)
         /\ Held(Tail(s)) = Held(s) \ {Head(s)}
<1>1. /\ s \in Seq(Flows) /\ Len(s) \in Nat \ {0} /\ DOMAIN s = 1 .. Len(s) /\ Head(s) = s[1]
      /\ Tail(s) \in Seq(Flows) /\ DOMAIN Tail(s) = 1 .. (Len(s) - 1)
      /\ \A i \in 1 .. (Len(s) - 1) : Tail(s)[i] = s[i + 1]
  BY DEF Batch
<1>2. \A i, j \in 1 .. Len(s) : s[i] = s[j] => i = j
  BY <1>1 DEF Batch, Once
<1> DEFINE t == Tail(s)
           n == Len(s)
<1> HIDE DEF t, n
<1>3. Once(t)
  <2> SUFFICES ASSUME NEW i \in 1 .. (n - 1), NEW j \in 1 .. (n - 1), t[i] = t[j] PROVE i = j
    BY <1>1 DEF Once, t, n
  <2>1. i + 1 \in 1 .. n /\ j + 1 \in 1 .. n /\ s[i + 1] = s[j + 1]
    BY <1>1 DEF t, n
  <2>2. i + 1 = j + 1
    BY <1>2, <2>1 DEF n
  <2> QED
    BY <2>2
<1>4. Held(t) \subseteq Held(s) \ {Head(s)}
  <2> SUFFICES ASSUME NEW i \in 1 .. (n - 1) PROVE t[i] \in Held(s) /\ t[i] # s[1]
    BY <1>1 DEF Held, t, n
  <2>1. i + 1 \in 1 .. n /\ t[i] = s[i + 1] /\ 1 \in 1 .. n /\ i + 1 # 1
    BY <1>1 DEF t, n
  <2> QED
    BY <1>1, <1>2, <2>1 DEF Held, n
<1>5. Held(s) \ {Head(s)} \subseteq Held(t)
  <2> SUFFICES ASSUME NEW i \in 1 .. n, s[i] # s[1] PROVE s[i] \in Held(t)
    BY <1>1 DEF Held, n
  <2>1. i - 1 \in 1 .. (n - 1) /\ t[i - 1] = s[i]
    BY <1>1 DEF t, n
  <2> QED
    BY <1>1, <2>1 DEF Held, t, n
<1>6. Head(s) \in Flows /\ Head(s) \in Held(s)
  <2>1. 1 \in DOMAIN s
    BY <1>1
  <2> QED
    BY <1>1, <2>1 DEF Held
<1>7. Batch(t)
  BY <1>1, <1>3 DEF Batch, t
<1> QED
  BY <1>4, <1>5, <1>6, <1>7 DEF t

\* A send puts a flow behind the others.
LEMMA PutLast ==
  ASSUME NEW s, Batch(s), NEW x \in Flows, x \notin Held(s)
  PROVE  Batch(Append(s, x)) /\ Held(Append(s, x)) = Held(s) \cup {x}
<1>1. /\ s \in Seq(Flows) /\ Len(s) \in Nat /\ DOMAIN s = 1 .. Len(s)
      /\ Append(s, x) \in Seq(Flows) /\ DOMAIN Append(s, x) = 1 .. (Len(s) + 1)
      /\ Append(s, x)[Len(s) + 1] = x
      /\ \A i \in 1 .. Len(s) : Append(s, x)[i] = s[i]
  BY DEF Batch
<1>2. \A i \in 1 .. Len(s) : s[i] # x /\ \A j \in 1 .. Len(s) : s[i] = s[j] => i = j
  BY <1>1 DEF Batch, Once, Held
<1> DEFINE t == Append(s, x)
           n == Len(s)
<1> HIDE DEF t, n
<1>3. \A i \in 1 .. (n + 1) : i = n + 1 \/ i \in 1 .. n
  BY <1>1 DEF n
<1>4. Once(t)
  <2> SUFFICES ASSUME NEW i \in 1 .. (n + 1), NEW j \in 1 .. (n + 1), t[i] = t[j] PROVE i = j
    BY <1>1 DEF Once, t, n
  <2> QED
    BY <1>1, <1>2, <1>3 DEF t, n
<1>5. Held(t) = Held(s) \cup {x}
  <2>1. Held(t) \subseteq Held(s) \cup {x}
    BY <1>1, <1>3 DEF Held, t, n
  <2>2. x \in Held(t)
    <3>1. n + 1 \in DOMAIN t /\ t[n + 1] = x
      BY <1>1 DEF t, n
    <3> QED
      BY <3>1 DEF Held
  <2>3. Held(s) \subseteq Held(t)
    <3> SUFFICES ASSUME NEW i \in 1 .. n PROVE s[i] \in Held(t)
      BY <1>1 DEF Held, n
    <3>1. i \in DOMAIN t /\ t[i] = s[i]
      BY <1>1 DEF t, n
    <3> QED
      BY <3>1 DEF Held
  <2> QED
    BY <2>1, <2>2, <2>3
<1> QED
  BY <1>1, <1>4, <1>5 DEF Batch, t

\* Two batches put together.
LEMMA PutAll ==
  ASSUME NEW s, NEW t, Batch(s), Batch(t), Held(s) \cap Held(t) = {}
  PROVE  Batch(s \o t) /\ Held(s \o t) = Held(s) \cup Held(t)
<1> DEFINE u == s \o t
           m == Len(s)
           n == Len(t)
<1>1. /\ u \in Seq(Flows) /\ m \in Nat /\ n \in Nat /\ DOMAIN s = 1 .. m /\ DOMAIN t = 1 .. n
      /\ DOMAIN u = 1 .. (m + n)
      /\ \A i \in 1 .. (m + n) : u[i] = IF i <= m THEN s[i] ELSE t[i - m]
  <2>1. s \in Seq(Flows) /\ t \in Seq(Flows)
    BY DEF Batch
  <2>2. /\ u \in Seq(Flows) /\ Len(u) = m + n
        /\ \A i \in 1 .. (m + n) : u[i] = IF i <= m THEN s[i] ELSE t[i - m]
    BY <2>1, ConcatProperties
  <2> QED
    BY <2>1, <2>2, LenProperties
<1> HIDE DEF u, m, n
<1>2. \A i \in 1 .. (m + n) : \/ i \in 1 .. m /\ u[i] = s[i]
                              \/ i - m \in 1 .. n /\ u[i] = t[i - m]
  BY <1>1
<1>3. \A i \in 1 .. m, j \in 1 .. n : s[i] # t[j]
  BY <1>1 DEF Held
<1>4. Once(u)
  <2> SUFFICES ASSUME NEW i \in 1 .. (m + n), NEW j \in 1 .. (m + n), u[i] = u[j] PROVE i = j
    BY <1>1 DEF Once
  <2>1. CASE i \in 1 .. m /\ u[i] = s[i] /\ j \in 1 .. m /\ u[j] = s[j]
    BY <1>1, <2>1 DEF Batch, Once
  <2>2. CASE i - m \in 1 .. n /\ u[i] = t[i - m] /\ j - m \in 1 .. n /\ u[j] = t[j - m]
    <3>1. i - m = j - m
      BY <1>1, <2>2 DEF Batch, Once
    <3> QED
      BY <1>1, <3>1
  <2> QED
    BY <1>2, <1>3, <2>1, <2>2
<1>5. Held(u) \subseteq Held(s) \cup Held(t)
  BY <1>1, <1>2 DEF Held
<1>6. Held(s) \subseteq Held(u)
  <2> SUFFICES ASSUME NEW i \in 1 .. m PROVE s[i] \in Held(u)
    BY <1>1 DEF Held
  <2>1. i \in DOMAIN u /\ u[i] = s[i]
    BY <1>1
  <2> QED
    BY <2>1 DEF Held
<1>7. Held(t) \subseteq Held(u)
  <2> SUFFICES ASSUME NEW j \in 1 .. n PROVE t[j] \in Held(u)
    BY <1>1 DEF Held
  <2>1. j + m \in 1 .. (m + n) /\ ~(j + m <= m) /\ (j + m) - m = j
    BY <1>1
  <2>2. j + m \in DOMAIN u /\ u[j + m] = t[j]
    BY <1>1, <2>1
  <2> QED
    BY <2>2 DEF Held
<1> QED
  BY <1>1, <1>4, <1>5, <1>6, <1>7 DEF Batch, u

\* The flows of a packet, numbered after the ones that were decoded before.
LEMMA NewBatch ==
  ASSUME NEW c \in Nat, NEW n \in Nat, c + n <= MaxFlows
  PROVE  /\ Batch([i \in 1 .. n |-> c + i])
         /\ Held([i \in 1 .. n |-> c + i]) = (c + 1) .. (c + n)
<1> DEFINE s == [i \in 1 .. n |-> c + i]
<1>0. MaxFlows \in Nat
  BY PipelineAssumption
<1>1. \A i \in 1 .. n : c + i \in Flows
  BY <1>0 DEF Flows
<1>2. s \in Seq(Flows)
  BY <1>1
<1>3. DOMAIN s = 1 .. n /\ \A i \in 1 .. n : s[i] = c + i
  OBVIOUS
<1> HIDE DEF s
<1>4. Once(s)
  BY <1>3 DEF Once
<1>5. Held(s) \subseteq (c + 1) .. (c + n)
  BY <1>3 DEF Held
<1>6. \A f \in (c + 1) .. (c + n) : f - c \in 1 .. n /\ f = c + (f - c)
  OBVIOUS
<1>7. (c + 1) .. (c + n) \subseteq Held(s)
  BY <1>3, <1>6 DEF Held
<1> QED
  BY <1>2, <1>4, <1>5, <1>7 DEF Batch, s

-----------------------------------------------------------------------------
(* The inductive invariant. *)

WriterPlaces == {"loop", "hand-off", "last hand-off", "closing", "done"}
Stages == {"running", "stopping", "draining", "report", "drained", "gave up"}

PipelineTypeOK ==
  /\ reader \in [Listeners -> {"reading", "holding", "done"}]
  /\ packets \in [Listeners -> Nat]
  /\ DOMAIN decoder = Decoders /\ \A d \in Decoders : Batch(decoder[d])
  /\ ended \subseteq Decoders
  /\ flows = [queue |-> flows.queue, closed |-> flows.closed]
  /\ Batch(flows.queue) /\ flows.closed \in BOOLEAN
  /\ enricher = [flow |-> enricher.flow, ended |-> enricher.ended]
  /\ Batch(enricher.flow) /\ enricher.ended \in BOOLEAN
  /\ Batch(enriched) /\ Batch(buf) /\ Batch(inserting)
  /\ writer \in WriterPlaces /\ stage \in Stages
  /\ sent \in [Flows -> Nat]
  /\ outcome \in [written : SUBSET Flows, dropped : SUBSET Flows]

\* A stage ends after the one before it, with nothing in hand.
EndsInOrder ==
  /\ \A d \in ended : decoder[d] = <<>> /\ reader[d[1]] = "done" /\ packets[d[1]] = 0
  /\ flows.closed => ended = Decoders
  /\ enricher.ended => flows.closed /\ flows.queue = <<>> /\ enricher.flow = <<>>
  /\ writer \in {"last hand-off", "closing", "done"} => enricher.ended /\ enriched = <<>>
  /\ writer \in {"closing", "done"} => buf = <<>>
  /\ writer = "done" => inserting = <<>>

Q == Held(flows.queue)
E == Held(enricher.flow)
R == Held(enriched)
B == Held(buf)
I == Held(inserting)

\* A flow is in one place.
OnePlace ==
  /\ \A d, e \in Decoders : d # e => Held(decoder[d]) \cap Held(decoder[e]) = {}
  /\ InDecoders \cap (Q \cup E \cup R \cup B \cup I \cup Settled) = {}
  /\ Q \cap (E \cup R \cup B \cup I \cup Settled) = {}
  /\ E \cap (R \cup B \cup I \cup Settled) = {}
  /\ R \cap (B \cup I \cup Settled) = {}
  /\ B \cap (I \cup Settled) = {}
  /\ I \cap Settled = {}
  /\ outcome.written \cap outcome.dropped = {}

\* The flows are numbered as they are decoded.
NumberedInOrder == \E c \in Nat : Seen = 1 .. c

\* A flow with an outcome was part of one INSERT, and the others of none.
SentOnce == \A f \in Flows : sent[f] = IF f \in Settled THEN 1 ELSE 0

PipelineInv == PipelineTypeOK /\ EndsInOrder /\ OnePlace /\ NumberedInOrder /\ SentOnce

\* The pipeline starts empty.
LEMMA PipelineInitially == Init => PipelineInv
<1> SUFFICES ASSUME Init PROVE PipelineInv
  OBVIOUS
<1>1. /\ flows = [queue |-> <<>>, closed |-> FALSE] /\ enricher = [flow |-> <<>>, ended |-> FALSE]
      /\ enriched = <<>> /\ buf = <<>> /\ inserting = <<>>
      /\ decoder = [d \in Decoders |-> <<>>] /\ ended = {} /\ writer = "loop" /\ stage = "running"
      /\ outcome = [written |-> {}, dropped |-> {}]
  BY DEF Init
<1>2. /\ flows.queue = <<>> /\ flows.closed = FALSE /\ enricher.flow = <<>> /\ enricher.ended = FALSE
      /\ outcome.written = {} /\ outcome.dropped = {}
  BY <1>1
<1>3. PipelineTypeOK
  <2>1. reader \in [Listeners -> {"reading", "holding", "done"}] /\ packets \in [Listeners -> Nat]
    BY DEF Init
  <2>2. sent \in [Flows -> Nat]
    BY DEF Init
  <2>3. outcome \in [written : SUBSET Flows, dropped : SUBSET Flows]
    BY <1>1
  <2> QED
    BY <1>1, <1>2, <2>1, <2>2, <2>3, NothingHeld DEF PipelineTypeOK, WriterPlaces, Stages
<1>4. EndsInOrder
  BY <1>1, <1>2 DEF EndsInOrder
<1>5. /\ InDecoders = {} /\ Q = {} /\ E = {} /\ R = {} /\ B = {} /\ I = {} /\ Settled = {}
      /\ \A d \in Decoders : Held(decoder[d]) = {}
  <2>1. \A d \in Decoders : Held(decoder[d]) = {}
    BY <1>1, NothingHeld
  <2> QED
    BY <1>1, <1>2, <2>1, NothingHeld DEF InDecoders, Q, E, R, B, I, Settled
<1>6. OnePlace
  BY <1>2, <1>5 DEF OnePlace
<1>7. NumberedInOrder
  <2>1. Seen = {}
    BY <1>5 DEF Seen, InFlight, InChannels, InWriter, Q, E, R, B, I
  <2> QED
    BY <2>1 DEF NumberedInOrder
<1>8. SentOnce
  BY <1>5 DEF SentOnce, Init
<1> QED
  BY <1>3, <1>4, <1>6, <1>7, <1>8 DEF PipelineInv

-----------------------------------------------------------------------------
(* Steps that move flows from one place to the next, or none. *)

\* The flows in flight, by the place they are in.
LEMMA InFlightSets ==
  /\ InFlight = InDecoders \cup Q \cup E \cup R \cup B \cup I
  /\ InFlight' = InDecoders' \cup Q' \cup E' \cup R' \cup B' \cup I'
BY DEF InFlight, InChannels, InWriter, Q, E, R, B, I

\* Nothing is decoded and nothing gets an outcome.
KeepsFlows == InFlight' = InFlight /\ UNCHANGED <<sent, outcome>>

\* A step that only moves flows leaves their numbers and their INSERTs alone.
LEMMA KeepingFlows ==
  ASSUME PipelineInv, KeepsFlows
  PROVE  NumberedInOrder' /\ SentOnce'
<1>1. Settled' = Settled /\ Seen' = Seen
  BY DEF KeepsFlows, Settled, Seen
<1> QED
  BY <1>1 DEF PipelineInv, NumberedInOrder, SentOnce, KeepsFlows

\* A step that moves no flow.
LEMMA StayingFlows ==
  ASSUME PipelineInv, UNCHANGED <<decoder, enriched, buf, inserting, sent, outcome>>,
         flows'.queue = flows.queue, enricher'.flow = enricher.flow
  PROVE  OnePlace' /\ KeepsFlows
<1>1. /\ Q' = Q /\ E' = E /\ R' = R /\ B' = B /\ I' = I /\ InDecoders' = InDecoders /\ Settled' = Settled
  BY DEF Q, E, R, B, I, InDecoders, Settled
<1>2. OnePlace'
  BY <1>1 DEF PipelineInv, OnePlace
<1> QED
  BY <1>1, <1>2, InFlightSets DEF KeepsFlows

\* The listeners, and the steps of Run and shutdown.
LEMMA IntakeStep ==
  ASSUME PipelineInv,
         \/ \E l \in Listeners : ReadPacket(l) \/ QueuePacket(l) \/ ReaderEnds(l)
         \/ \E d \in Decoders : DecoderEnds(d)
  PROVE  PipelineInv' /\ KeepsFlows /\ stage' = stage
<1>1. UNCHANGED <<decoder, channels, output, control>>
  BY DEF ReadPacket, QueuePacket, ReaderEnds, DecoderEnds
<1>2. UNCHANGED <<decoder, flows, enricher, enriched, buf, writer, inserting, sent, outcome, stage>>
  BY <1>1 DEF channels, output, control
<1>3. OnePlace' /\ KeepsFlows
  BY <1>2, StayingFlows
<1> DEFINE ListenersGoOn ==
      /\ reader' \in [Listeners -> {"reading", "holding", "done"}] /\ packets' \in [Listeners -> Nat]
      /\ ended' \subseteq Decoders
      /\ \A l \in Listeners : reader[l] = "done" => reader'[l] = "done" /\ packets'[l] = packets[l]
      /\ \A d \in ended' : d \in ended \/ (decoder[d] = <<>> /\ reader'[d[1]] = "done" /\ packets'[d[1]] = 0)
      /\ ended \subseteq ended'
<1>4. ListenersGoOn
  <2> USE DEF PipelineInv, PipelineTypeOK
  <2>1. ASSUME NEW l \in Listeners, ReadPacket(l) PROVE ListenersGoOn
    BY <2>1 DEF ReadPacket
  <2>2. ASSUME NEW l \in Listeners, QueuePacket(l) PROVE ListenersGoOn
    BY <2>2 DEF QueuePacket
  <2>3. ASSUME NEW l \in Listeners, ReaderEnds(l) PROVE ListenersGoOn
    BY <2>3 DEF ReaderEnds
  <2>4. ASSUME NEW d \in Decoders, DecoderEnds(d) PROVE ListenersGoOn
    BY <2>4 DEF DecoderEnds
  <2> QED
    BY <2>1, <2>2, <2>3, <2>4
<1>5. PipelineTypeOK'
  BY <1>2, <1>4 DEF PipelineInv, PipelineTypeOK
<1>6. EndsInOrder'
  <2>1. \A d \in ended : d[1] \in Listeners
    BY PipelineAssumption DEF PipelineInv, PipelineTypeOK
  <2>2. \A d \in ended' : decoder'[d] = <<>> /\ reader'[d[1]] = "done" /\ packets'[d[1]] = 0
    BY <1>2, <1>4, <2>1 DEF PipelineInv, EndsInOrder
  <2>3. flows'.closed => ended' = Decoders
    BY <1>2, <1>4 DEF PipelineInv, EndsInOrder
  <2> QED
    BY <1>2, <2>2, <2>3 DEF PipelineInv, EndsInOrder
<1> QED
  BY <1>2, <1>3, <1>5, <1>6, KeepingFlows DEF PipelineInv

\* The stages of the shutdown, except the closing of the channel.
LEMMA ControlStep ==
  ASSUME PipelineInv,
         \/ Stop \/ PipelineDrained \/ DeadlinePasses \/ LoadFirst \/ GiveUp
         \/ \E l \in Listeners : CloseSocket(l)
  PROVE  PipelineInv' /\ KeepsFlows
<1>1. /\ UNCHANGED <<received, reader, packets, decoder, ended, flows, enricher, enriched>>
      /\ UNCHANGED <<buf, writer, inserting, sent, outcome>>
      /\ stage' \in Stages
  BY DEF Stop, PipelineDrained, DeadlinePasses, LoadFirst, GiveUp, CloseSocket, intake, channels, output,
         control, Stages, PipelineInv, PipelineTypeOK
<1>2. OnePlace' /\ KeepsFlows
  BY <1>1, StayingFlows
<1>3. PipelineTypeOK'
  BY <1>1 DEF PipelineInv, PipelineTypeOK
<1>4. EndsInOrder'
  BY <1>1 DEF PipelineInv, EndsInOrder
<1> QED
  BY <1>2, <1>3, <1>4, KeepingFlows DEF PipelineInv

\* The channel of decoded flows is closed when no decoder is left.
LEMMA CloseFlowsStep ==
  ASSUME PipelineInv, CloseFlows
  PROVE  PipelineInv' /\ KeepsFlows /\ stage' = "draining"
<1>1. /\ UNCHANGED <<reader, packets, decoder, ended, enricher, enriched, buf, writer, inserting, sent, outcome>>
      /\ ended = Decoders /\ flows' = [flows EXCEPT !.closed = TRUE] /\ stage' = "draining"
  BY DEF CloseFlows, DecodersDone, intake, output
<1>2. flows'.queue = flows.queue /\ flows'.closed = TRUE /\ flows' = [queue |-> flows'.queue, closed |-> flows'.closed]
  BY <1>1 DEF PipelineInv, PipelineTypeOK
<1>3. OnePlace' /\ KeepsFlows
  BY <1>1, <1>2, StayingFlows
<1>4. PipelineTypeOK'
  BY <1>1, <1>2 DEF PipelineInv, PipelineTypeOK, Stages
<1>5. EndsInOrder'
  BY <1>1, <1>2 DEF PipelineInv, EndsInOrder
<1> QED
  BY <1>1, <1>3, <1>4, <1>5, KeepingFlows DEF PipelineInv

\* A flow goes from its decoder to the channel.
LEMMA SendFlowStep ==
  ASSUME PipelineInv, NEW d \in Decoders, SendFlow(d)
  PROVE  PipelineInv' /\ KeepsFlows /\ stage' = stage
<1> DEFINE x == Head(decoder[d])
<1> HIDE DEF x
<1>1. /\ decoder[d] # <<>> /\ flows' = [flows EXCEPT !.queue = Append(@, x)]
      /\ decoder' = [decoder EXCEPT ![d] = Tail(@)]
      /\ UNCHANGED <<reader, packets, ended, enricher, enriched, buf, writer, inserting, sent, outcome, stage>>
  BY DEF SendFlow, output, control, x
<1>2. /\ DOMAIN decoder = Decoders /\ \A e \in Decoders : Batch(decoder[e])
      /\ Batch(flows.queue) /\ flows = [queue |-> flows.queue, closed |-> flows.closed]
  BY DEF PipelineInv, PipelineTypeOK
<1>3. /\ Batch(Tail(decoder[d])) /\ x \in Flows /\ x \in Held(decoder[d])
      /\ Held(Tail(decoder[d])) = Held(decoder[d]) \ {x}
  BY <1>1, <1>2, TakeHead DEF x
<1>4. decoder'[d] = Tail(decoder[d]) /\ \A e \in Decoders \ {d} : decoder'[e] = decoder[e]
  BY <1>1, <1>2
<1>5. /\ flows'.queue = Append(flows.queue, x) /\ flows'.closed = flows.closed
      /\ flows' = [queue |-> flows'.queue, closed |-> flows'.closed]
  BY <1>1, <1>2
<1>6. x \in InDecoders /\ x \notin Q
  BY <1>3 DEF InDecoders, PipelineInv, OnePlace
<1>7. Batch(flows'.queue) /\ Q' = Q \cup {x}
  BY <1>2, <1>3, <1>5, <1>6, PutLast DEF Q
<1>8. E' = E /\ R' = R /\ B' = B /\ I' = I /\ Settled' = Settled
  BY <1>1 DEF E, R, B, I, Settled
<1>9. Held(decoder'[d]) = Held(decoder[d]) \ {x} /\ \A e \in Decoders \ {d} : Held(decoder'[e]) = Held(decoder[e])
  BY <1>3, <1>4
<1>10. InDecoders' = InDecoders \ {x}
  BY <1>3, <1>9 DEF InDecoders, PipelineInv, OnePlace
<1>11. OnePlace'
  <2>1. \A a, b \in Decoders : a # b => Held(decoder'[a]) \cap Held(decoder'[b]) = {}
    BY <1>9 DEF PipelineInv, OnePlace
  <2>2. OnePlace /\ outcome' = outcome
    BY <1>1 DEF PipelineInv
  <2> QED
    BY <1>6, <1>7, <1>8, <1>10, <2>1, <2>2 DEF OnePlace
<1>12. KeepsFlows
  BY <1>1, <1>6, <1>7, <1>8, <1>10, InFlightSets DEF KeepsFlows
<1>13. PipelineTypeOK'
  <2>1. DOMAIN decoder' = Decoders /\ \A e \in Decoders : Batch(decoder'[e])
    BY <1>1, <1>2, <1>3, <1>4
  <2> QED
    BY <1>1, <1>5, <1>7, <2>1 DEF PipelineInv, PipelineTypeOK
<1>14. EndsInOrder'
  <2>1. d \notin ended /\ ~flows.closed
    BY <1>1 DEF PipelineInv, PipelineTypeOK, EndsInOrder
  <2>2. \A e \in ended : decoder'[e] = <<>>
    BY <1>4, <2>1 DEF PipelineInv, PipelineTypeOK, EndsInOrder
  <2> QED
    BY <1>1, <1>5, <2>1, <2>2 DEF PipelineInv, EndsInOrder
<1> QED
  BY <1>1, <1>11, <1>12, <1>13, <1>14, KeepingFlows DEF PipelineInv

\* A flow goes from the channel to the enricher.
LEMMA EnrichStep ==
  ASSUME PipelineInv, Enrich
  PROVE  PipelineInv' /\ KeepsFlows /\ stage' = stage
<1> DEFINE x == Head(flows.queue)
<1> HIDE DEF x
<1>1. /\ enricher.flow = <<>> /\ flows.queue # <<>> /\ flows' = [flows EXCEPT !.queue = Tail(@)]
      /\ enricher' = [enricher EXCEPT !.flow = <<x>>]
      /\ UNCHANGED <<reader, packets, decoder, ended, enriched, buf, writer, inserting, sent, outcome, stage>>
  BY DEF Enrich, intake, output, control, x
<1>2. /\ Batch(flows.queue) /\ flows = [queue |-> flows.queue, closed |-> flows.closed]
      /\ enricher = [flow |-> enricher.flow, ended |-> enricher.ended]
  BY DEF PipelineInv, PipelineTypeOK
<1>3. /\ flows'.queue = Tail(flows.queue) /\ flows'.closed = flows.closed
      /\ flows' = [queue |-> flows'.queue, closed |-> flows'.closed]
      /\ enricher'.flow = <<x>> /\ enricher'.ended = enricher.ended
      /\ enricher' = [flow |-> enricher'.flow, ended |-> enricher'.ended]
  BY <1>1, <1>2
<1>4. Batch(flows'.queue) /\ x \in Flows /\ x \in Q /\ Q' = Q \ {x}
  BY <1>1, <1>2, <1>3, TakeHead DEF Q, x
<1>5. Batch(enricher'.flow) /\ E = {} /\ E' = {x}
  BY <1>1, <1>3, <1>4, NothingHeld, HoldsOne DEF E
<1>6. InDecoders' = InDecoders /\ R' = R /\ B' = B /\ I' = I /\ Settled' = Settled
  BY <1>1 DEF InDecoders, R, B, I, Settled
<1>7. OnePlace'
  <2>1. OnePlace /\ UNCHANGED <<decoder, outcome>>
    BY <1>1 DEF PipelineInv
  <2> QED
    BY <1>4, <1>5, <1>6, <2>1 DEF OnePlace
<1>8. KeepsFlows
  BY <1>1, <1>4, <1>5, <1>6, InFlightSets DEF KeepsFlows
<1>9. PipelineTypeOK'
  BY <1>1, <1>3, <1>4, <1>5 DEF PipelineInv, PipelineTypeOK
<1>10. EndsInOrder'
  BY <1>1, <1>3 DEF PipelineInv, EndsInOrder
<1> QED
  BY <1>1, <1>7, <1>8, <1>9, <1>10, KeepingFlows DEF PipelineInv

\* A flow goes from the enricher to the second channel.
LEMMA SendEnrichedStep ==
  ASSUME PipelineInv, SendEnriched
  PROVE  PipelineInv' /\ KeepsFlows /\ stage' = stage
<1>1. /\ enricher.flow # <<>> /\ enriched' = enriched \o enricher.flow
      /\ enricher' = [enricher EXCEPT !.flow = <<>>]
      /\ UNCHANGED <<reader, packets, decoder, ended, flows, buf, writer, inserting, sent, outcome, stage>>
  BY DEF SendEnriched, intake, output, control
<1>2. /\ Batch(enriched) /\ Batch(enricher.flow) /\ R \cap E = {}
      /\ enricher = [flow |-> enricher.flow, ended |-> enricher.ended]
  BY DEF PipelineInv, PipelineTypeOK, OnePlace
<1>3. /\ enricher'.flow = <<>> /\ enricher'.ended = enricher.ended
      /\ enricher' = [flow |-> enricher'.flow, ended |-> enricher'.ended]
  BY <1>1, <1>2
<1>4. Batch(enriched') /\ R' = R \cup E
  BY <1>1, <1>2, PutAll DEF R, E
<1>5. Batch(enricher'.flow) /\ E' = {}
  BY <1>3, NothingHeld DEF E
<1>6. InDecoders' = InDecoders /\ Q' = Q /\ B' = B /\ I' = I /\ Settled' = Settled
  BY <1>1 DEF InDecoders, Q, B, I, Settled
<1>7. OnePlace'
  <2>1. OnePlace /\ UNCHANGED <<decoder, outcome>>
    BY <1>1 DEF PipelineInv
  <2> QED
    BY <1>4, <1>5, <1>6, <2>1 DEF OnePlace
<1>8. KeepsFlows
  BY <1>1, <1>4, <1>5, <1>6, InFlightSets DEF KeepsFlows
<1>9. PipelineTypeOK'
  BY <1>1, <1>3, <1>4, <1>5 DEF PipelineInv, PipelineTypeOK
<1>10. EndsInOrder'
  BY <1>1, <1>3 DEF PipelineInv, EndsInOrder
<1> QED
  BY <1>1, <1>7, <1>8, <1>9, <1>10, KeepingFlows DEF PipelineInv

\* The enricher and the writer end, or the ticker fires: no flow moves.
LEMMA EndStep ==
  ASSUME PipelineInv, EnricherEnds \/ FlushTick \/ InputClosed \/ WriterEnds
  PROVE  PipelineInv' /\ KeepsFlows /\ stage' = stage
<1>1. /\ UNCHANGED <<reader, packets, decoder, ended, flows, enriched, buf, inserting, sent, outcome, stage>>
  BY DEF EnricherEnds, FlushTick, InputClosed, WriterEnds, intake, channels, output, control
<1>2. /\ enricher'.flow = enricher.flow /\ enricher'.ended \in BOOLEAN
      /\ enricher' = [flow |-> enricher'.flow, ended |-> enricher'.ended]
      /\ enricher.ended => enricher'.ended
      /\ enricher'.ended => enricher.ended \/ (flows.closed /\ flows.queue = <<>> /\ enricher.flow = <<>>)
  BY DEF EnricherEnds, FlushTick, InputClosed, WriterEnds, channels, PipelineInv, PipelineTypeOK
<1>3. /\ writer' \in WriterPlaces
      /\ writer' \in {"last hand-off", "closing", "done"} => enricher'.ended /\ enriched = <<>>
      /\ writer' \in {"closing", "done"} => buf = <<>>
      /\ writer' = "done" => inserting = <<>>
  <2>1. CASE EnricherEnds
    BY <1>2, <2>1 DEF EnricherEnds, output, PipelineInv, PipelineTypeOK, EndsInOrder
  <2>2. CASE FlushTick
    BY <2>2 DEF FlushTick, WriterPlaces
  <2>3. CASE InputClosed
    BY <1>2, <2>3 DEF InputClosed, AtEnd, WriterPlaces
  <2>4. CASE WriterEnds
    BY <1>2, <2>4 DEF WriterEnds, WriterPlaces, PipelineInv, EndsInOrder
  <2> QED
    BY <2>1, <2>2, <2>3, <2>4
<1>4. OnePlace' /\ KeepsFlows
  BY <1>1, <1>2, StayingFlows
<1>5. PipelineTypeOK'
  BY <1>1, <1>2, <1>3 DEF PipelineInv, PipelineTypeOK
<1>6. EndsInOrder'
  BY <1>1, <1>2, <1>3 DEF PipelineInv, EndsInOrder
<1> QED
  BY <1>1, <1>4, <1>5, <1>6, KeepingFlows DEF PipelineInv

\* A flow joins the batch that is being filled.
LEMMA ReceiveStep ==
  ASSUME PipelineInv, Receive
  PROVE  PipelineInv' /\ KeepsFlows /\ stage' = stage
<1> DEFINE x == Head(enriched)
<1> HIDE DEF x
<1>1. /\ writer = "loop" /\ enriched # <<>> /\ buf' = Append(buf, x) /\ enriched' = Tail(enriched)
      /\ writer' \in {"hand-off", "loop"}
      /\ UNCHANGED <<reader, packets, decoder, ended, flows, enricher, inserting, sent, outcome, stage>>
  BY DEF Receive, intake, control, x
<1>2. Batch(enriched) /\ Batch(buf) /\ R \cap B = {}
  BY DEF PipelineInv, PipelineTypeOK, OnePlace
<1>3. Batch(enriched') /\ x \in Flows /\ x \in R /\ R' = R \ {x}
  BY <1>1, <1>2, TakeHead DEF R, x
<1>4. Batch(buf') /\ B' = B \cup {x}
  <2>1. x \notin Held(buf)
    BY <1>2, <1>3 DEF B
  <2> QED
    BY <1>1, <1>2, <1>3, <2>1, PutLast DEF B
<1>5. InDecoders' = InDecoders /\ Q' = Q /\ E' = E /\ I' = I /\ Settled' = Settled
  BY <1>1 DEF InDecoders, Q, E, I, Settled
<1>6. OnePlace'
  <2>1. OnePlace /\ UNCHANGED <<decoder, outcome>>
    BY <1>1 DEF PipelineInv
  <2> QED
    BY <1>3, <1>4, <1>5, <2>1 DEF OnePlace
<1>7. KeepsFlows
  BY <1>1, <1>3, <1>4, <1>5, InFlightSets DEF KeepsFlows
<1>8. PipelineTypeOK'
  BY <1>1, <1>3, <1>4 DEF PipelineInv, PipelineTypeOK, WriterPlaces
<1>9. EndsInOrder'
  BY <1>1 DEF PipelineInv, EndsInOrder
<1> QED
  BY <1>1, <1>6, <1>7, <1>8, <1>9, KeepingFlows DEF PipelineInv

\* The batch is handed to the inserter.
LEMMA HandOffStep ==
  ASSUME PipelineInv, HandOff
  PROVE  PipelineInv' /\ KeepsFlows /\ stage' = stage
<1>1. /\ writer \in {"hand-off", "last hand-off"} /\ inserting = <<>> /\ inserting' = buf /\ buf' = <<>>
      /\ writer' = IF writer = "hand-off" THEN "loop" ELSE "closing"
      /\ UNCHANGED <<reader, packets, decoder, ended, flows, enricher, enriched, sent, outcome, stage>>
  BY DEF HandOff, intake, channels, control
<1>2. I = {} /\ I' = B /\ B' = {} /\ Batch(buf') /\ Batch(inserting')
  BY <1>1, NothingHeld DEF I, B, PipelineInv, PipelineTypeOK
<1>3. InDecoders' = InDecoders /\ Q' = Q /\ E' = E /\ R' = R /\ Settled' = Settled
  BY <1>1 DEF InDecoders, Q, E, R, Settled
<1>4. OnePlace'
  <2>1. OnePlace /\ UNCHANGED <<decoder, outcome>>
    BY <1>1 DEF PipelineInv
  <2> QED
    BY <1>2, <1>3, <2>1 DEF OnePlace
<1>5. KeepsFlows
  BY <1>1, <1>2, <1>3, InFlightSets DEF KeepsFlows
<1>6. PipelineTypeOK'
  BY <1>1, <1>2 DEF PipelineInv, PipelineTypeOK, WriterPlaces
<1>7. EndsInOrder'
  BY <1>1 DEF PipelineInv, EndsInOrder
<1> QED
  BY <1>1, <1>4, <1>5, <1>6, <1>7, KeepingFlows DEF PipelineInv

-----------------------------------------------------------------------------
(* Steps that decode flows, and steps that give them an outcome. *)

\* Some flows that nobody has seen come into the pipeline.
DecodesFlows ==
  /\ InFlight \subseteq InFlight' /\ (InFlight' \ InFlight) \cap Seen = {}
  /\ UNCHANGED <<sent, outcome>>

\* A packet becomes flows that nobody has seen.
LEMMA DecodeStep ==
  ASSUME PipelineInv, NEW d \in Decoders, Decode(d)
  PROVE  PipelineInv' /\ DecodesFlows /\ stage' = stage
<1>1. PICK c \in Nat : Seen = 1 .. c
  BY DEF PipelineInv, NumberedInOrder
<1>2. Cardinality(Seen) = c
  BY <1>1, FS_Interval
<1>3. PICK n \in PacketFlows : /\ c + n <= MaxFlows
                               /\ decoder' = [decoder EXCEPT ![d] = [i \in 1 .. n |-> c + i]]
  BY <1>2 DEF Decode
<1>4. /\ decoder[d] = <<>> /\ d \notin ended /\ packets[d[1]] > 0
      /\ packets' = [packets EXCEPT ![d[1]] = @ - 1]
      /\ UNCHANGED <<reader, ended, flows, enricher, enriched, buf, writer, inserting, sent, outcome, stage>>
  BY DEF Decode, channels, output, control
<1>5. n \in Nat /\ d[1] \in Listeners
  BY PipelineAssumption
<1> DEFINE new == [i \in 1 .. n |-> c + i]
           N == (c + 1) .. (c + n)
<1>6. Batch(new) /\ Held(new) = N
  BY <1>3, <1>5, NewBatch
<1> HIDE DEF new
<1>7. N \cap Seen = {} /\ Seen \cup N = 1 .. (c + n)
  BY <1>1, <1>5
<1> HIDE DEF N
<1>8. /\ DOMAIN decoder = Decoders /\ \A e \in Decoders : Batch(decoder[e])
  BY DEF PipelineInv, PipelineTypeOK
<1>9. decoder'[d] = new /\ \A e \in Decoders \ {d} : decoder'[e] = decoder[e]
  BY <1>3, <1>8 DEF new
<1>10. /\ Held(decoder[d]) = {} /\ Held(decoder'[d]) = N
       /\ \A e \in Decoders \ {d} : Held(decoder'[e]) = Held(decoder[e])
  BY <1>4, <1>6, <1>9, NothingHeld
<1>11. InDecoders' = InDecoders \cup N
  BY <1>10 DEF InDecoders
<1>12. Q' = Q /\ E' = E /\ R' = R /\ B' = B /\ I' = I /\ Settled' = Settled
  BY <1>4 DEF Q, E, R, B, I, Settled
<1>13. Seen = InDecoders \cup Q \cup E \cup R \cup B \cup I \cup Settled
  BY InFlightSets DEF Seen
<1>14. Seen' = Seen \cup N /\ InFlight' = InFlight \cup N
  BY <1>11, <1>12, InFlightSets DEF Seen
<1>15. OnePlace'
  <2>1. \A e \in Decoders : Held(decoder[e]) \subseteq Seen
    BY <1>13 DEF InDecoders
  <2>2. \A a, b \in Decoders : a # b => Held(decoder'[a]) \cap Held(decoder'[b]) = {}
    BY <1>7, <1>10, <2>1 DEF PipelineInv, OnePlace
  <2>3. OnePlace /\ outcome' = outcome
    BY <1>4 DEF PipelineInv
  <2> QED
    BY <1>7, <1>11, <1>12, <1>13, <2>2, <2>3 DEF OnePlace
<1>16. NumberedInOrder'
  <2>1. c + n \in Nat
    BY <1>5
  <2> QED
    BY <1>7, <1>14, <2>1 DEF NumberedInOrder
<1>17. SentOnce'
  BY <1>4, <1>12 DEF PipelineInv, SentOnce
<1>18. DecodesFlows
  BY <1>4, <1>7, <1>14 DEF DecodesFlows
<1>19. PipelineTypeOK'
  <2>1. DOMAIN decoder' = Decoders /\ \A e \in Decoders : Batch(decoder'[e])
    BY <1>3, <1>6, <1>8, <1>9
  <2>2. packets' \in [Listeners -> Nat]
    BY <1>4, <1>5 DEF PipelineInv, PipelineTypeOK
  <2> QED
    BY <1>4, <2>1, <2>2 DEF PipelineInv, PipelineTypeOK
<1>20. EndsInOrder'
  <2>1. ~flows.closed
    BY <1>4 DEF PipelineInv, EndsInOrder
  <2>2. \A e \in ended : e \in Decoders /\ e # d /\ e[1] \in Listeners /\ e[1] # d[1]
    <3> SUFFICES ASSUME NEW e \in ended PROVE e \in Decoders /\ e # d /\ e[1] \in Listeners /\ e[1] # d[1]
      OBVIOUS
    <3>1. e \in Decoders /\ packets[e[1]] = 0
      BY DEF PipelineInv, PipelineTypeOK, EndsInOrder
    <3>2. e[1] # d[1]
      BY <1>4, <3>1
    <3> QED
      BY <1>4, <3>1, <3>2, PipelineAssumption
  <2>3. \A e \in ended : packets'[e[1]] = packets[e[1]] /\ decoder'[e] = decoder[e]
    BY <1>4, <1>9, <2>2 DEF PipelineInv, PipelineTypeOK
  <2> QED
    BY <1>4, <2>1, <2>3 DEF PipelineInv, EndsInOrder
<1> QED
  BY <1>4, <1>15, <1>16, <1>17, <1>18, <1>19, <1>20 DEF PipelineInv

\* The batch of the INSERT leaves the pipeline, written or dropped as a whole.
SettlesFlows ==
  /\ InFlight' = InFlight \ I /\ I \subseteq InFlight
  /\ \/ outcome'.written = outcome.written \cup I /\ outcome'.dropped = outcome.dropped
     \/ outcome'.written = outcome.written /\ outcome'.dropped = outcome.dropped \cup I

\* An INSERT ends: its flows are written, or dropped.
LEMMA WriteStep ==
  ASSUME PipelineInv, Write
  PROVE  PipelineInv' /\ SettlesFlows /\ stage' = stage
<1>1. /\ sent' = [f \in Flows |-> IF f \in I THEN sent[f] + 1 ELSE sent[f]]
      /\ inserting' = <<>>
      /\ UNCHANGED <<reader, packets, decoder, ended, flows, enricher, enriched, buf, writer, stage>>
  BY DEF Write, AfterFailure, intake, channels, control, I
<1>2. /\ outcome \in [written : SUBSET Flows, dropped : SUBSET Flows] /\ sent \in [Flows -> Nat]
      /\ I \subseteq Flows /\ I \cap Settled = {} /\ OnePlace
  BY HeldAreFlows DEF PipelineInv, PipelineTypeOK, OnePlace, I
<1>3. /\ outcome' \in [written : SUBSET Flows, dropped : SUBSET Flows]
      /\ \/ outcome'.written = outcome.written \cup I /\ outcome'.dropped = outcome.dropped
         \/ outcome'.written = outcome.written /\ outcome'.dropped = outcome.dropped \cup I
  <2>1. CASE outcome' = [outcome EXCEPT !.written = @ \cup I]
    BY <1>2, <2>1
  <2>2. CASE outcome' = [outcome EXCEPT !.dropped = @ \cup I]
    BY <1>2, <2>2
  <2> QED
    BY <2>1, <2>2 DEF Write, I
<1>4. Settled' = Settled \cup I /\ outcome'.written \cap outcome'.dropped = {}
  BY <1>2, <1>3 DEF Settled, OnePlace
<1>5. I' = {} /\ Batch(inserting')
  BY <1>1, NothingHeld DEF I
<1>6. InDecoders' = InDecoders /\ Q' = Q /\ E' = E /\ R' = R /\ B' = B /\ decoder' = decoder
  BY <1>1 DEF InDecoders, Q, E, R, B
<1>7. OnePlace'
  BY <1>2, <1>4, <1>5, <1>6 DEF OnePlace
<1>8. InFlight' = InFlight \ I /\ I \subseteq InFlight
  BY <1>2, <1>5, <1>6, InFlightSets DEF OnePlace
<1>9. NumberedInOrder'
  <2>1. Seen' = Seen
    BY <1>4, <1>8 DEF Seen
  <2> QED
    BY <2>1 DEF PipelineInv, NumberedInOrder
<1>10. SentOnce'
  <2> SUFFICES ASSUME NEW f \in Flows PROVE sent'[f] = IF f \in Settled' THEN 1 ELSE 0
    BY DEF SentOnce
  <2>1. sent[f] = IF f \in Settled THEN 1 ELSE 0
    BY DEF PipelineInv, SentOnce
  <2>2. sent'[f] = IF f \in I THEN sent[f] + 1 ELSE sent[f]
    BY <1>1
  <2> QED
    BY <1>2, <1>4, <2>1, <2>2
<1>11. PipelineTypeOK'
  <2>1. sent' \in [Flows -> Nat]
    BY <1>1, <1>2
  <2> QED
    BY <1>1, <1>3, <1>5, <2>1 DEF PipelineInv, PipelineTypeOK
<1>12. EndsInOrder'
  BY <1>1 DEF PipelineInv, EndsInOrder
<1>13. SettlesFlows
  BY <1>3, <1>8 DEF SettlesFlows
<1> QED
  BY <1>1, <1>7, <1>9, <1>10, <1>11, <1>12, <1>13 DEF PipelineInv

\* Every step keeps the invariant, and moves, decodes or settles flows.
LEMMA PipelineStep ==
  ASSUME PipelineInv, [Next]_vars
  PROVE  PipelineInv' /\ (KeepsFlows \/ DecodesFlows \/ SettlesFlows)
<1>1. CASE UNCHANGED vars
  <2>1. /\ UNCHANGED <<reader, packets, decoder, ended, flows, enricher, enriched, buf, writer, inserting>>
        /\ UNCHANGED <<sent, outcome, stage>>
    BY <1>1 DEF vars, intake, channels, output, control
  <2>2. OnePlace' /\ KeepsFlows
    BY <2>1, StayingFlows
  <2>3. PipelineTypeOK' /\ EndsInOrder'
    BY <2>1 DEF PipelineInv, PipelineTypeOK, EndsInOrder
  <2> QED
    BY <2>2, <2>3, KeepingFlows DEF PipelineInv
<1>2. CASE \E d \in Decoders : DecoderStep(d)
  BY <1>2, DecodeStep, SendFlowStep, IntakeStep DEF DecoderStep
<1>3. CASE EnricherStep \/ WriterStep \/ FlushTick \/ Write
  BY <1>3, EnrichStep, SendEnrichedStep, EndStep, ReceiveStep, HandOffStep, WriteStep DEF EnricherStep, WriterStep
<1>4. CASE Stop \/ ShutdownStep \/ DeadlinePasses
  BY <1>4, ControlStep, CloseFlowsStep DEF ShutdownStep
<1>5. CASE \E l \in Listeners : ReadPacket(l) \/ QueuePacket(l) \/ ReaderEnds(l)
  BY <1>5, IntakeStep
<1> QED
  BY <1>1, <1>2, <1>3, <1>4, <1>5 DEF Next

\* The invariant of the pipeline holds in every state.
LEMMA PipelineInvariant == Spec => []PipelineInv
<1>1. PipelineInv /\ [Next]_vars => PipelineInv'
  BY PipelineStep
<1> QED
  BY <1>1, PipelineInitially, PTL DEF Spec

-----------------------------------------------------------------------------
(* The shutdown closes the channel of decoded flows only after every       *)
(* decoder has returned, and a decoder returns only when its reader is     *)
(* done and its queue is empty: no send can meet a closed channel.         *)
THEOREM NobodySendsOnClosed == Spec => []NoSendOnClosed
<1>1. PipelineInv => NoSendOnClosed
  BY DEF PipelineInv, EndsInOrder, NoSendOnClosed
<1> QED
  BY <1>1, PipelineInvariant, PTL

\* What Pending loaded first is never more than there is when it loads the second.
PendingInv ==
  /\ pendingRead.next \in {"first", "second", "none"}
  /\ pendingRead.next = "second" => /\ pendingRead.done \in Nat /\ pendingRead.done <= WriterDone
                                    /\ pendingRead = [done |-> pendingRead.done, received |-> 0, next |-> "second"]
  /\ PendingNeverUnderflows

\* There are finitely many flows.
LEMMA FlowsFinite == IsFiniteSet(Flows)
<1>1. MaxFlows \in Nat
  BY PipelineAssumption
<1> QED
  BY <1>1, FS_Interval DEF Flows

\* The writer has not settled more flows than it has received.
LEMMA WriterCounts ==
  ASSUME PipelineInv
  PROVE  /\ IsFiniteSet(Settled) /\ WriterDone \in Nat /\ WriterReceived \in Nat
         /\ WriterDone <= WriterReceived
<1>1. InWriter \cup Settled \subseteq Flows
  BY HeldAreFlows DEF PipelineInv, PipelineTypeOK, InWriter, Settled
<1>2. IsFiniteSet(InWriter \cup Settled)
  BY <1>1, FlowsFinite, FS_Subset
<1>3. IsFiniteSet(Settled) /\ Cardinality(Settled) <= Cardinality(InWriter \cup Settled)
  BY <1>2, FS_Subset
<1> QED
  BY <1>2, <1>3, FS_CardinalityType DEF WriterDone, WriterReceived

\* Outcomes are never taken back.
LEMMA OutcomesStay ==
  ASSUME PipelineInv, [Next]_vars
  PROVE  WriterDone <= WriterDone' /\ WriterDone' \in Nat
<1>1. Settled \subseteq Settled'
  BY PipelineStep DEF KeepsFlows, DecodesFlows, SettlesFlows, Settled
<1>2. Settled' \subseteq Flows
  BY PipelineStep DEF PipelineInv, PipelineTypeOK, Settled
<1>3. IsFiniteSet(Settled')
  BY <1>2, FlowsFinite, FS_Subset
<1> QED
  BY <1>1, <1>3, FS_Subset, FS_CardinalityType DEF WriterDone

\* Every step keeps the two loads in order.
LEMMA PendingStep == PipelineInv /\ PendingInv /\ [Next]_vars => PendingInv'
<1> SUFFICES ASSUME PipelineInv, PendingInv, [Next]_vars PROVE PendingInv'
  OBVIOUS
<1>1. CASE pendingRead' = pendingRead
  <2>1. WriterDone \in Nat /\ WriterDone <= WriterDone' /\ WriterDone' \in Nat
    BY WriterCounts, OutcomesStay
  <2> HIDE DEF WriterDone
  <2> QED
    BY <1>1, <2>1 DEF PendingInv, PendingNeverUnderflows
<1>2. CASE LoadFirst
  <2>1. pendingRead' = [done |-> WriterDone, received |-> 0, next |-> "second"]
    BY <1>2 DEF LoadFirst, LoadedFirst
  <2>2. WriterDone \in Nat /\ WriterDone <= WriterDone'
    BY WriterCounts, OutcomesStay
  <2> QED
    BY <2>1, <2>2 DEF PendingInv, PendingNeverUnderflows
<1>3. CASE GiveUp
  <2>1. pendingRead' = [pendingRead EXCEPT !.received = WriterReceived, !.next = "none"]
        /\ pendingRead.next = "second"
    BY <1>3 DEF GiveUp, LoadedFirst
  <2>2. /\ pendingRead.done \in Nat /\ pendingRead.done <= WriterDone
        /\ pendingRead = [done |-> pendingRead.done, received |-> 0, next |-> "second"]
    BY <2>1 DEF PendingInv
  <2>3. pendingRead'.next = "none" /\ pendingRead'.received = WriterReceived /\ pendingRead'.done = pendingRead.done
    BY <2>1, <2>2
  <2>4. WriterDone \in Nat /\ WriterReceived \in Nat /\ WriterDone <= WriterReceived
    BY WriterCounts
  <2>5. pendingRead.done <= WriterReceived
    BY <2>2, <2>4
  <2> QED
    BY <2>3, <2>5 DEF PendingInv, PendingNeverUnderflows
<1>4. LoadFirst \/ GiveUp \/ pendingRead' = pendingRead
  <2>1. CASE UNCHANGED vars
    BY <2>1 DEF vars, control
  <2>2. CASE \E l \in Listeners : ReadPacket(l) \/ QueuePacket(l) \/ ReaderEnds(l) \/ CloseSocket(l)
    BY <2>2 DEF ReadPacket, QueuePacket, ReaderEnds, CloseSocket, control
  <2>3. CASE \E d \in Decoders : DecoderStep(d)
    BY <2>3 DEF DecoderStep, Decode, SendFlow, DecoderEnds, control
  <2>4. CASE EnricherStep
    BY <2>4 DEF EnricherStep, Enrich, SendEnriched, EnricherEnds, control
  <2>5. CASE WriterStep \/ FlushTick \/ Write
    BY <2>5 DEF WriterStep, Receive, InputClosed, HandOff, WriterEnds, FlushTick, Write, control
  <2>6. CASE Stop \/ CloseFlows \/ PipelineDrained \/ DeadlinePasses
    BY <2>6 DEF Stop, CloseFlows, PipelineDrained, DeadlinePasses
  <2> QED
    BY <2>1, <2>2, <2>3, <2>4, <2>5, <2>6 DEF Next, ShutdownStep
<1> QED
  BY <1>1, <1>2, <1>3, <1>4

(* What Metrics.Pending reports at the deadline is not negative: it loads  *)
(* the outcomes before the flows received, an outcome is never taken back, *)
(* and a flow with an outcome was received.                                *)
THEOREM PendingIsNatural == Spec => []PendingNeverUnderflows
<1>1. Init => PendingInv
  <2>1. ASSUME Init PROVE pendingRead = [done |-> 0, received |-> 0, next |-> "first"]
    BY <2>1 DEF Init, Unread
  <2> QED
    BY <2>1 DEF PendingInv, PendingNeverUnderflows
<1>2. PendingInv => PendingNeverUnderflows
  BY DEF PendingInv
<1> QED
  BY <1>1, <1>2, PendingStep, PipelineInvariant, PTL DEF Spec

-----------------------------------------------------------------------------
(* The fate of every flow. *)

\* What FateOf says, once a flow is in one place and in one INSERT.
FateShown ==
  /\ DOMAIN FateOf = Flows
  /\ \A f \in Flows :
       /\ f \in outcome.written => FateOf[f] = "written"
       /\ f \in outcome.dropped => FateOf[f] = "dropped"
       /\ f \in InFlight /\ stage = "gave up" => FateOf[f] = "lost"
       /\ f \in InFlight /\ stage # "gave up" => FateOf[f] = "decoded"
       /\ f \notin Seen => FateOf[f] = "unseen"

\* The fate of a flow, read off the places and counters.
LEMMA FateIsShown == PipelineInv => FateShown
<1> SUFFICES ASSUME PipelineInv PROVE FateShown
  OBVIOUS
<1>1. InFlight \cap Settled = {} /\ outcome.written \cap outcome.dropped = {}
  BY InFlightSets DEF PipelineInv, OnePlace
<1>2. \A f \in Flows : ~(sent[f] > 1)
  BY DEF PipelineInv, SentOnce
<1>3. DOMAIN FateOf = Flows
  BY DEF FateOf
<1> SUFFICES ASSUME NEW f \in Flows
             PROVE  /\ f \in outcome.written => FateOf[f] = "written"
                    /\ f \in outcome.dropped => FateOf[f] = "dropped"
                    /\ f \in InFlight /\ stage = "gave up" => FateOf[f] = "lost"
                    /\ f \in InFlight /\ stage # "gave up" => FateOf[f] = "decoded"
                    /\ f \notin Seen => FateOf[f] = "unseen"
  BY <1>3 DEF FateShown
<1>4. FateOf[f] = CASE sent[f] > 1 -> "counted twice"
                    [] f \in outcome.written -> "written"
                    [] f \in outcome.dropped -> "dropped"
                    [] f \notin Settled \cup InFlight -> "unseen"
                    [] OTHER -> IF stage = "gave up" THEN "lost" ELSE "decoded"
  BY DEF FateOf
<1> HIDE DEF FateOf
<1>5. f \in outcome.written => FateOf[f] = "written"
  BY <1>1, <1>2, <1>4 DEF Settled
<1>6. f \in outcome.dropped => FateOf[f] = "dropped"
  BY <1>1, <1>2, <1>4 DEF Settled
<1>7. /\ f \in InFlight /\ stage = "gave up" => FateOf[f] = "lost"
      /\ f \in InFlight /\ stage # "gave up" => FateOf[f] = "decoded"
  BY <1>1, <1>2, <1>4 DEF Settled
<1>8. f \notin Seen => FateOf[f] = "unseen"
  BY <1>1, <1>2, <1>4 DEF Settled, Seen
<1> QED
  BY <1>5, <1>6, <1>7, <1>8

\* The same in the next state.
LEMMA FateIsShownNext == PipelineInv' => FateShown'
BY FateIsShown, PTL

\* Every flow has one of the fates of FlowFate.
LEMMA FateIsAFunction == PipelineInv => FateOf \in [Flows -> Fate!Fates]
<1> SUFFICES ASSUME PipelineInv PROVE FateOf \in [Flows -> Fate!Fates]
  OBVIOUS
<1>1. FateOf = [f \in Flows |-> FateOf[f]]
  BY DEF FateOf
<1>2. \A f \in Flows : f \in outcome.written \/ f \in outcome.dropped \/ f \in InFlight \/ f \notin Seen
  BY DEF Seen, Settled
<1>3. \A f \in Flows : FateOf[f] \in Fate!Fates
  BY <1>2, FateIsShown DEF FateShown, Fate!Fates
<1> HIDE DEF FateOf
<1> QED
  BY <1>1, <1>3

\* The same in the next state.
LEMMA FateIsAFunctionNext == PipelineInv' => FateOf' \in [Flows -> Fate!Fates]
<1>1. (PipelineInv => FateOf \in [Flows -> Fate!Fates])'
  BY FateIsAFunction, PTL
<1> QED
  BY <1>1

\* A step that neither decodes nor settles a flow, nor ends the process.
Quiet ==
  /\ KeepsFlows /\ (stage' = "gave up" <=> stage = "gave up")
  /\ (IF Up' THEN "up" ELSE stage') = (IF Up THEN "up" ELSE stage)

\* The steps, by what they do to the fates.
LEMMA KindsOfStep ==
  ASSUME PipelineInv, [Next]_vars
  PROVE  \/ Quiet
         \/ DecodesFlows /\ Up /\ stage' = stage
         \/ SettlesFlows /\ Up /\ stage' = stage
         \/ PipelineDrained /\ KeepsFlows
         \/ GiveUp /\ KeepsFlows
<1>1. ASSUME KeepsFlows, stage' = stage PROVE Quiet
  BY <1>1 DEF Quiet, Up
<1>2. CASE UNCHANGED vars
  <2>1. /\ UNCHANGED <<decoder, flows, enricher, enriched, buf, inserting, sent, outcome, stage>>
    BY <1>2 DEF vars, intake, channels, output, control
  <2> QED
    BY <1>1, <2>1, StayingFlows
<1>3. CASE Stop \/ CloseFlows \/ DeadlinePasses
  <2>1. /\ stage \in {"running", "stopping", "draining"} /\ stage' \in {"stopping", "draining", "report"}
        /\ KeepsFlows
    BY <1>3, ControlStep, CloseFlowsStep DEF Stop, CloseFlows, DeadlinePasses
  <2> QED
    BY <2>1 DEF Quiet, Up
<1>4. CASE (\E l \in Listeners : CloseSocket(l)) \/ LoadFirst
  BY <1>1, <1>4, ControlStep DEF CloseSocket, LoadFirst, control
<1>5. CASE PipelineDrained \/ GiveUp
  BY <1>5, ControlStep
<1>6. CASE \E d \in Decoders : DecoderStep(d)
  <2>1. ASSUME NEW d \in Decoders, Decode(d) PROVE DecodesFlows /\ Up /\ stage' = stage
    BY <2>1, DecodeStep DEF Decode
  <2> QED
    BY <1>1, <1>6, <2>1, SendFlowStep, IntakeStep DEF DecoderStep
<1>7. CASE Write
  <2>1. Up
    BY <1>7 DEF Write
  <2> QED
    BY <1>7, <2>1, WriteStep
<1>8. CASE EnricherStep \/ WriterStep \/ FlushTick
  BY <1>1, <1>8, EnrichStep, SendEnrichedStep, EndStep, ReceiveStep, HandOffStep DEF EnricherStep, WriterStep
<1>9. CASE \E l \in Listeners : ReadPacket(l) \/ QueuePacket(l) \/ ReaderEnds(l)
  BY <1>1, <1>9, IntakeStep
<1> QED
  BY <1>2, <1>3, <1>4, <1>5, <1>6, <1>7, <1>8, <1>9 DEF Next, ShutdownStep

\* A pipeline whose writer has returned is empty.
LEMMA DrainedIsEmpty ==
  ASSUME PipelineInv, writer = "done"
  PROVE  InFlight = {}
<1>1. /\ inserting = <<>> /\ buf = <<>> /\ enriched = <<>> /\ flows.queue = <<>> /\ enricher.flow = <<>>
      /\ \A d \in Decoders : decoder[d] = <<>>
  BY DEF PipelineInv, EndsInOrder
<1>2. \A d \in Decoders : Held(decoder[d]) = {}
  BY <1>1, NothingHeld
<1> QED
  BY <1>1, <1>2, NothingHeld, InFlightSets DEF InDecoders, Q, E, R, B, I

\* Every step of the pipeline is a step of FlowFate, or changes no fate.
LEMMA FateStep ==
  ASSUME PipelineInv, [Next]_vars
  PROVE  [Fate!FateNext]_(Fate!fateVars)
<1> DEFINE down == IF Up THEN "up" ELSE stage
<1>0. /\ PipelineInv' /\ FateShown /\ FateShown' /\ FateOf \in [Flows -> Fate!Fates]
      /\ FateOf' \in [Flows -> Fate!Fates]
  BY PipelineStep, FateIsShown, FateIsShownNext, FateIsAFunction, FateIsAFunctionNext
<1>1. CASE Quiet
  <2>1. InFlight' = InFlight /\ UNCHANGED <<sent, outcome>> /\ Settled' = Settled
        /\ (stage' = "gave up" <=> stage = "gave up") /\ down' = down
    BY <1>1 DEF Quiet, KeepsFlows, Settled
  <2>2. Seen' = Seen
    BY <2>1 DEF Seen
  <2>3. \A f \in Flows : f \in outcome.written \/ f \in outcome.dropped \/ f \in InFlight \/ f \notin Seen
    BY DEF Seen, Settled
  <2>4. ASSUME NEW f \in Flows PROVE FateOf'[f] = FateOf[f]
    <3>1. outcome' = outcome /\ InFlight' = InFlight /\ Seen' = Seen
      BY <2>1, <2>2
    <3>2. (stage' = "gave up") = (stage = "gave up")
      BY <2>1
    <3>3. CASE f \in outcome.written
      <4>1. FateOf[f] = "written"
        BY <1>0, <3>3 DEF FateShown
      <4>2. f \in outcome'.written
        BY <3>1, <3>3
      <4>3. FateOf'[f] = "written"
        BY <1>0, <4>2 DEF FateShown
      <4> QED
        BY <4>1, <4>3
    <3>4. CASE f \in outcome.dropped
      <4>1. FateOf[f] = "dropped"
        BY <1>0, <3>4 DEF FateShown
      <4>2. f \in outcome'.dropped
        BY <3>1, <3>4
      <4>3. FateOf'[f] = "dropped"
        BY <1>0, <4>2 DEF FateShown
      <4> QED
        BY <4>1, <4>3
    <3>5. CASE f \in InFlight
      <4>1. f \in InFlight'
        BY <3>1, <3>5
      <4>2. CASE stage = "gave up"
        <5>1. FateOf[f] = "lost"
          BY <1>0, <3>5, <4>2 DEF FateShown
        <5>2. stage' = "gave up"
          BY <3>2, <4>2
        <5>3. FateOf'[f] = "lost"
          BY <1>0, <4>1, <5>2 DEF FateShown
        <5> QED
          BY <5>1, <5>3
      <4>3. CASE stage # "gave up"
        <5>1. FateOf[f] = "decoded"
          BY <1>0, <3>5, <4>3 DEF FateShown
        <5>2. stage' # "gave up"
          BY <3>2, <4>3
        <5>3. FateOf'[f] = "decoded"
          BY <1>0, <4>1, <5>2 DEF FateShown
        <5> QED
          BY <5>1, <5>3
      <4> QED
        BY <4>2, <4>3
    <3>6. CASE f \notin Seen
      <4>1. FateOf[f] = "unseen"
        BY <1>0, <3>6 DEF FateShown
      <4>2. f \notin Seen'
        BY <3>1, <3>6
      <4>3. FateOf'[f] = "unseen"
        BY <1>0, <4>2 DEF FateShown
      <4> QED
        BY <4>1, <4>3
    <3> QED
      BY <2>3, <3>3, <3>4, <3>5, <3>6
  <2>5. FateOf' = FateOf
    BY <1>0, <2>4
  <2> QED
    BY <2>1, <2>5 DEF Fate!fateVars
<1>2. CASE DecodesFlows /\ Up /\ stage' = stage
  <2>1. UNCHANGED <<sent, outcome>> /\ InFlight \subseteq InFlight' /\ (InFlight' \ InFlight) \cap Seen = {}
        /\ Settled' = Settled /\ stage' = stage /\ stage # "gave up"
    BY <1>2 DEF DecodesFlows, Settled, Up
  <2>2. Seen = InFlight \cup outcome.written \cup outcome.dropped
        /\ Seen' = InFlight' \cup outcome.written \cup outcome.dropped
    BY <2>1 DEF Seen, Settled
  <2>3. ASSUME NEW f \in Flows, FateOf'[f] # FateOf[f]
        PROVE  FateOf[f] = "unseen" /\ FateOf'[f] = "decoded"
    BY <1>0, <2>1, <2>2, <2>3 DEF FateShown
  <2>4. Fate!Moves("unseen", "decoded")
    BY <1>0, <2>3 DEF Fate!Moves
  <2>5. down = "up" /\ down' = down
    BY <1>2 DEF Up
  <2> QED
    BY <2>4, <2>5 DEF Fate!FateNext, Fate!Work
<1>3. CASE SettlesFlows /\ Up /\ stage' = stage
  <2>1. InFlight' = InFlight \ I /\ I \subseteq InFlight /\ stage' = stage /\ stage # "gave up"
    BY <1>3 DEF SettlesFlows, Up
  <2>2. Seen = InFlight \cup outcome.written \cup outcome.dropped
        /\ Seen' = InFlight' \cup outcome'.written \cup outcome'.dropped
    BY DEF Seen, Settled
  <2>3. down = "up" /\ down' = down
    BY <1>3 DEF Up
  <2>4. CASE outcome'.written = outcome.written \cup I /\ outcome'.dropped = outcome.dropped
    <3>1. ASSUME NEW f \in Flows, FateOf'[f] # FateOf[f]
          PROVE  FateOf[f] = "decoded" /\ FateOf'[f] = "written"
      BY <1>0, <2>1, <2>2, <2>4, <3>1 DEF FateShown
    <3>2. Fate!Moves("decoded", "written")
      BY <1>0, <3>1 DEF Fate!Moves
    <3> QED
      BY <2>3, <3>2 DEF Fate!FateNext, Fate!Work
  <2>5. CASE outcome'.written = outcome.written /\ outcome'.dropped = outcome.dropped \cup I
    <3>1. ASSUME NEW f \in Flows, FateOf'[f] # FateOf[f]
          PROVE  FateOf[f] = "decoded" /\ FateOf'[f] = "dropped"
      BY <1>0, <2>1, <2>2, <2>5, <3>1 DEF FateShown
    <3>2. Fate!Moves("decoded", "dropped")
      BY <1>0, <3>1 DEF Fate!Moves
    <3> QED
      BY <2>3, <3>2 DEF Fate!FateNext, Fate!Work
  <2> QED
    BY <1>3, <2>4, <2>5 DEF SettlesFlows
<1>4. CASE PipelineDrained /\ KeepsFlows
  <2>1. /\ stage = "draining" /\ stage' = "drained" /\ writer = "done"
        /\ InFlight' = InFlight /\ outcome' = outcome
    BY <1>4 DEF PipelineDrained, KeepsFlows
  <2>2. InFlight = {} /\ Seen' = Seen /\ Seen = outcome.written \cup outcome.dropped
    BY <2>1, DrainedIsEmpty DEF Seen, Settled
  <2>3. \A f \in Flows : FateOf'[f] = FateOf[f] /\ FateOf[f] # "decoded"
    BY <1>0, <2>1, <2>2 DEF FateShown
  <2>4. FateOf' = FateOf
    BY <1>0, <2>3
  <2>5. down = "up" /\ down' = "drained"
    BY <2>1 DEF Up
  <2> QED
    BY <2>3, <2>4, <2>5 DEF Fate!FateNext, Fate!Drained
<1>5. CASE GiveUp /\ KeepsFlows
  <2>1. /\ stage = "report" /\ stage' = "gave up" /\ InFlight' = InFlight /\ outcome' = outcome
    BY <1>5 DEF GiveUp, KeepsFlows
  <2>2. Seen' = Seen /\ Seen = InFlight \cup outcome.written \cup outcome.dropped
    BY <2>1 DEF Seen, Settled
  <2>3. ASSUME NEW f \in Flows
        PROVE  /\ FateOf'[f] # "decoded"
               /\ FateOf'[f] # FateOf[f] => FateOf[f] = "decoded" /\ FateOf'[f] = "lost"
    BY <1>0, <2>1, <2>2 DEF FateShown
  <2>4. Fate!Moves("decoded", "lost")
    BY <1>0, <2>3 DEF Fate!Moves
  <2>5. down = "up" /\ down' = "gave up"
    BY <2>1 DEF Up
  <2> QED
    BY <2>3, <2>4, <2>5 DEF Fate!FateNext, Fate!GaveUp
<1> QED
  BY <1>1, <1>2, <1>3, <1>4, <1>5, KindsOfStep

(***************************************************************************)
(* The pipeline implements FlowFate: with any capacities and any number of *)
(* decoders, whatever INSERTs fail and whenever the process is stopped, a  *)
(* decoded flow is written once, or dropped and counted, or lost at the    *)
(* deadline (Run, shutdown, write).                                        *)
(***************************************************************************)
THEOREM PipelineImplementsFate == Spec => EveryFlowHasItsFate
<1>1. Init => Fate!FateInit
  <2> SUFFICES ASSUME Init PROVE Fate!FateInit
    OBVIOUS
  <2>1. PipelineInv /\ stage = "running" /\ outcome.written = {} /\ outcome.dropped = {}
    BY PipelineInitially DEF Init
  <2>2. InFlight = {}
    <3>1. /\ flows.queue = <<>> /\ enricher.flow = <<>> /\ enriched = <<>> /\ buf = <<>> /\ inserting = <<>>
          /\ \A d \in Decoders : decoder[d] = <<>>
      BY DEF Init
    <3>2. \A d \in Decoders : Held(decoder[d]) = {}
      BY <3>1, NothingHeld
    <3> QED
      BY <3>1, <3>2, NothingHeld, InFlightSets DEF InDecoders, Q, E, R, B, I
  <2>3. Seen = {}
    BY <2>1, <2>2 DEF Seen, Settled
  <2>4. \A f \in Flows : FateOf[f] = "unseen"
    BY <2>1, <2>3, FateIsShown DEF FateShown
  <2>5. FateOf = [f \in Flows |-> "unseen"]
    BY <2>1, <2>4, FateIsAFunction
  <2>6. Up
    BY <2>1 DEF Up
  <2> QED
    BY <2>5, <2>6 DEF Fate!FateInit
<1>2. PipelineInv /\ [Next]_vars => [Fate!FateNext]_(Fate!fateVars)
  BY FateStep
<1> QED
  BY <1>1, <1>2, PipelineInvariant, PTL DEF Spec, EveryFlowHasItsFate, Fate!FateSpec
=============================================================================
