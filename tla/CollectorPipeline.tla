------------------------- MODULE CollectorPipeline -------------------------
(***************************************************************************)
(* The pipeline of the collector process: a reader and its decoders per    *)
(* UDP listener, the enricher, the batch writer with its inserter, and the *)
(* shutdown that drains them stage by stage.  Channels are bounded and     *)
(* senders block; a stage ends when its input is closed and empty.         *)
(*                                                                         *)
(* Metrics, logs and the pools of buffers are left out.  The writer is     *)
(* given a context that is never cancelled, so it stops on its input only. *)
(***************************************************************************)
EXTENDS Naturals, Sequences, FiniteSets

CONSTANTS
  Listeners,    \* netflow, sflow
  Decoders,     \* decoder goroutines, as <<listener, number>>
  MaxFlows,     \* bound: flows decoded
  PacketFlows,  \* how many flows a packet holds; 0 for a template or an error
  MaxPackets,   \* bound: packets received
  PacketCap, FlowCap, EnrichedCap,   \* capacities of the channels
  BatchSize,
  StoreFails,   \* INSERTs may fail
  Deadline      \* the shutdown timeout may pass

Flows == 1 .. MaxFlows

ASSUME PipelineAssumption ==
  /\ \A d \in Decoders : d[1] \in Listeners
  /\ MaxFlows \in Nat /\ PacketFlows \subseteq Nat /\ MaxPackets \in Nat
  /\ {PacketCap, FlowCap, EnrichedCap, BatchSize} \subseteq Nat \ {0}
  /\ StoreFails \in BOOLEAN /\ Deadline \in BOOLEAN

VARIABLES
  received,   \* packets read from the sockets
  reader,     \* of a listener: reading, holding a packet, or done (its channel closed)
  packets,    \* the packets queued in a listener's channel
  decoder,    \* the flows a decoder still has to send; none: it waits for a packet
  ended,      \* the decoders that have returned
  flows,      \* the channel of decoded flows, and whether it is closed
  enricher,   \* the flow in the enricher's hands, if any, and whether it has returned
  enriched,   \* the channel of enriched flows; closed when the enricher returns
  buf,        \* the batch the writer fills
  writer,     \* where the writer's loop stands
  inserting,  \* the batch of the running INSERT
  sent,       \* how often a flow was part of an INSERT
  outcome,    \* the flows written and the flows dropped
  stage,      \* of Run and shutdown
  closed,     \* the listeners whose socket is closed
  pendingRead \* what Metrics.Pending has read so far

intake == <<received, reader, packets, closed, decoder, ended>>
channels == <<flows, enricher, enriched>>
output == <<buf, writer, inserting, sent, outcome>>
control == <<stage, pendingRead>>
vars == <<intake, channels, output, control>>

Unread == [done |-> 0, received |-> 0, next |-> "first"]

\* Where a decoded flow is.
Held(s) == {s[i] : i \in DOMAIN s}
InDecoders == UNION {Held(decoder[d]) : d \in Decoders}
InChannels == Held(flows.queue) \cup Held(enricher.flow) \cup Held(enriched)
InWriter == Held(buf) \cup Held(inserting)
InFlight == InDecoders \cup InChannels \cup InWriter
Settled == outcome.written \cup outcome.dropped
Seen == InFlight \cup Settled

Init ==
  /\ received = 0
  /\ reader = [l \in Listeners |-> "reading"] /\ packets = [l \in Listeners |-> 0]
  /\ decoder = [d \in Decoders |-> <<>>] /\ ended = {}
  /\ flows = [queue |-> <<>>, closed |-> FALSE]
  /\ enricher = [flow |-> <<>>, ended |-> FALSE] /\ enriched = <<>>
  /\ buf = <<>> /\ writer = "loop" /\ inserting = <<>>
  /\ sent = [f \in Flows |-> 0] /\ outcome = [written |-> {}, dropped |-> {}]
  /\ stage = "running" /\ closed = {} /\ pendingRead = Unread

\* The process is there: nothing happens after Run has returned.
Up == stage \notin {"drained", "gave up"}

-----------------------------------------------------------------------------
(* Listeners. *)

ReadPacket(l) ==
  /\ Up /\ reader[l] = "reading" /\ l \notin closed /\ received < MaxPackets
  /\ received' = received + 1
  /\ reader' = [reader EXCEPT ![l] = "holding"]
  /\ UNCHANGED <<packets, closed, decoder, ended, channels, output, control>>

\* A packet already read is queued, also after the stop.
QueuePacket(l) ==
  /\ Up /\ reader[l] = "holding" /\ packets[l] < PacketCap
  /\ packets' = [packets EXCEPT ![l] = @ + 1]
  /\ reader' = [reader EXCEPT ![l] = "reading"]
  /\ UNCHANGED <<received, closed, decoder, ended, channels, output, control>>

\* A read that fails, as it does on a closed socket, ends the reader once the
\* context is cancelled; the reader closes its channel.
ReaderEnds(l) ==
  /\ Up /\ reader[l] = "reading" /\ stage # "running"
  /\ reader' = [reader EXCEPT ![l] = "done"]
  /\ UNCHANGED <<received, packets, closed, decoder, ended, channels, output, control>>

\* A packet becomes its flows; one without flows is done with at once.
Decode(d) ==
  /\ Up /\ decoder[d] = <<>> /\ d \notin ended /\ packets[d[1]] > 0
  /\ packets' = [packets EXCEPT ![d[1]] = @ - 1]
  /\ \E n \in PacketFlows :
       /\ Cardinality(Seen) + n <= MaxFlows
       /\ decoder' = [decoder EXCEPT ![d] = [i \in 1 .. n |-> Cardinality(Seen) + i]]
  /\ UNCHANGED <<received, reader, closed, ended, channels, output, control>>

\* The flows of a packet are sent one by one; the decoder blocks on a full channel.
SendFlow(d) ==
  /\ Up /\ decoder[d] # <<>> /\ Len(flows.queue) < FlowCap
  /\ flows' = [flows EXCEPT !.queue = Append(@, Head(decoder[d]))]
  /\ decoder' = [decoder EXCEPT ![d] = Tail(@)]
  /\ UNCHANGED <<received, reader, packets, closed, ended, enricher, enriched, output, control>>

DecoderEnds(d) ==
  /\ Up /\ decoder[d] = <<>> /\ d \notin ended /\ packets[d[1]] = 0 /\ reader[d[1]] = "done"
  /\ ended' = ended \cup {d}
  /\ UNCHANGED <<received, reader, packets, closed, decoder, channels, output, control>>

-----------------------------------------------------------------------------
(* Enricher. *)

Enrich ==
  /\ Up /\ enricher.flow = <<>> /\ flows.queue # <<>>
  /\ enricher' = [enricher EXCEPT !.flow = <<Head(flows.queue)>>]
  /\ flows' = [flows EXCEPT !.queue = Tail(@)]
  /\ UNCHANGED <<intake, enriched, output, control>>

SendEnriched ==
  /\ Up /\ enricher.flow # <<>> /\ Len(enriched) < EnrichedCap
  /\ enriched' = enriched \o enricher.flow
  /\ enricher' = [enricher EXCEPT !.flow = <<>>]
  /\ UNCHANGED <<intake, flows, output, control>>

EnricherEnds ==
  /\ Up /\ enricher.flow = <<>> /\ flows.queue = <<>> /\ flows.closed /\ ~enricher.ended
  /\ enricher' = [enricher EXCEPT !.ended = TRUE]
  /\ UNCHANGED <<intake, flows, enriched, output, control>>

-----------------------------------------------------------------------------
(* Batch writer: the loop, and the inserter it hands full batches to. *)

Full(batch) == Len(batch) >= BatchSize

Receive ==
  /\ Up /\ writer = "loop" /\ enriched # <<>>
  /\ buf' = Append(buf, Head(enriched)) /\ enriched' = Tail(enriched)
  /\ writer' = IF Full(buf') THEN "hand-off" ELSE "loop"
  /\ UNCHANGED <<intake, flows, enricher, inserting, sent, outcome, control>>

FlushTick ==
  /\ Up /\ writer = "loop" /\ buf # <<>>
  /\ writer' = "hand-off"
  /\ UNCHANGED <<intake, channels, buf, inserting, sent, outcome, control>>

\* The batch in the buffer is forgotten when the input closes.
StopAtOnce == "closing"

\* A closed input is read again.
KeepReading == "loop"

\* What the loop does when its input is closed: the last batch is still handed off.
AtEnd == IF buf = <<>> THEN "closing" ELSE "last hand-off"

InputClosed ==
  /\ Up /\ writer = "loop" /\ enriched = <<>> /\ enricher.ended
  /\ writer' = AtEnd
  /\ UNCHANGED <<intake, channels, buf, inserting, sent, outcome, control>>

\* The send on pending succeeds once the inserter is idle.
HandOff ==
  /\ Up /\ writer \in {"hand-off", "last hand-off"} /\ inserting = <<>>
  /\ inserting' = buf /\ buf' = <<>>
  /\ writer' = IF writer = "hand-off" THEN "loop" ELSE "closing"
  /\ UNCHANGED <<intake, channels, sent, outcome, control>>

\* pending is closed; Run returns once the inserter has returned.
WriterEnds ==
  /\ Up /\ writer = "closing" /\ inserting = <<>>
  /\ writer' = "done"
  /\ UNCHANGED <<intake, channels, buf, inserting, sent, outcome, control>>

\* A failed batch is dropped: the INSERT may have reached some of the views.
AfterFailure == <<>>

\* The INSERT ends within flushTimeout, one way or the other.
Write ==
  /\ Up /\ inserting # <<>>
  /\ sent' = [f \in Flows |-> IF f \in Held(inserting) THEN sent[f] + 1 ELSE sent[f]]
  /\ \/ /\ outcome' = [outcome EXCEPT !.written = @ \cup Held(inserting)]
        /\ inserting' = <<>>
     \/ /\ StoreFails
        /\ outcome' = [outcome EXCEPT !.dropped = @ \cup Held(inserting)]
        /\ inserting' = AfterFailure
  /\ UNCHANGED <<intake, channels, buf, writer, control>>

-----------------------------------------------------------------------------
(* Run and shutdown. *)

\* The context of Run is cancelled.
Stop ==
  /\ stage = "running" /\ stage' = "stopping"
  /\ UNCHANGED <<intake, channels, output, pendingRead>>

CloseSocket(l) ==
  /\ stage = "stopping" /\ l \notin closed
  /\ closed' = closed \cup {l}
  /\ UNCHANGED <<received, reader, packets, decoder, ended, channels, output, control>>

\* The channel is closed as soon as the sockets are.
SocketsClosed == closed = Listeners

\* Wait of both listeners: the decoders, the only senders on flows, are done.
DecodersDone == closed = Listeners /\ ended = Decoders

CloseFlows ==
  /\ stage = "stopping" /\ DecodersDone
  /\ flows' = [flows EXCEPT !.closed = TRUE] /\ stage' = "draining"
  /\ UNCHANGED <<intake, enricher, enriched, output, pendingRead>>

PipelineDrained ==
  /\ stage = "draining" /\ writer = "done"
  /\ stage' = "drained"
  /\ UNCHANGED <<intake, channels, output, pendingRead>>

\* The timer passes first, while waiting for the decoders or for the writer.
DeadlinePasses ==
  /\ Deadline /\ stage \in {"stopping", "draining"} /\ closed = Listeners
  /\ stage' = "report"
  /\ UNCHANGED <<intake, channels, output, pendingRead>>

WriterReceived == Cardinality(InWriter \cup Settled)
WriterDone == Cardinality(Settled)

\* Received is loaded before the outcomes.
ReceivedFirst == "received"

\* The outcomes are loaded first.
LoadedFirst == "done"

\* Metrics.Pending: two loads, with the pipeline running in between.
LoadFirst ==
  /\ stage = "report" /\ pendingRead.next = "first"
  /\ pendingRead' = IF LoadedFirst = "done"
                    THEN [done |-> WriterDone, received |-> 0, next |-> "second"]
                    ELSE [done |-> 0, received |-> WriterReceived, next |-> "second"]
  /\ UNCHANGED <<intake, channels, output, stage>>

\* The second load and the report; Run returns.
GiveUp ==
  /\ stage = "report" /\ pendingRead.next = "second"
  /\ pendingRead' = IF LoadedFirst = "done"
                    THEN [pendingRead EXCEPT !.received = WriterReceived, !.next = "none"]
                    ELSE [pendingRead EXCEPT !.done = WriterDone, !.next = "none"]
  /\ stage' = "gave up"
  /\ UNCHANGED <<intake, channels, output>>

ListenerStep(l) == QueuePacket(l) \/ (l \in closed /\ ReaderEnds(l))
DecoderStep(d) == Decode(d) \/ SendFlow(d) \/ DecoderEnds(d)
EnricherStep == Enrich \/ SendEnriched \/ EnricherEnds
WriterStep == Receive \/ InputClosed \/ HandOff \/ WriterEnds
ShutdownStep ==
  \/ \E l \in Listeners : CloseSocket(l)
  \/ CloseFlows \/ PipelineDrained \/ LoadFirst \/ GiveUp

Next ==
  \/ \E l \in Listeners : ReadPacket(l) \/ QueuePacket(l) \/ ReaderEnds(l)
  \/ \E d \in Decoders : DecoderStep(d)
  \/ EnricherStep \/ WriterStep \/ FlushTick \/ Write
  \/ Stop \/ ShutdownStep \/ DeadlinePasses

Spec == Init /\ [][Next]_vars

(***************************************************************************)
(* Fairness.  Every goroutine that can go on does, and an INSERT ends (it  *)
(* has a timeout).  The ticker keeps ticking, so a batch that waits is     *)
(* handed off.  Neither packets nor the stop nor the deadline have to come.*)
(***************************************************************************)
Fairness ==
  /\ \A l \in Listeners : WF_vars(ListenerStep(l))
  /\ \A d \in Decoders : WF_vars(DecoderStep(d))
  /\ WF_vars(EnricherStep) /\ WF_vars(WriterStep) /\ WF_vars(FlushTick) /\ WF_vars(Write)
  /\ WF_vars(ShutdownStep)

FairSpec == Spec /\ Fairness

-----------------------------------------------------------------------------
(* Properties. *)

(***************************************************************************)
(* "The channel must not be closed until they have all stopped, otherwise  *)
(* a decoder mid-send panics" (shutdown): no decoder has anything to send  *)
(* on a closed channel, and none can take a packet that would give it      *)
(* something.                                                              *)
(***************************************************************************)
NoSendOnClosed ==
  flows.closed => \A d \in Decoders : decoder[d] = <<>> /\ reader[d[1]] = "done" /\ packets[d[1]] = 0

FateOf ==
  LET inFlight == InFlight
  IN [f \in Flows |-> CASE sent[f] > 1 -> "counted twice"
                        [] f \in outcome.written -> "written"
                        [] f \in outcome.dropped -> "dropped"
                        [] f \notin Settled \cup inFlight -> "unseen"
                        [] OTHER -> IF stage = "gave up" THEN "lost" ELSE "decoded"]

Fate == INSTANCE FlowFate
        WITH fate <- FateOf, down <- IF Up THEN "up" ELSE stage

(***************************************************************************)
(* "Each stage stops only once its input is closed, so no decoded flow is  *)
(* dropped" (shutdown): through back pressure, failing INSERTs and a stop  *)
(* at any time, a decoded flow is written, or dropped and counted, and is  *)
(* lost only when the deadline passes; and it is part of one INSERT at     *)
(* most, since "re-sending the batch would double count" (write).          *)
(***************************************************************************)
EveryFlowHasItsFate == Fate!FateSpec

(***************************************************************************)
(* "This order can never underflow" (Metrics.Pending): the number of flows *)
(* not written that the shutdown reports is not negative, whatever the     *)
(* writer does between the two loads.                                      *)
(***************************************************************************)
PendingNeverUnderflows == pendingRead.next = "none" => pendingRead.received >= pendingRead.done

(***************************************************************************)
(* A stop is followed by the end of Run, from any fill of the channels,    *)
(* also when the deadline never passes: the cascade drains by itself.      *)
(***************************************************************************)
ShutdownEnds == stage = "stopping" ~> ~Up
=============================================================================
