----------------------------- MODULE MCCollector ----------------------------
(***************************************************************************)
(* Small instances of the collector: its pipeline from the sockets to the  *)
(* INSERTs, and the parts that turn packets into enriched flows.  They     *)
(* share no state, so each behaviour runs one part; the others rest in     *)
(* their first state, in which none of their fair actions is enabled.      *)
(***************************************************************************)
EXTENDS CollectorPipeline, TemplateDecoding, SampleDecoding, Enrichment

VARIABLE part

Tmpl(id, fields, len) ==
  [kind |-> "template", id |-> id, fields |-> fields, len |-> len, varLen |-> FALSE,
   options |-> FALSE, scope |-> 0]

Counters == Tmpl(256, <<"outBytes", "inBytes", "samplerID">>, 3)
Masks == [Tmpl(256, <<"mask", "addr4", "pktInterval", "pktSpace">>, 2) EXCEPT !.varLen = TRUE]
Samplers == [Tmpl(257, <<"samplerID", "interval">>, 2) EXCEPT !.options = TRUE, !.scope = 1]
Empty == Tmpl(257, <<"samplerID">>, 0)

TemplateSet(items) == [kind |-> "templates", options |-> FALSE, items |-> items]
OptionsSet(items) == [kind |-> "templates", options |-> TRUE, items |-> items]
DataSet(i, size) == [kind |-> "data", id |-> i, size |-> size]
Item(k) == [kind |-> k]

MCPackets ==
  {[proto |-> "v9", sets |-> <<TemplateSet(<<Counters, Empty>>)>>],
   [proto |-> "ipfix", sets |-> <<TemplateSet(<<Masks, Item("withdrawal"), Counters>>)>>],
   [proto |-> "ipfix", sets |-> <<OptionsSet(<<Item("withdrawal"), Samplers>>), DataSet(257, 3)>>],
   [proto |-> "v9", sets |-> <<OptionsSet(<<Samplers, Item("bad")>>), DataSet(257, 2)>>],
   [proto |-> "v9", sets |-> <<DataSet(256, 4), [kind |-> "cut"]>>]}

(* A decoder of each listener; both send on the one channel of flows. *)
MCDecoders == {<<"netflow", 1>>, <<"sflow", 1>>}

(* An interface of a link, an unknown one, and the reason of a discarded packet. *)
MCIfsWritten == {<<0, 7>>, <<0, ifUnknown>>, <<1, 7>>}

MCExporters == {<<"r1", 1>>, <<"r1", 2>>}
MCTimes == {-3, -2, 0, 1, 2}
MCOverride == [r \in {"r1"} |-> 3]

CollectorInit ==
  /\ part \in {"pipeline", "templates", "samples", "enrichment"}
  /\ Init /\ TDInit /\ SDInit /\ ENInit

CollectorNext ==
  /\ part' = part
  /\ \/ part = "pipeline" /\ Next /\ UNCHANGED <<tdVars, sdVars, enVars>>
     \/ part = "templates" /\ TDNext /\ UNCHANGED <<vars, sdVars, enVars>>
     \/ part = "samples" /\ SDNext /\ UNCHANGED <<vars, tdVars, enVars>>
     \/ part = "enrichment" /\ ENNext /\ UNCHANGED <<vars, tdVars, sdVars>>

CollectorSpec ==
  CollectorInit /\ [][CollectorNext]_<<part, vars, tdVars, sdVars, enVars>> /\ Fairness /\ TDFairness
=============================================================================
