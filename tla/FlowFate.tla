------------------------------ MODULE FlowFate ------------------------------
(***************************************************************************)
(* What the collector promises about a decoded flow: it is stored once, or *)
(* dropped and counted, and is lost only when the process gives up waiting *)
(* at the end.                                                             *)
(***************************************************************************)
CONSTANT Flows

VARIABLES fate,   \* of a flow: unseen, decoded, written, dropped or lost
          down    \* the process: up, drained or gave up

fateVars == <<fate, down>>

Fates == {"unseen", "decoded", "written", "dropped", "lost"}

FateInit == fate = [f \in Flows |-> "unseen"] /\ down = "up"

\* Some flows go from one state to the next, the others stay.
Moves(from, to) ==
  /\ fate' \in [Flows -> Fates]
  /\ \A f \in Flows : fate'[f] # fate[f] => fate[f] = from /\ fate'[f] = to

\* A packet is decoded; a batch is written, or dropped and counted.
Work == \/ Moves("unseen", "decoded")
        \/ Moves("decoded", "written")
        \/ Moves("decoded", "dropped")

\* The process ends with nothing in hand, or gives up what it has.
Drained == down' = "drained" /\ UNCHANGED fate /\ \A f \in Flows : fate[f] # "decoded"
GaveUp == down' = "gave up" /\ Moves("decoded", "lost") /\ \A f \in Flows : fate'[f] # "decoded"

FateNext == down = "up" /\ ((Work /\ UNCHANGED down) \/ Drained \/ GaveUp)

FateSpec == FateInit /\ [][FateNext]_fateVars
=============================================================================
