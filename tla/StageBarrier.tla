---------------------------- MODULE StageBarrier ----------------------------
(***************************************************************************)
(* What the stage rendezvous of LoadGenerator promises: stages are played  *)
(* one after the other by a shrinking group of workers; a worker arrives   *)
(* at the end of a stage with no work left, and the next stage only begins *)
(* once every member of the group has arrived or has been given up.        *)
(***************************************************************************)
EXTENDS Integers

CONSTANTS Workers, Stages

VARIABLES
  phase,    \* of the current stage: open, closing, closed
  round,    \* number of the current stage
  members,  \* workers that have been there from the start
  arrived,  \* members that have acknowledged the end of the stage
  busy      \* members that have requests to serve

vars == <<phase, round, members, arrived, busy>>

Init ==
  /\ phase = "closed"
  /\ round = 0
  /\ members = Workers
  /\ arrived = Workers
  /\ busy = {}

Open ==
  /\ phase = "closed"
  /\ round < Stages
  /\ phase' = "open"
  /\ round' = round + 1
  /\ arrived' = {}
  /\ UNCHANGED <<members, busy>>

Start(w) ==
  /\ phase # "closed"
  /\ w \in members \ arrived
  /\ busy' = busy \cup {w}
  /\ UNCHANGED <<phase, round, members, arrived>>

Finish(w) ==
  /\ busy' = busy \ {w}
  /\ UNCHANGED <<phase, round, members, arrived>>

Close ==
  /\ phase = "open"
  /\ phase' = "closing"
  /\ UNCHANGED <<round, members, arrived, busy>>

Arrive(w) ==
  /\ phase = "closing"
  /\ w \in members \ busy
  /\ arrived' = arrived \cup {w}
  /\ UNCHANGED <<phase, round, members, busy>>

\* The stage is over; members that have not arrived are given up.
Seal ==
  /\ phase = "closing"
  /\ phase' = "closed"
  /\ members' = arrived
  /\ busy' = busy \cap arrived
  /\ UNCHANGED <<round, arrived>>

\* Workers die, or are stopped.
Depart(W) ==
  /\ members' = members \ W
  /\ arrived' = arrived \ W
  /\ busy' = busy \ W
  /\ UNCHANGED <<phase, round>>

Next ==
  \/ Open \/ Close \/ Seal
  \/ \E w \in Workers : Start(w) \/ Finish(w) \/ Arrive(w)
  \/ \E W \in SUBSET Workers : Depart(W)

Spec == Init /\ [][Next]_vars

-----------------------------------------------------------------------------
\* Between two stages nobody has work left (the comment on stage_boundary_seq:
\* workers hold at the boundary until the main process has closed the stage).
Quiet == phase = "closed" => busy = {}
-----------------------------------------------------------------------------
\* A member has either arrived or may be busy, and Seal keeps those that arrived.
QuietInv ==
  /\ busy \subseteq members
  /\ arrived \cap busy = {}
  /\ phase = "closed" => members = arrived
=============================================================================
