---------------------------- MODULE MCUserSession ----------------------------
(* Plans for UserSession. *)
EXTENDS UserSession

Configuration(generator, rounds, limited, room, faults) ==
  [generator |-> generator, rounds |-> rounds, limited |-> limited, room |-> room, faults |-> faults]

\* Two stages of one conversation each; one stage in which the slot starts a
\* second conversation; a session whose prompts are cut to one earlier turn.
SoundPlans ==
  {Configuration("shared_prefix", <<2, 3>>, TRUE, 9, {"fail", "end"}),
   Configuration("shared_prefix", <<4>>, FALSE, 0, {"fail", "raise", "end"}),
   Configuration("shared_prefix", <<6>>, FALSE, 0, {}),
   Configuration("shared_prefix", <<5>>, TRUE, 1, {"fail", "end"}),
   Configuration("shared_prefix", <<5>>, TRUE, 2, {"end"}),
   Configuration("conversation_replay", <<5>>, TRUE, 9, {"fail", "raise", "end"})}

\* Prompts cut to two earlier turns, and requests that fail.
CutAndFailing == {Configuration("shared_prefix", <<5>>, TRUE, 2, {"fail"})}

\* Two stages of conversation replay.
TwoStages == {Configuration("conversation_replay", <<1, 2>>, TRUE, 9, {})}
=============================================================================
