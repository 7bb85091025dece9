---------------------------------- MODULE MCCase ----------------------------------
(***************************************************************************)
(* The pure algorithms of the program over bounded inputs.  A behaviour is *)
(* about one algorithm: its states hold one input each and what is made of *)
(* it, and the properties compare that with what should be made of it.     *)
(***************************************************************************)
VARIABLE case

Idle(alg) == case = [alg |-> "none", next |-> alg]
Make(alg, made) == case' = [alg |-> alg, made |-> made]
Forget == case.alg # "none" /\ case' = [alg |-> "none", next |-> case.alg]
On(alg, P(_)) == case.alg = alg => P(case.made)
=============================================================================
