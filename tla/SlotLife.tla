------------------------------- MODULE SlotLife -------------------------------
(***************************************************************************)
(* The life of a gclients slot as its users rely on it.  At any time one   *)
(* party alone holds the slot: nobody (free), the accept thread (joining), *)
(* the network, in a posted receive (waiting), one worker handling what    *)
(* arrived (serving) or one worker closing the connection (leaving).       *)
(***************************************************************************)
EXTENDS Naturals

CONSTANT Slots

VARIABLE stage

Stages == {"free", "joining", "waiting", "serving", "leaving"}

SlInit == stage = [p \in Slots |-> "free"]

Pass(p, from, to) ==
  /\ stage[p] = from
  /\ stage' = [stage EXCEPT ![p] = to]

(* There is one accept thread.                                             *)
Take(p)   == Pass(p, "free", "joining") /\ \A q \in Slots : stage[q] # "joining"
Post(p)   == Pass(p, "joining", "waiting")
Serve(p)  == Pass(p, "waiting", "serving")
Repost(p) == Pass(p, "serving", "waiting")
Drop(p)   == Pass(p, "waiting", "leaving")
Free(p)   == Pass(p, "leaving", "free")

SlNext == \E p \in Slots :
  Take(p) \/ Post(p) \/ Serve(p) \/ Repost(p) \/ Drop(p) \/ Free(p)

SlSpec == SlInit /\ [][SlNext]_stage
=============================================================================
