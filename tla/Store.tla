-------------------------------- MODULE Store ---------------------------------
(***************************************************************************)
(* What the handlers rely on of configuration.Read and Write: a value that *)
(* each caller loads whole, as the last caller saved it, and saves with    *)
(* one part of it changed.  A save rests on what its caller loaded last:   *)
(* it may undo what others saved since, in every part, and does not say    *)
(* so.  Only a fault loses the value, and then all of it.                  *)
(***************************************************************************)
EXTENDS Naturals

CONSTANTS Callers, Default, NoConfig

VARIABLES value, seen, faults

\* What one request may change at once.
Parts == {{"proxy", "subs"}, {"selected"}, {"auto"}, {"rules"}}

Forgotten(t) == [seen EXCEPT ![t] = NoConfig]

Init == value = Default /\ seen = [t \in Callers |-> NoConfig] /\ faults = 0

Load(t) ==
    /\ seen' = [seen EXCEPT ![t] = value]
    /\ UNCHANGED <<value, faults>>

Save(t) ==
    /\ \/ value' = Default
       \/ seen[t] # NoConfig /\ \E part \in Parts :
            \A p \in DOMAIN Default \ part : value'[p] = seen[t][p]
    /\ seen' \in {seen, Forgotten(t)}
    /\ UNCHANGED faults

GiveUp(t) == seen' = Forgotten(t) /\ UNCHANGED <<value, faults>>

Fault ==
    /\ faults' = faults + 1
    /\ value' \in {value, Default}
    /\ \/ \E t \in Callers : seen' = Forgotten(t)
       \/ seen' = [t \in Callers |-> NoConfig]

Next == Fault \/ \E t \in Callers : Load(t) \/ Save(t) \/ GiveUp(t)

Spec == Init /\ [][Next]_<<value, seen, faults>>
===============================================================================
