---------------------------- MODULE SharedObject ----------------------------
(***************************************************************************)
(* What reference counting promises: an object lives for as long as there  *)
(* is a reference to it, a new reference is only made from another one,    *)
(* and once the last one is given up the object is destroyed, once.        *)
(***************************************************************************)
CONSTANT Refs   \* the references that may exist

VARIABLES refs,  \* the references that exist
          alive  \* the object has not been destroyed

vars == <<refs, alive>>

Init == alive = TRUE /\ \E r \in Refs : refs = {r}

Share(n) == /\ refs # {} /\ n \in Refs \ refs
            /\ refs' = refs \union {n}
            /\ UNCHANGED alive

GiveUp(r) == /\ r \in refs
             /\ refs' = refs \ {r}
             /\ UNCHANGED alive

Destroy == /\ alive /\ refs = {}
           /\ alive' = FALSE
           /\ UNCHANGED refs

Next == (\E r \in Refs : Share(r) \/ GiveUp(r)) \/ Destroy

Spec == Init /\ [][Next]_vars /\ WF_vars(Destroy)
=============================================================================
