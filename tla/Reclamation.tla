---------------------------- MODULE Reclamation -----------------------------
(***************************************************************************)
(* What reference counting promises about records that threads share: a    *)
(* record has holders from its creation on; only while it has some may     *)
(* another one join; once the last has left nobody comes back, and the     *)
(* record is freed, once.                                                  *)
(***************************************************************************)
CONSTANTS Obj, Holder

VARIABLES
    life,       \* of a record: none, live, freed
    holders     \* the holders of a live record

vars == <<life, holders>>

Init ==
    /\ life = [o \in Obj |-> "none"]
    /\ holders = [o \in Obj |-> {}]

Create(o, h) ==
    /\ life[o] = "none"
    /\ life' = [life EXCEPT ![o] = "live"]
    /\ holders' = [holders EXCEPT ![o] = {h}]

Join(o, h) ==
    /\ life[o] = "live" /\ holders[o] # {} /\ h \notin holders[o]
    /\ holders' = [holders EXCEPT ![o] = @ \cup {h}]
    /\ UNCHANGED life

Leave(o, h) ==
    /\ h \in holders[o]
    /\ holders' = [holders EXCEPT ![o] = @ \ {h}]
    /\ UNCHANGED life

Free(o) ==
    /\ life[o] = "live" /\ holders[o] = {}
    /\ life' = [life EXCEPT ![o] = "freed"]
    /\ UNCHANGED holders

Next == \E o \in Obj :
    \/ Free(o)
    \/ \E h \in Holder : Create(o, h) \/ Join(o, h) \/ Leave(o, h)

Spec == Init /\ [][Next]_vars

\* Nothing leaks: what has lost its last holder is freed.
Reclaims ==
    \A o \in Obj : life[o] = "live" /\ holders[o] = {} ~> life[o] = "freed"
=============================================================================
