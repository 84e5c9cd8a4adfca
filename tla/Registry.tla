------------------------------ MODULE Registry ------------------------------
(***************************************************************************)
(* What the table of ids promises to the rest of the library: a set of     *)
(* registered records, each under its own id, in which a record is found   *)
(* by its id from its registration to its removal and at no other time.    *)
(* Module Interruptible uses the table in this form, as its set "bucket".  *)
(***************************************************************************)
CONSTANTS Rec, Id, NULL

VARIABLE idOf       \* the id of a registered record, NULL for the others

Init == idOf = [r \in Rec |-> NULL]

Register(r, x) ==
    /\ idOf[r] = NULL /\ \A q \in Rec : idOf[q] # x
    /\ idOf' = [idOf EXCEPT ![r] = x]

Remove(r) ==
    /\ idOf[r] # NULL
    /\ idOf' = [idOf EXCEPT ![r] = NULL]

Lookup(x) == IF \E r \in Rec : idOf[r] = x
             THEN CHOOSE r \in Rec : idOf[r] = x
             ELSE NULL

Next == \E r \in Rec : Remove(r) \/ \E x \in Id : Register(r, x)

Spec == Init /\ [][Next]_idOf
=============================================================================
