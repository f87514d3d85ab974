------------------------------- MODULE Dictionary -------------------------------
(***************************************************************************)
(* What the input database promises its callers, without a tree: a key     *)
(* that has a value keeps it, and a key gets its value once, from the deck *)
(* or from the first default that is asked for.                            *)
(***************************************************************************)
CONSTANTS Key, Value, Missing

VARIABLE dict

Init == dict = [k \in Key |-> Missing]

\* A key that had none gets a value; the others keep what they have.
Define(old, new) ==
  \E k \in Key :
    /\ old[k] = Missing /\ new[k] \in Value
    /\ new = [old EXCEPT ![k] = new[k]]

FreeAll(new) == \A k \in Key : new[k] = Missing

\* dict may be a long expression of the implementation: it is evaluated once.
Next == \E old \in {dict}, new \in {dict'} : FreeAll(new) \/ Define(old, new)

Spec == Init /\ [][Next]_dict
================================================================================
