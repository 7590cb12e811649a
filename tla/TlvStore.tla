------------------------------ MODULE TlvStore ------------------------------
(***************************************************************************)
(* What a tag-length-value store promises to the databases built on it     *)
(* (btstack_tlv.h): a map from tags to values in which a store or a delete *)
(* takes effect at once and for good, also if the power fails in the       *)
(* middle of it: then it has happened or it has not.                       *)
(***************************************************************************)
CONSTANTS Tag, Value, Absent

VARIABLES
    db,      \* the value of every tag, Absent if it has none
    call,    \* the store or delete under way, NoCall if there is none
    result   \* how the last call ended: "ok", "full", "power", or "none"

storeVars == << db, call, result >>

NoCall == [tag |-> 0, value |-> Absent]

StoreInit ==
    /\ db = [t \in Tag |-> Absent]
    /\ call = NoCall
    /\ result = "power"

\* store_tag, or delete_tag when value is Absent.
Begin(t, value) ==
    /\ call = NoCall
    /\ call' = [tag |-> t, value |-> value]
    /\ result' = "none"
    /\ UNCHANGED db

TakeEffect ==
    /\ call # NoCall
    /\ db' = [db EXCEPT ![call.tag] = call.value]
    /\ UNCHANGED << call, result >>

Return ==
    /\ call # NoCall
    /\ db[call.tag] = call.value
    /\ call' = NoCall
    /\ result' = "ok"
    /\ UNCHANGED db

\* store_tag reports that there is no space left.  A delete never fails.
ReturnFull ==
    /\ call # NoCall /\ call.value # Absent
    /\ call' = NoCall
    /\ result' = "full"
    /\ UNCHANGED db

PowerFails ==
    /\ call' = NoCall
    /\ result' = "power"
    /\ UNCHANGED db

StoreNext ==
    \/ \E t \in Tag, value \in Value \cup {Absent} : Begin(t, value)
    \/ TakeEffect \/ Return \/ ReturnFull \/ PowerFails

StoreSpec == StoreInit /\ [][StoreNext]_storeVars
=============================================================================
