----------------------------- MODULE MCEventBus -----------------------------
(* Instances of EventBus: sync and async events of two priorities; one      *)
(* subscription takes everything (a category subscription), the other only *)
(* what its selector names.                                                *)
EXTENDS EventBus, TLC

CONSTANTS e_sync, e_sync2, e_urgent, e_low, s_all, s_one

MCSync == Events \cap {e_sync, e_sync2}
MCRank == [e \in Events |-> IF e = e_low THEN 3 ELSE 1]
MCSelects == [s \in Subs |-> IF s = s_all THEN Events ELSE {e_sync, e_low} \cap Events]
=============================================================================
