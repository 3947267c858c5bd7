------------------------------ MODULE MCLedger ------------------------------
(* Ledger on small instances.                                              *)
EXTENDS Ledger

(* A sealing key.                                                          *)
OneKey == {[id |-> "k1", pub |-> "A"]}

(* Two sealing keys, the second one a rotation that reuses no id.          *)
RotatedKeys == {[id |-> "k1", pub |-> "A"], [id |-> "k2", pub |-> "B"]}

(* The same id bound to two keys.                                          *)
ReboundKeys == {[id |-> "k1", pub |-> "A"], [id |-> "k1", pub |-> "B"]}

=============================================================================
