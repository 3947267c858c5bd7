----------------------------- MODULE MCRelease ------------------------------
(* Instances of Release for TLC.                                           *)
EXTENDS Release

(* An ops key and the one it is rotated to.                                *)
MCOpsKeys == {[id |-> 1, pub |-> 1], [id |-> 2, pub |-> 2]}

MCForger == [id |-> 1, pub |-> 0]

(* --label with a name, and with the sha of the first commit.              *)
MCNames == {<<"name", 1>>}
MCShaLabels == {Sha(1)}
=============================================================================
