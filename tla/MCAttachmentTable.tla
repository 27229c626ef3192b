-------------------------- MODULE MCAttachmentTable -------------------------
(* Instances of the attachment table: who may ask for which id. *)
EXTENDS AttachmentTable, TLC

CONSTANTS c1, c2, x, y, z

SharedId == [c \in Callers |-> IF c = c1 THEN {x, y} ELSE {y, z}]
OwnId    == [c \in Callers |-> IF c = c1 THEN {x} ELSE Ids \ {x}]
MCReleasers == Keys \cup Callers

Symmetric == Permutations(Keys) \cup Permutations(VMs)
=============================================================================
