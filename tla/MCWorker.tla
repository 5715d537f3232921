------------------------------ MODULE MCWorker ------------------------------
(* Small instances of the worker for TLC. *)
EXTENDS Worker, TLC

OneWorkspace == [r \in Run |-> CHOOSE w \in Workspace : TRUE]
OneHarness == [r \in Run |-> CHOOSE h \in Harness : TRUE]
AllHarnesses == [o \in Owner |-> Harness]
SameScope == {<<s, s>> : s \in Scope}
OwnerSymmetry == Permutations(Owner)
=============================================================================
