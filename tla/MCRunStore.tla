----------------------------- MODULE MCRunStore -----------------------------
(* Small instances of RunStore: a write run and a readonly run in one        *)
(* workspace, and two Studio processes on the same project.                  *)
EXTENDS RunStore, TLC

OneWorkspace == [r \in Run |-> CHOOSE w \in Workspace : TRUE]
OneHarness == [r \in Run |-> CHOOSE h \in Harness : TRUE]
AllHarnesses == [o \in Owner |-> Harness]
OwnerSymmetry == Permutations(Owner)
=============================================================================
