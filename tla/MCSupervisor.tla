---------------------------- MODULE MCSupervisor ----------------------------
EXTENDS Supervisor, TLC

\* s1 starts first.
Order(s) == IF s = "s1" THEN 1 ELSE 2

\* Every policy, over two services.
DeclSets == {[s \in Service |-> IF s = "s1" THEN "Always" ELSE "Never"],
             [s \in Service |-> "OnFailure"]}
=============================================================================
