---------------------------- MODULE MCHarnessRun ----------------------------
(* The search agent's chain with every kind of pattern in it: router, then  *)
(* routes over a loop behind withReferences and a guarded pair of branches,  *)
(* a background hook, and the synthesis.                                     *)
EXTENDS HarnessRun

MCTop == <<"router", "routes", "hook", "synth">>

MCKind ==
  [router |-> "router", routes |-> "routes", hook |-> "hook", synth |-> "compactExecution",
   web |-> "references", loop |-> "leaf", guard |-> "guardrail", branches |-> "parallel",
   left |-> "leaf", right |-> "chain", step |-> "leaf", judge |-> "leaf", cleanup |-> "leaf"]

MCChildren ==
  [n \in DOMAIN MCKind |->
     CASE n = "routes" -> <<"web", "guard">> [] n = "web" -> <<"loop">> [] n = "guard" -> <<"branches">>
       [] n = "branches" -> <<"left", "right">> [] n = "right" -> <<"step", "judge">>
       [] n = "hook" -> <<"cleanup">> [] OTHER -> <<>>]

(* A router whose errors are configured as recoverable, so that only the     *)
(* cleared route stops a failed turn.                                        *)
MCSeverity == [n \in ToSet(MCTop) |-> IF n \in {"router", "hook"} THEN "recoverable" ELSE "irrecoverable"]
MCStamps   == [n \in DOMAIN MCKind |-> CASE n \in {"loop", "step"} -> {"recoverable"}
                                         [] n \in {"left", "judge"} -> {"none"} [] OTHER -> {}]
MCCommit   == [n \in ToSet(MCTop) |-> IF n = "routes" THEN "last" ELSE "always"]
=============================================================================
