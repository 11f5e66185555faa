---------------------------- MODULE MCAssistant ----------------------------
(* Small instances of the chat lane. *)
EXTENDS Assistant, TLC

CONSTANT First   \* who is signed in first

\* The fleet of default_policy: anthropic first, openai after it.
MCSpecs == <<"anthropic", "openai">>

\* A behaviour has its faults or its change of customer, not both: the other
\* budget is spent from the start.
MCInit ==
    /\ Start(0, MaxSwitches) \/ Start(MaxFaults, 0)
    /\ \A p \in Panels : panel[p].user = First

MCSpec == MCInit /\ [][Next]_vars /\ Fairness

=============================================================================
