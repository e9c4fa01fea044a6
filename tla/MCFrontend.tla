----------------------------- MODULE MCFrontend -----------------------------
EXTENDS Frontend

CONSTANTS r1, r2, r3

Ranks == {0, 1}
Models == <<"transformer">>
Requests == {r1, r2, r3}

\* A workflow, and another of the same name with an operator nobody has profiled.
Bodies == {"short", "new"}
TasksOfBody == [b \in Bodies |-> IF b = "short" THEN <<"vae">> ELSE <<"lora">>]
Latencies == [op \in {"vae"} |-> 3]
Registered == {"A"} \X Bodies

\* A slack that one unfinished request exceeds, but not one that is complete.
RequestKinds == [r \in Requests |-> [name |-> "A", timed |-> r = r3, slack |-> 2, mayFail |-> r = r2]]
=============================================================================
