--------------------------- MODULE MCHfsmExamples ---------------------------
(* All five programs, each with its main() and with any sequence of events *)
(* and resets.  Payloads on both sides of every guard.                     *)
EXTENDS HfsmExamples

MCStates == AllStates
MCTypes  == {"PedestrianRequest"} \cup
            UNION {UNION {{e.type : e \in RulesOf[p][i].on} : i \in DOMAIN RulesOf[p]}
                      : p \in Programs}
MCEvents == {E(t, n) : t \in MCTypes, n \in Payloads}
=============================================================================
