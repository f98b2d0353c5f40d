------------------------------- MODULE MCPlant -------------------------------
(* The plant of scenarioFault() in main.cpp: a line, two stations and      *)
(* three devices, one of them not critical, with their plans.              *)
EXTENDS Plant

MCChildren ==
    [line |-> <<"heat", "work">>, heat |-> <<"heater", "sensor">>,
     work |-> <<"dp200">>, heater |-> <<>>, sensor |-> <<>>, dp200 |-> <<>>]

MCPlan ==
    [line |-> <<"POWER">>, heat |-> <<"POWER">>, work |-> <<"POWER">>,
     heater |-> <<"POWER", "PREHEAT", "SELFCHECK", "HOME">>,
     sensor |-> <<"POWER">>, dp200 |-> <<"POWER", "HOME", "SELFCHECK">>]

(* The rounds of runToReady() are enough for these plans. *)
ASSUME DemoPlansFit == PlansFit
=============================================================================
