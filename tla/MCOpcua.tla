------------------------------ MODULE MCOpcua -------------------------------
(* A PLC with the nodes of the scenarios: variables of the types their     *)
(* names and reads say, an object 5001 with two methods, and the Objects   *)
(* folder 85, below which references form a cycle (51 back to 85) and one  *)
(* child, 31, has a string id.                                             *)
EXTENDS OpcuaScenarios, TLC

Scalars ==
    1001 :> "BOOLEAN" @@ 1002 :> "INT32" @@ 1003 :> "INT64" @@ 1004 :> "UINT32" @@
    1005 :> "FLOAT" @@ 1006 :> "DOUBLE" @@ 1007 :> "STRING" @@ 3001 :> "FLOAT" @@
    4001 :> "FLOAT" @@ 6001 :> "BYTESTRING" @@ 7001 :> "LOCALIZEDTEXT" @@
    8001 :> "UINT64" @@ 8002 :> "UINT64" @@ 8003 :> "INT64" @@ 9001 :> "DATETIME" @@
    31 :> "FLOAT" @@ 32 :> "FLOAT" @@ 33 :> "FLOAT"

Arrays == 2001 :> "INT32" @@ 2002 :> "FLOAT" @@ 2003 :> "DOUBLE"

MCVariables == DOMAIN Scalars \cup DOMAIN Arrays
MCNodes     == MCVariables \cup {51, 85, 5001, 5002, 5003}

MCNodeClass ==
    [n \in MCNodes |-> IF n \in {51, 85, 5001} THEN 1
                       ELSE IF n \in {5002, 5003} THEN 4 ELSE 2]
MCNodeType ==
    [n \in MCVariables |-> IF n \in DOMAIN Arrays THEN <<Arrays[n], TRUE>>
                           ELSE <<Scalars[n], FALSE>>]
MCRefs ==
    [n \in MCNodes |-> CASE n = 85 -> <<51, 1002, 31>> [] n = 51 -> <<1005, 85>>
                         [] n = 31 -> <<32>> [] n = 5001 -> <<5002, 5003>>
                         [] OTHER -> <<>>]

MCWritables == {MCVariables, MCVariables \ {1001, 1002}}

(* Two strings with a NUL: "ok\0rest", before whose NUL stands the string  *)
(* 2, and "\0rest", before whose NUL stands the empty one.                 *)
MCTruncated == 8 :> 2 @@ 9 :> 0

MCSubscriberCalls == {Connect, Disconnect, Subscribe(2001), Subscribe(31), Unsubscribe}

MCExplorerCalls ==
    {Connect, Read(1007, 13), Recurse(85, 1), Recurse(85, 2), Recurse(85, 3),
     Recurse(5001, 2), WriteAs(1007, "STRING", 0), WriteAs(1007, "STRING", 2),
     WriteAs(1007, "STRING", 8), WriteAs(1007, "STRING", 9), Read(2001, 13), History(2001),
     WriteArray(2001, "ARRAY_INT32", <<>>), WriteArray(2001, "ARRAY_INT32", <<0>>),
     WriteArray(2001, "ARRAY_INT32", <<3, 4>>),
     Write(2001, Scalar("INT32", 1), 0), Write(2003, Array("ARRAY_DOUBLE", <<1, 0>>), 13)}
=============================================================================
