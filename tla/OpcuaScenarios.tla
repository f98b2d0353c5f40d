--------------------------- MODULE OpcuaScenarios ---------------------------
(***************************************************************************)
(* proto_opcua/scenarios.cpp: the programs that use OPCUAClient.  A        *)
(* scenario is the list of calls it makes; batch requests are the single   *)
(* calls they are made of, and the loop over browsed variables puts one    *)
(* read at a time in front of the rest.  A scenario that cannot connect    *)
(* returns.  Beside the scenarios there are two open programs, which make  *)
(* any call of a vocabulary at any time: one subscribes, one reads, writes *)
(* and browses.                                                            *)
(* Variables hold the types the scenarios expect of their nodes.           *)
(***************************************************************************)
EXTENDS OpcuaClient

VARIABLES prog,  \* the program that runs
          todo   \* the calls it has still to make

vars == <<cvars, prog, todo>>

-----------------------------------------------------------------------------
(* Calls, as records. *)

Connect             == [op |-> "connect"]
Disconnect          == [op |-> "disconnect"]
Retry               == [op |-> "retry"]
Read(n, attr)       == [op |-> "read", node |-> n, attr |-> attr]
ReadAs(n, field)    == [op |-> "readAs", node |-> n, field |-> field]
Write(n, p, attr)   == [op |-> "write", node |-> n, value |-> p, attr |-> attr]
WriteAs(n, t, e)    == [op |-> "writeAs", node |-> n, type |-> t, elem |-> e]
WriteArray(n, t, s) == [op |-> "writeArray", node |-> n, type |-> t, elems |-> s]
Browse(n, mask, k)  == [op |-> "browse", node |-> n, mask |-> mask, max |-> k]
Recurse(n, depth)   == [op |-> "recurse", node |-> n, depth |-> depth]
ReadEach            == [op |-> "readEach"]
EachOf(vs)          == [op |-> "eachOf", vars |-> vs]
Subscribe(n)        == [op |-> "subscribe", node |-> n]
Unsubscribe         == [op |-> "unsubscribe"]
CallMethod(o, m, a) == [op |-> "call", object |-> o, method |-> m, args |-> a]
History(n)          == [op |-> "history", node |-> n]

batchRead(ns, attr) == [i \in DOMAIN ns |-> Read(ns[i], attr)]
batchWrite(ns, t)   == [i \in DOMAIN ns |-> Write(ns[i], Scalar(t, 1), 0)]

(* A VariantValue of a type that cannot be written. *)
Unsupported(type, field) == Proto(type, field, <<1>>)

-----------------------------------------------------------------------------
(* The scenarios. *)

scenario_connect_disconnect == <<Connect, Disconnect>>

scenario_read_scalar_types ==
    << Connect,
       ReadAs(1001, "bool_val"), ReadAs(1002, "int32_val"), ReadAs(1003, "int64_val"),
       ReadAs(1004, "uint32_val"), ReadAs(1005, "float_val"),
       ReadAs(1006, "double_val"), ReadAs(1007, "string_val"),
       Read(1002, 13) >>

scenario_read_array_types ==
    << Connect, ReadAs(2001, "int32_array"), ReadAs(2002, "float_array"),
       ReadAs(2003, "double_array") >>

scenario_read_attributes ==
    <<Connect>> \o [i \in 1..7 |-> Read(1001, <<14, 15, 2, 5, 21, 22, 6>>[i])]

scenario_write_scalar_types ==
    << Connect, WriteAs(1001, "BOOL", 1), WriteAs(1002, "INT32", 42),
       WriteAs(1005, "FLOAT", 1), WriteAs(1007, "STRING", 1),
       ReadAs(1002, "int32_val"), Write(1002, Scalar("INT32", 100), 0) >>

scenario_write_array_types ==
    << Connect, WriteArray(2001, "ARRAY_INT32", <<10, 20, 30, 40, 50>>),
       WriteArray(2002, "ARRAY_FLOAT", <<1, 2, 3>>) >>

scenario_batch_read == <<Connect>> \o batchRead(<<1001, 1002, 1005, 1007, 2001>>, 13)

scenario_batch_write == <<Connect>> \o batchWrite(<<1002, 1003, 1004>>, "INT32")

scenario_browse ==
    << Connect, Browse(85, 0, 0), Browse(85, 2, 0), Browse(85, 1, 0),
       Recurse(85, 2), Browse(85, 2, 20) >>

(* The ten seconds in between are time in which the library may deliver. *)
scenario_subscription == <<Connect, Subscribe(3001), Unsubscribe>>

scenario_method_call ==
    << Connect, CallMethod(5001, 5002, <<>>),
       CallMethod(5001, 5003, <<Scalar("FLOAT", 1)>>) >>

scenario_history_read == <<Connect, History(4001)>>

(* Nodes 31 to 33 have string ids. *)
scenario_string_nodeid ==
    << Connect, ReadAs(31, "float_val"), ReadAs(32, "float_val"),
       ReadAs(33, "float_val"), WriteAs(33, "FLOAT", 1) >>

scenario_write_attribute == <<Connect, Write(1002, Scalar("STRING", 1), 15)>>

scenario_raw_bytes ==
    <<Connect, Read(6001, 13), Write(6001, Unsupported("BYTESTRING", "bytes_val"), 0)>>

scenario_structured_types ==
    <<Connect, Read(7001, 0), Write(7001, Unsupported("LOCALIZEDTEXT", "string_val"), 0)>>

scenario_unified_message == <<Connect, Read(1002, 13)>>

scenario_secure_connection == <<Connect>>

(* Pressure is read as a FLOAT from the node scenario 2 reads as a DOUBLE. *)
scenario_polling_from_config ==
    <<Connect>> \o batchRead(<<1005, 1006, 1002, 1001, 1003>>, 0)

(* The reconnecting loop tries up to three times; bad_client is another    *)
(* object, whose failing connect() has no effect on this one.              *)
scenario_error_handling ==
    << Connect, Read(99999, 13), WriteAs(1001, "BOOL", 0), Read(1005, 13),
       Retry, Retry, Retry >>

scenario_proto_wire_transport ==
    <<Connect>> \o batchRead([i \in 1..10 |-> 1000 + i], 0)

scenario_large_integer ==
    << Connect, ReadAs(8001, "uint32_val"), Write(8002, Scalar("UINT64", 1), 0),
       ReadAs(8003, "int64_val") >>

scenario_browse_and_read == <<Connect, Browse(85, 2, 0), ReadEach>>

scenario_datetime == <<Connect, Read(9001, 13)>>

scenario_status_code_detail == <<Connect, Read(1002, 13)>>

(* main(), and the scenario it leaves out because it has to wait. *)
main ==
    << scenario_connect_disconnect, scenario_read_scalar_types,
       scenario_read_array_types, scenario_read_attributes,
       scenario_write_scalar_types, scenario_write_array_types,
       scenario_batch_read, scenario_batch_write, scenario_browse,
       scenario_method_call, scenario_history_read, scenario_string_nodeid,
       scenario_write_attribute, scenario_raw_bytes, scenario_structured_types,
       scenario_unified_message, scenario_secure_connection,
       scenario_polling_from_config, scenario_error_handling,
       scenario_proto_wire_transport, scenario_large_integer,
       scenario_browse_and_read, scenario_datetime, scenario_status_code_detail >>

Scenarios == Append(main, scenario_subscription)

-----------------------------------------------------------------------------
(* Execution. *)

Do(c) ==
    \/ c.op = "connect"     /\ connect
    \/ c.op = "disconnect"  /\ disconnect
    \/ c.op = "read"        /\ read(c.node, c.attr, "none")
    \/ c.op = "readAs"      /\ readAs(c.node, c.field)
    \/ c.op = "write"       /\ write(c.node, c.value, c.attr)
    \/ c.op = "writeAs"     /\ writeAs(c.node, c.type, c.elem)
    \/ c.op = "writeArray"  /\ writeArray(c.node, c.type, c.elems)
    \/ c.op = "browse"      /\ browse(c.node, c.mask, c.max)
    \/ c.op = "recurse"     /\ browseRecursive(c.node, c.depth)
    \/ c.op = "subscribe"   /\ subscribe(c.node)
    \/ c.op = "unsubscribe" /\ IF handles = {}   \* ids 0 of a failed subscribe()
                               THEN Asks([op |-> "unsubscribe", ok |-> TRUE])
                               ELSE \E h \in handles : unsubscribe(h)
    \/ c.op = "call"        /\ callMethod(c.object, c.method, c.args)
    \/ c.op = "history"     /\ historyReadRaw(c.node)

(* if (!client.connect()) return; *)
Step ==
    /\ todo # <<>> /\ Head(todo).op \notin {"readEach", "eachOf", "retry"}
    /\ Do(Head(todo))
    /\ todo' = IF Head(todo).op = "connect" /\ ~client_' THEN <<>> ELSE Tail(todo)
    /\ UNCHANGED prog

(* for (v : vars) readValue(v.node_id()) *)
StepReadEach ==
    /\ todo # <<>>
    /\ \/ /\ Head(todo) = ReadEach
          /\ todo' = <<EachOf(ret.refs)>> \o Tail(todo)
       \/ /\ Head(todo).op = "eachOf" /\ Head(todo).vars # <<>>
          /\ todo' = << Read(Head(Head(todo).vars).node, 13),
                        EachOf(Tail(Head(todo).vars)) >> \o Tail(todo)
       \/ /\ Head(todo).op = "eachOf" /\ Head(todo).vars = <<>>
          /\ todo' = Tail(todo)
    /\ UNCHANGED <<cvars, prog>>

(* if (!client.isConnected()) try again *)
StepRetry ==
    /\ todo # <<>> /\ Head(todo) = Retry
    /\ IF isConnected THEN UNCHANGED cvars ELSE connect
    /\ todo' = Tail(todo)
    /\ UNCHANGED prog

(* A scenario has returned, the next one has a client object of its own;   *)
(* or the program has ended in a conversion.                               *)
Finished ==
    /\ \/ prog \in DOMAIN Scenarios /\ todo = <<>>
       \/ ret = Crashed
    /\ UNCHANGED vars

-----------------------------------------------------------------------------
(* Programs that make calls in any order. *)

CONSTANTS Subscriber, Explorer,           \* their names, beside the scenarios
          SubscriberCalls, ExplorerCalls  \* and their vocabularies

(* A VariantValue to be written has the field of its type set, the typed   *)
(* writes exist for the types that can be written, and depths are ints.    *)
OwnField(p) ==
    /\ p.type \in DOMAIN ScalarFor => p = Scalar(p.type, p.elems[1])
    /\ p.type \in DOMAIN ArrayFor => p.elems \in Seq(Nat) /\ p = Array(p.type, p.elems)

WellTyped(c) ==
    /\ c.op = "write" => OwnField(c.value)
    /\ c.op = "writeAs" => c.type \in DOMAIN ScalarFor
    /\ c.op = "writeArray" => c.type \in DOMAIN ArrayFor /\ c.elems \in Seq(Nat)
    /\ c.op = "recurse" => c.depth \in Int

ASSUME VocabularyAssumption == \A c \in SubscriberCalls \cup ExplorerCalls : WellTyped(c)

OpenCall ==
    /\ \/ prog = Subscriber /\ \E c \in SubscriberCalls : Do(c)
       \/ prog = Explorer /\ \E c \in ExplorerCalls : Do(c)
    /\ UNCHANGED <<prog, todo>>

NodesOf(cs) ==
    Variables \cap
        ( {c.node : c \in {d \in cs : "node" \in DOMAIN d}}
          \cup UNION {{c.vars[i].node : i \in DOMAIN c.vars} : c \in {d \in cs : d.op = "eachOf"}} )

(* The variables the running program has to do with. *)
Concerned ==
    CASE prog = Subscriber -> NodesOf(SubscriberCalls)
      [] prog = Explorer   -> NodesOf(ExplorerCalls)
      [] OTHER             -> NodesOf(Range(todo))

Environment ==
    /\ \/ LoseConnection
       \/ dataChangeHandler
       \/ \E n \in Concerned : PlcChanges(n)
    /\ UNCHANGED <<prog, todo>>

Init ==
    /\ ClientInit
    /\ \/ prog \in DOMAIN Scenarios /\ todo = Scenarios[prog]
       \/ prog \in {Subscriber, Explorer} /\ todo = <<>>

Next ==
    \/ /\ ret # Crashed
       /\ \/ Step \/ StepReadEach \/ StepRetry
          \/ OpenCall
          \/ Environment
    \/ Finished

Spec == Init /\ [][Next]_vars
=============================================================================
