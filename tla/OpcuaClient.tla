---------------------------- MODULE OpcuaClient -----------------------------
(***************************************************************************)
(* proto_opcua/opcua_client.cpp: OPCUAClient, a wrapper of the OPC UA      *)
(* library that speaks opcua.proto, in front of a PLC.  Each call of the   *)
(* class that sends one request is one step; the PLC may change its        *)
(* variables, and the connection may be lost, between any two of them.     *)
(* The PLC and the library are not part of the repository: what they do is *)
(* marked external and modelled from how the class uses them.              *)
(* A node id is a number; 0 is the null id.  Nodes with a string id belong *)
(* to StringNodes.                                                         *)
(***************************************************************************)
EXTENDS OpcuaVariant, SequencesExt

CONSTANTS Nodes,       \* the PLC's nodes
          StringNodes, \* those of them that have a string id
          NodeClass,   \* 1 object, 2 variable, 4 method
          NodeType,    \* <<type, is array>> of the value of a variable
          Writables,   \* sets of variables a PLC may let a client write
          Refs,        \* forward references, as sequences of nodes
          ItemIds,     \* the ids the PLC gives to monitored items
          MaxSubs,     \* bound: subscriptions the PLC grants to a session
          MaxSessions, \* bound: sessions of one client object
          MaxCalls,    \* bound: calls of subscribe()
          MaxChanges   \* bound: changes made by the PLC

ASSUME ClientAssumption ==
    /\ 0 \notin Nodes /\ StringNodes \subseteq Nodes
    /\ NodeClass \in [Nodes -> {1, 2, 4}]
    /\ Refs \in [Nodes -> Seq(Nodes)]
    /\ Writables \subseteq SUBSET {n \in Nodes : NodeClass[n] = 2}
    /\ {MaxSubs, MaxSessions, MaxCalls, MaxChanges} \subseteq Nat

VARIABLES
    client_,    \* whether client_ holds a library client
    session,    \* the number of the session that client has; 0 without one
    callbacks_, \* callback of each monitored item id; 0 for none
    plc,        \* value of every variable of the PLC
    writable,   \* the variables the PLC lets a client write
    subs,       \* subscriptions of the session, numbered from 1
    items,      \* monitored items of the session
    inbox,      \* notifications the PLC has sent and the client not processed
    ret,        \* what the last call returned
    handles,    \* what subscribe() returned to the program, until it unsubscribes
    sessions,   \* history: sessions opened
    calls,      \* history: calls of subscribe(); a callback is named by its call
    born,       \* history: the session of each call
    closed,     \* history: callbacks that were unsubscribed
    heard,      \* history: the callback just invoked, and the item's own callback
    wrote,      \* history: the VariantValue a client last stored in a variable
    changes     \* history: changes made by the PLC

wire  == <<session, sessions, subs, items, inbox>>
subsc == <<callbacks_, handles, calls, born, closed>>
data  == <<plc, writable, wrote, changes>>

cvars == <<client_, wire, subsc, data, ret, heard>>

Variables == {n \in Nodes : NodeClass[n] = 2}
Calls     == 1..MaxCalls

Nobody  == [cb |-> 0, of |-> 0]
Nothing == Unset      \* wrote: no client stored a value
Bad     == "BadConnectionClosed"
Crashed == [op |-> "crashed"]   \* ret: a conversion ended the program

(* UA_NODEID_NUMERIC(ns, numeric_id()): the null id for a string id, also  *)
(* what browse() leaves of a reference to such a node.                     *)
numeric_id(n) == IF n \in StringNodes THEN 0 ELSE n

Value(n, es) == Native(NodeType[n][1], NodeType[n][2], es)

(* Elements the PLC may give a variable. *)
PlcValues(n) == IF NodeType[n][2] THEN {<<>>, <<0, 1>>, <<1, 1>>} ELSE {<<0>>, <<1>>}

ClientInit ==
    /\ client_ = FALSE /\ session = 0 /\ sessions = 0
    /\ callbacks_ = [i \in ItemIds |-> 0]
    /\ plc = [n \in Variables |-> Value(n, IF NodeType[n][2] THEN <<1, 1>> ELSE <<1>>)]
    /\ writable \in Writables
    /\ subs = 0 /\ items = {} /\ inbox = {} /\ handles = {}
    /\ ret = [op |-> "none"] /\ heard = Nobody
    /\ calls = 0 /\ born = [c \in Calls |-> 0] /\ closed = {}
    /\ wrote = [n \in Variables |-> Nothing] /\ changes = 0

-----------------------------------------------------------------------------
(* Connection. *)

(* The library forgets the session; the PLC drops what belonged to it. *)
SessionOver == session' = 0 /\ subs' = 0 /\ items' = {} /\ inbox' = {}

Returns(r) == ret' = r /\ heard' = Nobody

(* client_.reset() destroys the client before; callbacks_ is kept. *)
connect ==
    /\ sessions < MaxSessions
    /\ subs' = 0 /\ items' = {} /\ inbox' = {}
    /\ \/ client_' = TRUE /\ session' = sessions + 1 /\ sessions' = sessions + 1
       \/ client_' = FALSE /\ session' = 0 /\ UNCHANGED sessions
    /\ Returns([op |-> "connect", ok |-> client_'])
    /\ UNCHANGED <<subsc, data>>

(* client_ stays set, so isConnected() goes on returning true. *)
disconnect ==
    /\ SessionOver
    /\ Returns([op |-> "disconnect"])
    /\ UNCHANGED <<client_, sessions, subsc, data>>

isConnected == client_

(* The network or the PLC ends the session; nothing tells the class. *)
LoseConnection ==
    /\ session # 0
    /\ SessionOver /\ heard' = Nobody
    /\ UNCHANGED <<client_, sessions, subsc, data, ret>>

(* A call that changes nothing on either side. *)
Asks(r) == isConnected /\ Returns(r) /\ UNCHANGED <<client_, wire, subsc, data>>

(* A call whose answer holds a converted value returns if the conversion does. *)
Yields(p, r) == IF p = Crash THEN Crashed ELSE r

-----------------------------------------------------------------------------
(* Reading. *)

(* The PLC's answer; the attributes are those of the OPC UA standard. *)
Attribute(n, attr) ==
    CASE n \notin Nodes           -> [status |-> "BadNodeIdUnknown", value |-> NoData]
      [] attr = 13 /\ n \in Nodes -> IF NodeClass[n] = 2
                                     THEN [status |-> "GOOD", value |-> plc[n]]
                                     ELSE [status |-> "BadAttributeIdInvalid", value |-> NoData]
      [] attr \in {2, 15}         -> [status |-> "GOOD", value |-> Native("INT32", FALSE, <<1>>)]
      [] attr = 5                 -> [status |-> "GOOD", value |-> Native("LOCALIZEDTEXT", FALSE, <<1>>)]
      [] attr = 6                 -> [status |-> "GOOD", value |-> Native("UINT32", FALSE, <<1>>)]
      [] attr = 14                -> [status |-> "GOOD", value |-> Native("NODEID", FALSE, <<1>>)]
      [] OTHER                    -> [status |-> "BadAttributeIdInvalid", value |-> NoData]

(* if (sv->type) value = variantToProto(sv) *)
Converted(v) == IF v = NoData THEN Unset ELSE variantToProto(v)

ReadResult(n, attr) ==
    IF session = 0 THEN [status |-> Bad, value |-> Unset]
    ELSE LET a == Attribute(n, IF attr = 0 THEN 13 ELSE attr)
         IN  [status |-> a.status, value |-> Converted(a.value)]

(* read() takes string ids too.  got is what a typed read makes of the     *)
(* response: the elements of its field, none when another field is set.    *)
read(n, attr, field) ==
    LET r == ReadResult(n, attr)
    IN  Asks(Yields(r.value, [op |-> "read", node |-> n, status |-> r.status,
                              value |-> r.value, got |-> GetArray(r.value, field)]))

readValue(n) == read(n, 13, "none")
readAs(n, field) == read(n, 13, field)

-----------------------------------------------------------------------------
(* Writing. *)

(* The PLC stores a value of the variable's own type, if it may be written. *)
Accepts(n, attr, v) ==
    /\ n \in writable /\ attr = 13
    /\ v # NoData /\ <<v.type, v.array>> = NodeType[n]

Stores(n, attr, p) ==
    LET v == protoToVariant(p)
    IN  IF Accepts(n, attr, v)
        THEN plc' = [plc EXCEPT ![n] = v] /\ wrote' = [wrote EXCEPT ![n] = p]
        ELSE UNCHANGED <<plc, wrote>>

(* Only the status of the service is returned; what the PLC answered for   *)
(* the node is dropped with raw_resp.  A response may be lost.             *)
writeAttribute(n, p, attr) ==
    /\ isConnected
    /\ \/ /\ session # 0
          /\ Stores(n, attr, p)
          /\ Returns([op |-> "write", ok |-> TRUE,
                      stored |-> Accepts(n, attr, protoToVariant(p))])
          /\ UNCHANGED wire
       \/ /\ session # 0
          /\ Stores(n, attr, p)
          /\ Returns([op |-> "write", ok |-> FALSE,
                      stored |-> Accepts(n, attr, protoToVariant(p))])
          /\ SessionOver /\ UNCHANGED sessions
       \/ /\ session = 0
          /\ Returns([op |-> "write", ok |-> FALSE, stored |-> FALSE])
          /\ UNCHANGED <<plc, wrote, wire>>
    /\ UNCHANGED <<client_, subsc, writable, changes>>

write(n, p, attr) == writeAttribute(n, p, IF attr = 0 THEN 13 ELSE attr)
writeAs(n, type, e) == writeAttribute(n, Scalar(type, e), 13)
writeArray(n, type, es) == writeAttribute(n, Array(type, es), 13)

-----------------------------------------------------------------------------
(* Browsing. *)

(* The PLC's references, filtered; it may cut them at max, and the class   *)
(* does not ask for the rest.  References to string ids lose their id.     *)
OfClass(n, mask) ==
    IF mask = 0 THEN Refs[n] ELSE SelectSeq(Refs[n], LAMBDA c : NodeClass[c] = mask)

References(n, mask, max) ==
    IF session = 0 \/ n \notin Nodes THEN <<>>
    ELSE LET all == OfClass(n, mask)
             cut == IF max = 0 \/ Len(all) <= max THEN all ELSE SubSeq(all, 1, max)
         IN  [i \in DOMAIN cut |-> [node |-> numeric_id(cut[i]), of |-> cut[i]]]

browse(n, mask, max) ==
    Asks([op |-> "browse", status |-> IF session = 0 THEN Bad ELSE "GOOD",
          refs |-> References(n, mask, max)])

browseChildren(n)  == browse(n, 0, 0)
browseObjects(n)   == browse(n, 1, 0)
browseVariables(n) == browse(n, 2, 0)

(* Each child of n, and after it what was found below that child. *)
Gather(n, found) ==
    LET children == References(n, 0, 0)
    IN  FlattenSeq([i \in DOMAIN children |-> <<children[i]>> \o found[children[i].node]])

Found[depth \in Nat] ==
    [n \in Nodes \cup {0} |-> IF depth = 0 THEN <<>> ELSE Gather(n, Found[depth - 1])]

Below_OneLess(n, depth) == IF depth <= 1 \/ n \notin Nodes THEN <<>> ELSE Found[depth - 1][n]

(* browseRecursive() without its status. *)
Below(n, depth) == IF depth <= 0 \/ n \notin Nodes THEN <<>> ELSE Found[depth][n]

(* It reports GOOD also when the browsing below it failed.  It is taken as *)
(* one step: the connection is there throughout, or not at all.            *)
browseRecursive(n, depth) ==
    Asks([op |-> "browseRecursive", status |-> "GOOD", refs |-> Below(n, depth),
          root |-> n, depth |-> depth, live |-> session # 0])

-----------------------------------------------------------------------------
(* Subscriptions. *)

(* callbacks_[monitoredItemId] = cb: a callback already there is replaced, *)
(* which emplace() would not do.                                           *)
Register_KeepsOld(i) == callbacks_' = [callbacks_ EXCEPT ![i] = IF @ = 0 THEN calls' ELSE @]
Register(i) == callbacks_' = [callbacks_ EXCEPT ![i] = calls']

(* What the PLC sends about an item when its variable has value v. *)
Notice(item, v) ==
    [sub |-> item.sub, id |-> item.id, cb |-> item.cb, breaks |-> Converted(v) = Crash]

(* Two requests: a subscription, then one item in it.  A failure of the    *)
(* second leaves the subscription behind.  Item ids are unique within a    *)
(* subscription only, and every call makes a new one.                      *)
subscribe(n) ==
    /\ isConnected /\ calls < MaxCalls
    /\ calls' = calls + 1
    /\ \/ /\ session = 0 \/ subs = MaxSubs
          /\ Returns([op |-> "subscribe", ok |-> FALSE])
          /\ UNCHANGED <<wire, callbacks_, handles, born>>
       \/ /\ session # 0 /\ subs < MaxSubs
          /\ subs' = subs + 1
          /\ born' = [born EXCEPT ![calls'] = session]
          /\ UNCHANGED <<session, sessions>>
          /\ IF numeric_id(n) \notin Variables
             THEN /\ Returns([op |-> "subscribe", ok |-> FALSE])
                  /\ UNCHANGED <<items, inbox, callbacks_, handles>>
             ELSE \E i \in ItemIds :
                    LET item == [sub |-> subs', id |-> i, node |-> n, cb |-> calls']
                    IN  /\ items' = items \cup {item}
                        /\ inbox' = inbox \cup {Notice(item, plc[n])}   \* the first value
                        /\ Register(i)
                        /\ handles' = handles \cup {[sub |-> subs', id |-> i, cb |-> calls']}
                        /\ Returns([op |-> "subscribe", ok |-> TRUE])
    /\ UNCHANGED <<client_, closed, data>>

unsubscribe_BySubscription(h) ==
    /\ isConnected /\ h \in handles
    /\ items' = {it \in items : <<it.sub, it.id>> # <<h.sub, h.id>>}
    /\ inbox' = {it \in inbox : <<it.sub, it.id>> # <<h.sub, h.id>>}
    /\ callbacks_' = [i \in ItemIds |-> IF i = h.sub THEN 0 ELSE callbacks_[i]]
    /\ handles' = handles \ {h} /\ closed' = closed \cup {h.cb}
    /\ Returns([op |-> "unsubscribe", ok |-> TRUE])
    /\ UNCHANGED <<client_, session, sessions, subs, calls, born, data>>

(* The item goes, whatever the PLC answers, and the callback with its id;  *)
(* the subscription stays.  Notifications of a removed item are dropped.   *)
unsubscribe(h) ==
    /\ isConnected /\ h \in handles
    /\ items' = {it \in items : <<it.sub, it.id>> # <<h.sub, h.id>>}
    /\ inbox' = {it \in inbox : <<it.sub, it.id>> # <<h.sub, h.id>>}
    /\ callbacks_' = [callbacks_ EXCEPT ![h.id] = 0]
    /\ handles' = handles \ {h} /\ closed' = closed \cup {h.cb}
    /\ Returns([op |-> "unsubscribe", ok |-> TRUE])
    /\ UNCHANGED <<client_, session, sessions, subs, calls, born, data>>

isSubscribed(i) == callbacks_[i] # 0

(* The library processes a notification and calls back with the item's id; *)
(* the value is converted first, if there is a callback.                   *)
dataChangeHandler ==
    \E item \in inbox :
        /\ inbox' = inbox \ {item}
        /\ heard' = IF isSubscribed(item.id) /\ ~item.breaks
                    THEN [cb |-> callbacks_[item.id], of |-> item.cb]
                    ELSE Nobody
        /\ ret' = IF isSubscribed(item.id) /\ item.breaks THEN Crashed ELSE ret
        /\ UNCHANGED <<client_, session, sessions, subs, items, subsc, data>>

-----------------------------------------------------------------------------
(* Methods and history. *)

(* The PLC runs a method on converted arguments and returns some values.   *)
callMethod(object, method, args) ==
    IF session = 0 THEN Asks([op |-> "call", status |-> Bad, outs |-> <<>>])
    ELSE IF numeric_id(method) \notin Nodes \/ numeric_id(object) \notin Nodes
    THEN Asks([op |-> "call", status |-> "BadNodeIdUnknown", outs |-> <<>>])
    ELSE \/ /\ \A i \in DOMAIN args : protoToVariant(args[i]) # NoData
            /\ \E v \in {NoData, Native("BOOLEAN", FALSE, <<1>>), Native("INT32", TRUE, <<>>)} :
                 Asks(Yields(variantToProto(v), [op |-> "call", status |-> "GOOD",
                                                 outs |-> <<variantToProto(v)>>]))
         \/ Asks([op |-> "call", status |-> "BadInvalidArgument", outs |-> <<>>])

(* A value and a time stamp for each entry; an entry without a value gives *)
(* its time stamp only.  at tells the entry a value came from.  An array   *)
(* may have been empty when an entry was made.                             *)
historyReadRaw(n) ==
    IF session = 0 THEN Asks([op |-> "history", status |-> Bad, at |-> <<>>, stamps |-> 0])
    ELSE IF numeric_id(n) \notin Variables
    THEN Asks([op |-> "history", status |-> "BadNodeIdUnknown", at |-> <<>>, stamps |-> 0])
    ELSE \E hasValue \in {<<>>, <<TRUE, TRUE>>, <<FALSE, TRUE>>}, es \in PlcValues(numeric_id(n)) :
           Asks(Yields(IF hasValue = <<>> THEN Unset ELSE Converted(Value(numeric_id(n), es)),
                       [op |-> "history", status |-> "GOOD",
                        at |-> SelectSeq([i \in DOMAIN hasValue |-> i], LAMBDA i : hasValue[i]),
                        stamps |-> Len(hasValue)]))

-----------------------------------------------------------------------------
(* The PLC changes a variable and notifies the session's items. *)
PlcChanges(n) ==
    /\ changes < MaxChanges
    /\ changes' = changes + 1
    /\ \E es \in PlcValues(n) :
         /\ plc[n].elems # es
         /\ plc' = [plc EXCEPT ![n].elems = es]
    /\ wrote' = [wrote EXCEPT ![n] = Nothing]
    /\ inbox' = inbox \cup {Notice(it, plc'[n]) : it \in {i \in items : i.node = n}}
    /\ heard' = Nobody
    /\ UNCHANGED <<client_, session, sessions, subs, items, subsc, writable, ret>>

-----------------------------------------------------------------------------
(* Properties. *)

(* A VariantValue without what the conversions lose: no NUL in its strings *)
(* and not an empty array.                                                 *)
Whole(p) ==
    /\ p.elems # <<>>
    /\ p.type \in {"STRING", "ARRAY_STRING"} =>
          \A i \in DOMAIN p.elems : p.elems[i] \notin DOMAIN Truncated

(* What a client stored in a variable, and the PLC has not changed since,  *)
(* is read back as the same VariantValue, for every type that is accepted, *)
(* every array that is not empty and every string without a NUL.  The      *)
(* empty string alone comes back without its field.                        *)
ReadsBackAsWritten ==
    \A n \in Variables :
        wrote[n] # Nothing /\ Whole(wrote[n]) =>
            \/ Converted(plc[n]) = wrote[n]
            \/ /\ wrote[n] = Scalar("STRING", 0)
               /\ Get(Converted(plc[n]), "string_val") = 0

(* A callback that was unsubscribed is not called again, whatever ids the  *)
(* PLC hands out, also after reconnecting.                                 *)
UnsubscribedStaysSilent == heard.cb \notin closed

(* callbacks_ outlives the session its ids belong to; still only callbacks *)
(* given to subscribe() in the present session are called.                 *)
CallbackOfThisSession == heard # Nobody => born[heard.cb] = session

(* The nodes k + 1 forward references below n.  The first reference may    *)
(* start at a string id, which a caller can ask for; the others cannot.    *)
Linked(S) == UNION {Range(Refs[m]) : m \in S}

Level[k \in Nat] ==
    [n \in Nodes |-> IF k = 0 THEN Linked({n}) ELSE Linked(Level[k - 1][n] \ StringNodes)]

Reached(n, d) == IF n \in Nodes THEN UNION {Level[k][n] : k \in 0..(d - 1)} ELSE {}

(* browseRecursive() on a live connection finds exactly the nodes within   *)
(* its depth, also when references form a cycle.                           *)
RecursiveBrowseIsReachability ==
    ret.op = "browseRecursive" /\ ret.live =>
        {ret.refs[i].of : i \in DOMAIN ret.refs} =
            Reached(ret.root, ret.depth)

(* "a read-only node: the write fails (expected)": a write that returns    *)
(* true has stored the value.                                              *)
WriteOkMeansStored == ret.op = "write" /\ ret.ok => ret.stored

(* A notification goes to the callback its own item was subscribed with. *)
NotifiesItsSubscriber == heard.cb = heard.of \/ heard = Nobody

(* values(i) and timestamps(i) belong to the same entry of the history. *)
HistoryAligned ==
    ret.op = "history" => \A i \in DOMAIN ret.at : ret.at[i] = i

(* A string that was stored is read back whole.  writeAttribute() hands it *)
(* over as a C string, so that what follows a NUL is lost.                 *)
StringsReadBackWhole ==
    \A n \in Variables :
        wrote[n].type = "STRING" => Get(Converted(plc[n]), "string_val") = wrote[n].elems[1]

(* A read, a method call or a notification returns, whatever the PLC's     *)
(* value is.  An empty array is taken for a scalar and dereferenced.       *)
ReadsReturn == ret # Crashed
=============================================================================
