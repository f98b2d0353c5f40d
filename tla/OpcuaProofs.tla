---------------------------- MODULE OpcuaProofs -----------------------------
(***************************************************************************)
(* Which callback OPCUAClient calls, for any PLC, any node and item ids,   *)
(* any programs and any number of sessions and subscriptions.  callbacks_  *)
(* is keyed by ids that are unique within one subscription only, and it is *)
(* kept when the session goes; the invariant says why neither lets a       *)
(* callback be called that was unsubscribed or belongs to another session. *)
(* The second part is about values: what is written is read back.  The     *)
(* third is about browseRecursive(): it finds what is within its depth.    *)
(***************************************************************************)
EXTENDS OpcuaScenarios, WellFoundedInduction, TLAPS

(* What callbacks_, the handles and the items hold. *)
SubTypes ==
    /\ calls \in Nat /\ session \in Nat /\ sessions \in Nat
    /\ callbacks_ \in [ItemIds -> 0..calls]
    /\ born \in [Calls -> Nat]
    /\ closed \subseteq 1..calls
    /\ \A h \in handles : h.id \in ItemIds /\ h.cb \in 1..calls
    /\ \A it \in items \cup inbox : it.id \in ItemIds

(* A callback is found under the id of its own handle only, so that        *)
(* unsubscribing removes it altogether.                                    *)
HandleOwns ==
    \A h \in handles : \A i \in ItemIds : callbacks_[i] = h.cb => i = h.id

(* No unsubscribed callback is left. *)
NoneClosed == \A i \in ItemIds : callbacks_[i] \notin closed

(* The callback under the id of a present item, or of a notification on    *)
(* its way, is one of the present session.                                 *)
ItemsAreServed ==
    \A it \in items \cup inbox :
        callbacks_[it.id] # 0 => born[callbacks_[it.id]] = session

SubInv ==
    /\ SubTypes /\ HandleOwns /\ NoneClosed /\ ItemsAreServed
    /\ UnsubscribedStaysSilent /\ CallbackOfThisSession

(* A step that does not touch sessions and subscriptions. *)
Quiet == UNCHANGED <<wire, subsc>> /\ heard' \in {Nobody, heard}

(* A step that loses the session. *)
Ends == SessionOver /\ heard' = Nobody /\ UNCHANGED <<sessions, subsc>>

-----------------------------------------------------------------------------
(* A call is quiet, or loses the session, or is about one of them. *)
LEMMA CallKinds ==
    ASSUME NEW c, Do(c)
    PROVE  \/ Quiet \/ Ends \/ connect
           \/ \E n : subscribe(n)
           \/ \E h \in handles : unsubscribe(h)
<1> USE DEF Asks, Returns
<1>1. CASE c.op = "connect" /\ connect
  BY <1>1
<1>2. CASE c.op = "disconnect" /\ disconnect
  BY <1>2 DEF disconnect, Ends
<1>3. CASE c.op = "read" /\ read(c.node, c.attr, "none")
  BY <1>3, Zenon DEF read, Quiet
<1>4. CASE c.op = "readAs" /\ readAs(c.node, c.field)
  BY <1>4, Zenon DEF readAs, read, Quiet
<1>5. ASSUME NEW n, NEW p, NEW attr, writeAttribute(n, p, attr)
      PROVE  Quiet \/ Ends
  BY <1>5 DEF writeAttribute, Quiet, Ends
<1>6. CASE c.op = "write" /\ write(c.node, c.value, c.attr)
  BY <1>5, <1>6 DEF write
<1>7. CASE c.op = "writeAs" /\ writeAs(c.node, c.type, c.elem)
  BY <1>5, <1>7 DEF writeAs
<1>8. CASE c.op = "writeArray" /\ writeArray(c.node, c.type, c.elems)
  BY <1>5, <1>8 DEF writeArray
<1>9. CASE c.op = "browse" /\ browse(c.node, c.mask, c.max)
  BY <1>9 DEF browse, Quiet
<1>10. CASE c.op = "recurse" /\ browseRecursive(c.node, c.depth)
  BY <1>10 DEF browseRecursive, Quiet
<1>11. CASE c.op = "subscribe" /\ subscribe(c.node)
  BY <1>11
<1>12. CASE c.op = "unsubscribe" /\ handles = {}
            /\ Asks([op |-> "unsubscribe", ok |-> TRUE])
  BY <1>12 DEF Quiet
<1>13. CASE c.op = "unsubscribe" /\ \E h \in handles : unsubscribe(h)
  BY <1>13
<1>14. CASE c.op = "call" /\ callMethod(c.object, c.method, c.args)
  BY <1>14, Zenon DEF callMethod, Quiet
<1>15. CASE c.op = "history" /\ historyReadRaw(c.node)
  BY <1>15, Zenon DEF historyReadRaw, Quiet
<1> QED
  BY <1>1, <1>2, <1>3, <1>4, <1>6, <1>7, <1>8, <1>9, <1>10, <1>11, <1>12, <1>13,
     <1>14, <1>15 DEF Do

(* Every step is quiet, ends the session or is one of five others. *)
LEMMA StepKinds ==
    ASSUME [Next]_vars
    PROVE  \/ Quiet \/ Ends \/ connect
           \/ \E n : subscribe(n)
           \/ \E h \in handles : unsubscribe(h)
           \/ dataChangeHandler
           \/ \E n : PlcChanges(n)
<1>1. CASE Step
  BY <1>1, CallKinds DEF Step
<1>2. CASE StepReadEach
  BY <1>2, Zenon DEF StepReadEach, cvars, Quiet
<1>3. CASE StepRetry
  BY <1>3 DEF StepRetry, cvars, Quiet
<1>4. CASE Finished \/ UNCHANGED vars
  BY <1>4 DEF Finished, vars, cvars, Quiet
<1>5. CASE OpenCall
  BY <1>5, CallKinds DEF OpenCall
<1>6. CASE Environment
  BY <1>6 DEF Environment, LoseConnection, Ends
<1> QED
  BY <1>1, <1>2, <1>3, <1>4, <1>5, <1>6 DEF Next

-----------------------------------------------------------------------------
(* The invariant over each kind of step. *)

LEMMA QuietKeeps ==
    ASSUME SubInv, Quiet \/ Ends \/ connect \/ \E n : PlcChanges(n)
    PROVE  SubInv'
<1> USE DEF SubInv, SubTypes, HandleOwns, NoneClosed, ItemsAreServed,
            UnsubscribedStaysSilent, CallbackOfThisSession, Nobody, subsc, wire
<1>1. CASE Quiet
  BY <1>1 DEF Quiet
<1>2. CASE Ends
  BY <1>2 DEF Ends, SessionOver
<1>3. CASE connect
  BY <1>3 DEF connect, Returns
<1>4. CASE \E n : PlcChanges(n)
  <2>1. PICK n : PlcChanges(n)
    BY <1>4
  <2>2. \A it \in inbox' : it \in inbox \/ \E i \in items : it.id = i.id
    BY <2>1 DEF PlcChanges, Notice
  <2> QED
    BY <2>1, <2>2 DEF PlcChanges
<1> QED
  BY <1>1, <1>2, <1>3, <1>4

(* The new callback has a number nobody has; it displaces another one. *)
LEMMA SubscribeKeeps ==
    ASSUME SubInv, NEW n, subscribe(n)
    PROVE  SubInv'
<1> USE DEF SubInv, SubTypes, HandleOwns, NoneClosed, ItemsAreServed,
            UnsubscribedStaysSilent, CallbackOfThisSession, Nobody
<1>0. MaxCalls \in Nat
  BY ClientAssumption
<1>1. calls' = calls + 1 /\ calls' \in Calls /\ heard' = Nobody /\ UNCHANGED closed
      /\ UNCHANGED <<session, sessions>>
  <2>1. calls < MaxCalls /\ calls' = calls + 1 /\ UNCHANGED closed
    BY DEF subscribe
  <2>2. heard' = Nobody /\ UNCHANGED <<session, sessions>>
    BY Zenon DEF subscribe, Returns, wire
  <2> QED
    BY <1>0, <2>1, <2>2 DEF Calls
<1>2. CASE UNCHANGED <<items, inbox, callbacks_, handles>>
  <2>0. born' = born \/ born' = [born EXCEPT ![calls'] = session]
    BY DEF subscribe
  <2>1. born' \in [Calls -> Nat] /\ \A k \in 1..calls : born'[k] = born[k]
    <3>1. born \in [Calls -> Nat] /\ session \in Nat
      OBVIOUS
    <3>2. \A k \in 1..calls : k \in Calls /\ k # calls'
      BY <1>0, <1>1 DEF Calls
    <3> HIDE DEF SubTypes, SubInv
    <3> QED
      BY <1>1, <2>0, <3>1, <3>2
  <2> QED
    BY <1>1, <1>2, <2>1
<1>3. CASE \E i \in ItemIds :
             /\ Register(i)
             /\ born' = [born EXCEPT ![calls'] = session]
             /\ LET item == [sub |-> subs', id |-> i, node |-> n, cb |-> calls']
                IN  items' = items \cup {item} /\ inbox' = inbox \cup {Notice(item, plc[n])}
             /\ handles' = handles \cup {[sub |-> subs', id |-> i, cb |-> calls']}
  <2>0. PICK i \in ItemIds :
             /\ Register(i)
             /\ born' = [born EXCEPT ![calls'] = session]
             /\ items' = items \cup {[sub |-> subs', id |-> i, node |-> n, cb |-> calls']}
             /\ inbox' = inbox \cup {Notice([sub |-> subs', id |-> i, node |-> n,
                                              cb |-> calls'], plc[n])}
             /\ handles' = handles \cup {[sub |-> subs', id |-> i, cb |-> calls']}
    BY <1>3, Zenon
  <2>1. /\ callbacks_' = [callbacks_ EXCEPT ![i] = calls']
        /\ born' = [born EXCEPT ![calls'] = session]
        /\ \A it \in items' \cup inbox' : it \in items \cup inbox \/ it.id = i
        /\ \A h \in handles' : h \in handles \/ (h.id = i /\ h.cb = calls')
    BY <2>0 DEF Register, Notice
  <2>2. SubTypes'
    BY <1>1, <2>1
  <2>3. HandleOwns'
    BY <1>1, <2>1
  <2>4. NoneClosed'
    BY <1>1, <2>1
  <2>5. ItemsAreServed'
    BY <1>1, <2>1
  <2> QED
    BY <1>1, <2>2, <2>3, <2>4, <2>5
<1> QED
  BY <1>2, <1>3 DEF subscribe, wire

(* What is unsubscribed is under its handle's id and nowhere else. *)
LEMMA UnsubscribeKeeps ==
    ASSUME SubInv, NEW h \in handles, unsubscribe(h)
    PROVE  SubInv'
<1> USE DEF SubInv, SubTypes, HandleOwns, NoneClosed, ItemsAreServed,
            UnsubscribedStaysSilent, CallbackOfThisSession, Nobody
<1>1. /\ callbacks_' = [callbacks_ EXCEPT ![h.id] = 0]
      /\ handles' \subseteq handles /\ closed' = closed \cup {h.cb}
      /\ items' \subseteq items /\ inbox' \subseteq inbox
      /\ heard' = Nobody /\ UNCHANGED <<session, sessions, calls, born>>
  BY DEF unsubscribe, Returns
<1>2. SubTypes'
  <2>0. h.id \in ItemIds /\ h.cb \in 1..calls /\ 0 \in 0..calls
    OBVIOUS
  <2>1. callbacks_' \in [ItemIds -> 0..calls'] /\ closed' \subseteq 1..calls'
    BY <1>1, <2>0
  <2>2. \A g \in handles' : g.id \in ItemIds /\ g.cb \in 1..calls'
    BY <1>1
  <2>3. \A it \in items' \cup inbox' : it.id \in ItemIds
    BY <1>1
  <2> QED
    BY <1>1, <2>1, <2>2, <2>3
<1>3. HandleOwns'
  BY <1>1
<1>4. NoneClosed'
  BY <1>1
<1>5. ItemsAreServed'
  BY <1>1
<1> QED
  BY <1>1, <1>2, <1>3, <1>4, <1>5

(* A notification keeps the invariant. *)
LEMMA NotificationKeeps ==
    ASSUME SubInv, dataChangeHandler
    PROVE  SubInv'
BY DEF SubInv, SubTypes, HandleOwns, NoneClosed, ItemsAreServed, dataChangeHandler,
       isSubscribed, UnsubscribedStaysSilent, CallbackOfThisSession, Nobody, subsc

-----------------------------------------------------------------------------
(* The invariant holds of every behaviour of client, PLC and programs. *)
THEOREM Invariance == Spec => []SubInv
<1>1. Init => SubInv
  BY DEF Init, ClientInit, SubInv, SubTypes, HandleOwns, NoneClosed, ItemsAreServed,
         UnsubscribedStaysSilent, CallbackOfThisSession, Nobody
<1>2. SubInv /\ [Next]_vars => SubInv'
  BY StepKinds, QuietKeeps, SubscribeKeeps, UnsubscribeKeeps, NotificationKeeps
<1> QED
  BY <1>1, <1>2, PTL DEF Spec

(* A callback that was unsubscribed is never called again, whatever ids    *)
(* the PLC gives to later items and however often the client reconnects.   *)
THEOREM UnsubscribedIsSilent == Spec => []UnsubscribedStaysSilent
BY Invariance, PTL DEF SubInv

(* Only callbacks of the present session are called, although callbacks_   *)
(* is never emptied.                                                       *)
THEOREM CalledInItsSession == Spec => []CallbackOfThisSession
BY Invariance, PTL DEF SubInv

-----------------------------------------------------------------------------
(* Values.  Both conversions go by tables of types; on the types that can  *)
(* be written the tables are inverse to each other.                        *)

LEMMA TablesAgree ==
    /\ \A t \in DOMAIN ScalarFor :
          /\ ScalarFor[t] \in DOMAIN ScalarOf /\ ScalarOf[ScalarFor[t]][1] = t
          /\ ScalarFor[t] = "STRING" => t = "STRING"
    /\ \A t \in DOMAIN ArrayFor :
          /\ ArrayFor[t] \in DOMAIN ArrayOf /\ ArrayOf[ArrayFor[t]][1] = t
          /\ ArrayFor[t] = "STRING" => t = "ARRAY_STRING"
    /\ DOMAIN ScalarFor \cap DOMAIN ArrayFor = {}
    /\ ScalarOf["STRING"][2] = "string_val" /\ ScalarFor["STRING"] = "STRING"
BY DEF ScalarFor, ScalarOf, ArrayFor, ArrayOf

(* Strings without a NUL are copied whole, and other values always. *)
LEMMA CopiedWhole ==
    ASSUME NEW t, NEW S, NEW es \in Seq(S),
           t = "STRING" => \A i \in DOMAIN es : es[i] \notin DOMAIN Truncated
    PROVE  Copied(t, es) = es
<1>1. CASE t = "STRING"
  <2>1. \A i \in DOMAIN es : UA_String_fromChars(es[i]) = es[i]
    BY <1>1 DEF UA_String_fromChars
  <2>2. Copied(t, es) = [i \in DOMAIN es |-> es[i]]
    BY <1>1, <2>1 DEF Copied
  <2> QED
    BY <2>2
<1> QED
  BY <1>1 DEF Copied

(* protoToVariant() and back, without a NUL and an empty array: the same   *)
(* message, except that an empty string loses its field.                   *)
LEMMA RoundTrip ==
    ASSUME NEW p, OwnField(p), Whole(p), protoToVariant(p) # NoData
    PROVE  \/ Converted(protoToVariant(p)) = p
           \/ /\ p = Scalar("STRING", 0)
              /\ Get(Converted(protoToVariant(p)), "string_val") = 0
<1> DEFINE v == protoToVariant(p)
<1> USE DEF Native, Proto
<1>1. CASE p.type \in DOMAIN ScalarFor
  <2> DEFINE t == ScalarFor[p.type]
             e == p.elems[1]
  <2>1. p = Proto(p.type, ScalarOf[t][2], <<e>>)
    BY <1>1 DEF OwnField, Scalar
  <2>2. v = Native(t, FALSE, <<e>>)
    <3>1. p.field = ScalarOf[t][2]
      BY <2>1
    <3>2. Get(p, ScalarOf[t][2]) = e
      BY <3>1 DEF Get
    <3>3. v = Native(t, FALSE, Copied(t, <<Get(p, ScalarOf[t][2])>>))
      BY <1>1, Zenon DEF protoToVariant
    <3>4. Copied(t, <<e>>) = <<e>>
      <4> DEFINE es == <<e>>
      <4>1. es \in Seq({e}) /\ p.elems = es
        BY <2>1
      <4>2. t = "STRING" => \A i \in DOMAIN es : es[i] \notin DOMAIN Truncated
        BY <1>1, <4>1, TablesAgree DEF Whole
      <4> HIDE DEF es
      <4>3. Copied(t, es) = es
        BY <4>1, <4>2, CopiedWhole
      <4> QED
        BY <4>3 DEF es
    <3> QED
      BY <3>2, <3>3, <3>4
  <2>3. /\ t \in DOMAIN ScalarOf /\ ScalarOf[t][1] = p.type
        /\ t = "STRING" => p.type = "STRING"
    BY <1>1, TablesAgree
  <2>4. CASE t = "STRING" /\ e = 0
    <3>1. Converted(v) = Proto("STRING", "none", <<>>)
      BY <2>2, <2>3, <2>4 DEF Converted, variantToProto, is_array
    <3>2. p = Scalar("STRING", 0)
      BY <1>1, <2>3, <2>4 DEF OwnField
    <3> QED
      BY <3>1, <3>2 DEF Get
  <2>5. CASE ~(t = "STRING" /\ e = 0)
    <3>1. v.type = t /\ v.array = FALSE /\ Head(v.elems) = e /\ v.elems # <<>>
      BY <2>2
    <3>2. Converted(v) = Proto(ScalarOf[t][1], ScalarOf[t][2], <<e>>)
      BY <3>1, <2>3, <2>5 DEF Converted, variantToProto, is_array
    <3> QED
      BY <3>2, <2>1, <2>3
  <2> QED
    BY <2>4, <2>5
<1>2. CASE p.type \in DOMAIN ArrayFor
  <2> DEFINE t == ArrayFor[p.type]
  <2>1. p = Proto(p.type, ArrayOf[t][2], p.elems) /\ p.elems \in Seq(Nat)
    BY <1>2 DEF OwnField, Array
  <2>2. p.type \notin DOMAIN ScalarFor
    BY <1>2, TablesAgree
  <2>3. v = Native(t, TRUE, p.elems)
    <3>1. p.field = ArrayOf[t][2]
      BY <2>1
    <3>2. GetArray(p, ArrayOf[t][2]) = p.elems
      BY <3>1 DEF GetArray
    <3>3. v = Native(t, TRUE, Copied(t, GetArray(p, ArrayOf[t][2])))
      BY <1>2, <2>2, Zenon DEF protoToVariant
    <3>4. Copied(t, p.elems) = p.elems
      BY <1>2, <2>1, TablesAgree, CopiedWhole DEF Whole
    <3> QED
      BY <3>2, <3>3, <3>4
  <2>4. t \in DOMAIN ArrayOf /\ ArrayOf[t][1] = p.type
    BY <1>2, TablesAgree
  <2>5. v.type = t /\ v.array = TRUE /\ v.elems = p.elems /\ Len(v.elems) > 0
    BY <2>1, <2>3 DEF Whole
  <2>6. Converted(v) = Proto(ArrayOf[t][1], ArrayOf[t][2], p.elems)
    BY <2>4, <2>5 DEF Converted, variantToProto, is_array
  <2> QED
    BY <2>1, <2>4, <2>6
<1> QED
  BY <1>1, <1>2 DEF protoToVariant

(* The value of a variable that a client wrote is what its message says. *)
DataInv ==
    /\ plc = [n \in Variables |-> plc[n]] /\ wrote = [n \in Variables |-> wrote[n]]
    /\ writable \subseteq Variables
    /\ \A n \in Variables :
          wrote[n] # Nothing =>
              /\ OwnField(wrote[n]) /\ plc[n] = protoToVariant(wrote[n])
              /\ plc[n] # NoData

(* A program all of whose writes are well typed. *)
Programmed(s) == \E S : s \in Seq(S) /\ \A c \in S : WellTyped(c)

(* A write keeps the invariant of the data, whether it is accepted or not  *)
(* and whether or not its answer arrives.                                  *)
LEMMA WriteKeeps ==
    ASSUME DataInv, NEW n, NEW p, NEW attr, OwnField(p), writeAttribute(n, p, attr)
    PROVE  DataInv'
<1>1. UNCHANGED writable /\ (Stores(n, attr, p) \/ UNCHANGED <<plc, wrote>>)
  BY DEF writeAttribute
<1>2. CASE UNCHANGED <<plc, wrote>>
  BY <1>1, <1>2 DEF DataInv
<1>3. CASE Accepts(n, attr, protoToVariant(p)) /\ Stores(n, attr, p)
  <2>1. /\ plc' = [plc EXCEPT ![n] = protoToVariant(p)]
        /\ wrote' = [wrote EXCEPT ![n] = p]
        /\ n \in Variables /\ protoToVariant(p) # NoData
    BY <1>3 DEF Stores, Accepts, DataInv
  <2>2. /\ plc'[n] = protoToVariant(p) /\ wrote'[n] = p
        /\ \A m \in Variables \ {n} : plc'[m] = plc[m] /\ wrote'[m] = wrote[m]
        /\ plc' = [m \in Variables |-> plc'[m]] /\ wrote' = [m \in Variables |-> wrote'[m]]
    BY <2>1 DEF DataInv
  <2> QED
    BY <1>1, <2>1, <2>2 DEF DataInv
<1> QED
  BY <1>1, <1>2, <1>3 DEF Stores

(* What a program puts together for a type has the field of that type. *)
LEMMA MadeOwnField ==
    /\ \A t \in DOMAIN ScalarFor : \A e : OwnField(Scalar(t, e))
    /\ \A t \in DOMAIN ArrayFor : \A es \in Seq(Nat) : OwnField(Array(t, es))
<1>1. ASSUME NEW t \in DOMAIN ScalarFor, NEW e PROVE OwnField(Scalar(t, e))
  <2>1. Scalar(t, e).type = t /\ Scalar(t, e).elems[1] = e
    BY DEF Scalar, Proto
  <2>2. t \notin DOMAIN ArrayFor
    BY TablesAgree
  <2> QED
    BY <2>1, <2>2 DEF OwnField
<1>2. ASSUME NEW t \in DOMAIN ArrayFor, NEW es \in Seq(Nat) PROVE OwnField(Array(t, es))
  <2>1. Array(t, es).type = t /\ Array(t, es).elems = es
    BY DEF Array, Proto
  <2>2. t \notin DOMAIN ScalarFor
    BY TablesAgree
  <2> QED
    BY <2>1, <2>2 DEF OwnField
<1> QED
  BY <1>1, <1>2

(* Every call with well typed writes keeps the invariant of the data. *)
LEMMA CallKeepsData ==
    ASSUME DataInv, NEW c, WellTyped(c), Do(c)
    PROVE  DataInv'
<1>1. ASSUME UNCHANGED data PROVE DataInv'
  BY <1>1 DEF data, DataInv
<1>2. CASE c.op = "write" /\ write(c.node, c.value, c.attr)
  BY <1>2, WriteKeeps DEF write, WellTyped
<1>3. CASE c.op = "writeAs" /\ writeAs(c.node, c.type, c.elem)
  <2>1. OwnField(Scalar(c.type, c.elem))
    BY <1>3, MadeOwnField DEF WellTyped
  <2> QED
    BY <1>3, <2>1, WriteKeeps DEF writeAs
<1>4. CASE c.op = "writeArray" /\ writeArray(c.node, c.type, c.elems)
  <2>1. OwnField(Array(c.type, c.elems))
    BY <1>4, MadeOwnField DEF WellTyped
  <2> QED
    BY <1>4, <2>1, WriteKeeps DEF writeArray
<1>5. CASE connect \/ disconnect
  BY <1>1, <1>5 DEF connect, disconnect
<1>6. CASE \E n, a, f : read(n, a, f)
  BY <1>1, <1>6, Zenon DEF read, Asks
<1>7. CASE browse(c.node, c.mask, c.max) \/ browseRecursive(c.node, c.depth)
  BY <1>1, <1>7 DEF browse, browseRecursive, Asks
<1>8. CASE subscribe(c.node)
  BY <1>1, <1>8 DEF subscribe
<1>9. CASE Asks([op |-> "unsubscribe", ok |-> TRUE]) \/ \E h \in handles : unsubscribe(h)
  BY <1>1, <1>9 DEF Asks, unsubscribe
<1>10. CASE callMethod(c.object, c.method, c.args)
  BY <1>1, <1>10, Zenon DEF callMethod, Asks
<1>11. CASE historyReadRaw(c.node)
  BY <1>1, <1>11, Zenon DEF historyReadRaw, Asks
<1>12. readAs(c.node, c.field) => \E n, a, f : read(n, a, f)
  BY Zenon DEF readAs
<1> QED
  BY <1>2, <1>3, <1>4, <1>5, <1>6, <1>7, <1>8, <1>9, <1>10, <1>11, <1>12 DEF Do

(* The PLC changes a variable: nobody's writing is recalled for it. *)
LEMMA ChangeKeepsData ==
    ASSUME DataInv, NEW n, PlcChanges(n)
    PROVE  DataInv'
<1>1. PICK es \in PlcValues(n) : plc' = [plc EXCEPT ![n].elems = es]
  BY DEF PlcChanges
<1>2. wrote' = [wrote EXCEPT ![n] = Nothing] /\ UNCHANGED writable
  BY DEF PlcChanges
<1>3. /\ plc' = [m \in Variables |-> plc'[m]] /\ wrote' = [m \in Variables |-> wrote'[m]]
      /\ \A m \in Variables : m # n => plc'[m] = plc[m] /\ wrote'[m] = wrote[m]
      /\ n \in Variables => wrote'[n] = Nothing
  BY <1>1, <1>2 DEF DataInv
<1> QED
  BY <1>2, <1>3 DEF DataInv

(* A program whose calls come from a set of well typed ones. *)
LEMMA ProgramOf ==
    ASSUME NEW S, NEW s \in Seq(S), \A c \in S : WellTyped(c)
    PROVE  Programmed(s)
BY Zenon DEF Programmed

(* Programs stay well typed when calls are taken from their front or put   *)
(* there, and when they are joined.                                        *)
LEMMA ProgramEmpty == Programmed(<<>>)
<1> DEFINE s == <<>>
           S == {}
<1>1. s \in Seq(S) /\ \A x \in S : WellTyped(x)
  OBVIOUS
<1> HIDE DEF s, S
<1>2. Programmed(s)
  BY <1>1, ProgramOf
<1> QED
  BY <1>2 DEF s

(* What is left of a well-typed program is well typed. *)
LEMMA ProgramTail ==
    ASSUME NEW s, Programmed(s), s # <<>>
    PROVE  WellTyped(Head(s)) /\ Programmed(Tail(s))
<1>1. PICK S : s \in Seq(S) /\ \A c \in S : WellTyped(c)
  BY DEF Programmed
<1>2. Head(s) \in S /\ Tail(s) \in Seq(S)
  BY <1>1
<1> QED
  BY <1>1, <1>2, Zenon DEF Programmed

(* Two well-typed programs after each other are well typed. *)
LEMMA ProgramConcat ==
    ASSUME NEW s, NEW t, Programmed(s), Programmed(t)
    PROVE  Programmed(s \o t)
<1>1. PICK S : s \in Seq(S) /\ \A c \in S : WellTyped(c)
  BY DEF Programmed
<1>2. PICK T : t \in Seq(T) /\ \A c \in T : WellTyped(c)
  BY DEF Programmed
<1>3. s \o t \in Seq(S \cup T)
  BY <1>1, <1>2
<1>4. \A c \in S \cup T : WellTyped(c)
  BY <1>1, <1>2
<1> QED
  BY <1>3, <1>4, Zenon DEF Programmed

(* A list of calls given by its entries. *)
LEMMA ProgramList ==
    ASSUME NEW n \in Nat, NEW s, s = [k \in 1..n |-> s[k]],
           \A k \in 1..n : WellTyped(s[k])
    PROVE  Programmed(s)
<1> DEFINE S == {s[k] : k \in 1..n}
<1>1. s \in Seq(S)
  <2>1. s \in [1..n -> S]
    OBVIOUS
  <2> HIDE DEF S
  <2> QED
    BY <2>1
<1>2. \A c \in S : WellTyped(c)
  OBVIOUS
<1> HIDE DEF S
<1> QED
  BY <1>1, <1>2, Zenon DEF Programmed

(* Calls that write nothing. *)
LEMMA ReadsTyped ==
    /\ WellTyped(Connect) /\ WellTyped(Disconnect) /\ WellTyped(Retry)
    /\ WellTyped(ReadEach) /\ WellTyped(Unsubscribe)
    /\ \A n, a : WellTyped(Read(n, a)) /\ WellTyped(ReadAs(n, a))
    /\ \A n, m, k : WellTyped(Browse(n, m, k)) /\ WellTyped(CallMethod(n, m, k))
    /\ \A n : \A d \in Int : WellTyped(Recurse(n, d))
    /\ \A n : WellTyped(Subscribe(n)) /\ WellTyped(History(n)) /\ WellTyped(EachOf(n))
BY DEF WellTyped, Connect, Disconnect, Retry, ReadEach, Unsubscribe, Read, ReadAs,
       Browse, CallMethod, Recurse, Subscribe, History, EachOf

(* Calls that write an array. *)
LEMMA ArrayWritesTyped ==
    ASSUME NEW n, NEW es \in Seq(Nat), NEW t \in {"ARRAY_INT32", "ARRAY_FLOAT"}
    PROVE  WellTyped(WriteArray(n, t, es))
<1>1. t \in DOMAIN ArrayFor
  BY DEF ArrayFor
<1> QED
  BY <1>1 DEF WellTyped, WriteArray

(* Other calls that write. *)
LEMMA WritesTyped ==
    /\ \A n, a, e : \A t \in DOMAIN ScalarFor :
          WellTyped(WriteAs(n, t, e)) /\ WellTyped(Write(n, Scalar(t, e), a))
    /\ \A n, a, f : \A t \in {"BYTESTRING", "LOCALIZEDTEXT"} :
          WellTyped(Write(n, Unsupported(t, f), a))
    /\ {"BOOL", "INT32", "FLOAT", "STRING", "UINT64"} \subseteq DOMAIN ScalarFor
<1>1. ASSUME NEW n, NEW a, NEW e, NEW t \in DOMAIN ScalarFor
      PROVE  WellTyped(WriteAs(n, t, e)) /\ WellTyped(Write(n, Scalar(t, e), a))
  BY MadeOwnField DEF WellTyped, WriteAs, Write
<1>2. ASSUME NEW n, NEW a, NEW f, NEW t \in {"BYTESTRING", "LOCALIZEDTEXT"}
      PROVE  WellTyped(Write(n, Unsupported(t, f), a))
  <2>1. Unsupported(t, f).type = t
    BY DEF Unsupported, Proto
  <2>2. t \notin DOMAIN ScalarFor /\ t \notin DOMAIN ArrayFor
    BY DEF ScalarFor, ArrayFor
  <2> QED
    BY <2>1, <2>2 DEF WellTyped, Write, OwnField
<1>3. {"BOOL", "INT32", "FLOAT", "STRING", "UINT64"} \subseteq DOMAIN ScalarFor
  BY DEF ScalarFor
<1> QED
  BY <1>1, <1>2, <1>3

(* A program of so many calls. *)
LEMMA Program1 ==
    ASSUME NEW a,
           WellTyped(a)
    PROVE  Programmed(<<a>>)
<1> DEFINE s == <<a>>
           S == {a}
<1>1. s \in Seq(S) /\ \A x \in S : WellTyped(x)
  OBVIOUS
<1> HIDE DEF s, S
<1>2. Programmed(s)
  BY <1>1, ProgramOf
<1> QED
  BY <1>2 DEF s

(* A program of two well-typed calls. *)
LEMMA Program2 ==
    ASSUME NEW a, NEW b,
           WellTyped(a), WellTyped(b)
    PROVE  Programmed(<<a, b>>)
<1> DEFINE s == <<a, b>>
           S == {a, b}
<1>1. s \in Seq(S) /\ \A x \in S : WellTyped(x)
  OBVIOUS
<1> HIDE DEF s, S
<1>2. Programmed(s)
  BY <1>1, ProgramOf
<1> QED
  BY <1>2 DEF s

(* A program of three well-typed calls. *)
LEMMA Program3 ==
    ASSUME NEW a, NEW b, NEW c,
           WellTyped(a), WellTyped(b), WellTyped(c)
    PROVE  Programmed(<<a, b, c>>)
<1> DEFINE s == <<a, b, c>>
           S == {a, b, c}
<1>1. s \in Seq(S) /\ \A x \in S : WellTyped(x)
  OBVIOUS
<1> HIDE DEF s, S
<1>2. Programmed(s)
  BY <1>1, ProgramOf
<1> QED
  BY <1>2 DEF s

(* A program of four well-typed calls. *)
LEMMA Program4 ==
    ASSUME NEW a, NEW b, NEW c, NEW d,
           WellTyped(a), WellTyped(b), WellTyped(c), WellTyped(d)
    PROVE  Programmed(<<a, b, c, d>>)
<1> DEFINE s == <<a, b, c, d>>
           S == {a, b, c, d}
<1>1. s \in Seq(S) /\ \A x \in S : WellTyped(x)
  OBVIOUS
<1> HIDE DEF s, S
<1>2. Programmed(s)
  BY <1>1, ProgramOf
<1> QED
  BY <1>2 DEF s

(* A program of five well-typed calls. *)
LEMMA Program5 ==
    ASSUME NEW a, NEW b, NEW c, NEW d, NEW e,
           WellTyped(a), WellTyped(b), WellTyped(c), WellTyped(d), WellTyped(e)
    PROVE  Programmed(<<a, b, c, d, e>>)
<1> DEFINE s == <<a, b, c, d, e>>
           S == {a, b, c, d, e}
<1>1. s \in Seq(S) /\ \A x \in S : WellTyped(x)
  OBVIOUS
<1> HIDE DEF s, S
<1>2. Programmed(s)
  BY <1>1, ProgramOf
<1> QED
  BY <1>2 DEF s

(* A program of six well-typed calls. *)
LEMMA Program6 ==
    ASSUME NEW a, NEW b, NEW c, NEW d, NEW e, NEW f,
           WellTyped(a), WellTyped(b), WellTyped(c), WellTyped(d), WellTyped(e),
           WellTyped(f)
    PROVE  Programmed(<<a, b, c, d, e, f>>)
<1> DEFINE s == <<a, b, c, d, e, f>>
           S == {a, b, c, d, e, f}
<1>1. s \in Seq(S) /\ \A x \in S : WellTyped(x)
  OBVIOUS
<1> HIDE DEF s, S
<1>2. Programmed(s)
  BY <1>1, ProgramOf
<1> QED
  BY <1>2 DEF s

(* A program of seven well-typed calls. *)
LEMMA Program7 ==
    ASSUME NEW a, NEW b, NEW c, NEW d, NEW e, NEW f, NEW g,
           WellTyped(a), WellTyped(b), WellTyped(c), WellTyped(d), WellTyped(e),
           WellTyped(f), WellTyped(g)
    PROVE  Programmed(<<a, b, c, d, e, f, g>>)
<1> DEFINE s == <<a, b, c, d, e, f, g>>
           S == {a, b, c, d, e, f, g}
<1>1. s \in Seq(S) /\ \A x \in S : WellTyped(x)
  OBVIOUS
<1> HIDE DEF s, S
<1>2. Programmed(s)
  BY <1>1, ProgramOf
<1> QED
  BY <1>2 DEF s

(* A program of nine well-typed calls. *)
LEMMA Program9 ==
    ASSUME NEW a, NEW b, NEW c, NEW d, NEW e, NEW f, NEW g, NEW h, NEW i,
           WellTyped(a), WellTyped(b), WellTyped(c), WellTyped(d), WellTyped(e),
           WellTyped(f), WellTyped(g), WellTyped(h), WellTyped(i)
    PROVE  Programmed(<<a, b, c, d, e, f, g, h, i>>)
<1> DEFINE s == <<a, b, c, d, e, f, g, h, i>>
           S == {a, b, c, d, e, f, g, h, i}
<1>1. s \in Seq(S) /\ \A x \in S : WellTyped(x)
  OBVIOUS
<1> HIDE DEF s, S
<1>2. Programmed(s)
  BY <1>1, ProgramOf
<1> QED
  BY <1>2 DEF s

(* Batch requests. *)
LEMMA BatchTyped ==
    /\ \A ns \in Seq(Nat) : \A a : Programmed(batchRead(ns, a))
    /\ \A ns \in Seq(Nat) : \A t \in DOMAIN ScalarFor : Programmed(batchWrite(ns, t))
<1>1. ASSUME NEW ns \in Seq(Nat), NEW a PROVE Programmed(batchRead(ns, a))
  <2>1. Len(ns) \in Nat /\ DOMAIN ns = 1..Len(ns)
    OBVIOUS
  <2>2. batchRead(ns, a) = [k \in 1..Len(ns) |-> batchRead(ns, a)[k]]
    BY <2>1 DEF batchRead
  <2>3. \A k \in 1..Len(ns) : WellTyped(batchRead(ns, a)[k])
    BY <2>1, ReadsTyped DEF batchRead
  <2> QED
    BY <2>1, <2>2, <2>3, ProgramList
<1>2. ASSUME NEW ns \in Seq(Nat), NEW t \in DOMAIN ScalarFor PROVE Programmed(batchWrite(ns, t))
  <2>1. Len(ns) \in Nat /\ DOMAIN ns = 1..Len(ns)
    OBVIOUS
  <2>2. batchWrite(ns, t) = [k \in 1..Len(ns) |-> batchWrite(ns, t)[k]]
    BY <2>1 DEF batchWrite
  <2>3. \A k \in 1..Len(ns) : WellTyped(batchWrite(ns, t)[k])
    BY <2>1, WritesTyped DEF batchWrite
  <2> QED
    BY <2>1, <2>2, <2>3, ProgramList
<1> QED
  BY <1>1, <1>2

(* Every scenario writes values of types that can be written, or of types  *)
(* that are refused.                                                       *)
LEMMA ScenariosTyped == \A k \in DOMAIN Scenarios : Programmed(Scenarios[k])
<1>1. Programmed(scenario_connect_disconnect)
  BY Program2, ReadsTyped DEF scenario_connect_disconnect
<1>2. Programmed(scenario_read_scalar_types)
  BY Program9, ReadsTyped DEF scenario_read_scalar_types
<1>3. Programmed(scenario_read_array_types)
  BY Program4, ReadsTyped DEF scenario_read_array_types
<1>4. Programmed(scenario_read_attributes)
  <2> DEFINE s == [i \in 1..7 |-> Read(1001, <<14, 15, 2, 5, 21, 22, 6>>[i])]
  <2>1. s = [k \in 1..7 |-> s[k]] /\ \A k \in 1..7 : WellTyped(s[k])
    BY ReadsTyped
  <2>2. Programmed(s)
    <3> HIDE DEF s
    <3> QED
      BY <2>1, ProgramList, 7 \in Nat
  <2>3. Programmed(<<Connect>>)
    BY Program1, ReadsTyped
  <2> QED
    BY <2>2, <2>3, ProgramConcat DEF scenario_read_attributes
<1>5. Programmed(scenario_write_scalar_types)
  <2>1. /\ WellTyped(Connect) /\ WellTyped(WriteAs(1001, "BOOL", 1))
        /\ WellTyped(WriteAs(1002, "INT32", 42)) /\ WellTyped(WriteAs(1005, "FLOAT", 1))
        /\ WellTyped(WriteAs(1007, "STRING", 1)) /\ WellTyped(ReadAs(1002, "int32_val"))
        /\ WellTyped(Write(1002, Scalar("INT32", 100), 0))
    BY ReadsTyped, WritesTyped
  <2> QED
    BY <2>1, Program7 DEF scenario_write_scalar_types
<1>6. Programmed(scenario_write_array_types)
  <2> DEFINE es == <<10, 20, 30, 40, 50>>
             fs == <<1, 2, 3>>
  <2>1. es \in Seq(Nat) /\ fs \in Seq(Nat)
    OBVIOUS
  <2>2. /\ WellTyped(Connect) /\ WellTyped(WriteArray(2001, "ARRAY_INT32", es))
        /\ WellTyped(WriteArray(2002, "ARRAY_FLOAT", fs))
    <3> HIDE DEF es, fs
    <3> QED
      BY <2>1, ReadsTyped, ArrayWritesTyped
  <2> QED
    BY <2>2, Program3 DEF scenario_write_array_types
<1>7. Programmed(scenario_batch_read)
  <2> DEFINE ns == <<1001, 1002, 1005, 1007, 2001>>
  <2>1. ns \in Seq(Nat)
    OBVIOUS
  <2>2. Programmed(batchRead(ns, 13))
    <3> HIDE DEF ns
    <3> QED
      BY <2>1, BatchTyped
  <2>3. Programmed(<<Connect>>)
    BY Program1, ReadsTyped
  <2> QED
    BY <2>2, <2>3, ProgramConcat DEF scenario_batch_read
<1>8. Programmed(scenario_batch_write)
  <2> DEFINE ns == <<1002, 1003, 1004>>
  <2>1. ns \in Seq(Nat) /\ "INT32" \in DOMAIN ScalarFor
    BY WritesTyped
  <2>2. Programmed(batchWrite(ns, "INT32"))
    <3> HIDE DEF ns
    <3> QED
      BY <2>1, BatchTyped
  <2>3. Programmed(<<Connect>>)
    BY Program1, ReadsTyped
  <2> QED
    BY <2>2, <2>3, ProgramConcat DEF scenario_batch_write
<1>9. Programmed(scenario_browse)
  BY Program6, ReadsTyped DEF scenario_browse
<1>10. Programmed(scenario_subscription)
  BY Program3, ReadsTyped DEF scenario_subscription
<1>11. Programmed(scenario_method_call)
  BY Program3, ReadsTyped DEF scenario_method_call
<1>12. Programmed(scenario_history_read)
  BY Program2, ReadsTyped DEF scenario_history_read
<1>13. Programmed(scenario_string_nodeid)
  BY Program5, ReadsTyped, WritesTyped DEF scenario_string_nodeid
<1>14. Programmed(scenario_write_attribute)
  BY Program2, ReadsTyped, WritesTyped DEF scenario_write_attribute
<1>15. Programmed(scenario_raw_bytes)
  BY Program3, ReadsTyped, WritesTyped DEF scenario_raw_bytes
<1>16. Programmed(scenario_structured_types)
  BY Program3, ReadsTyped, WritesTyped DEF scenario_structured_types
<1>17. Programmed(scenario_unified_message)
  BY Program2, ReadsTyped DEF scenario_unified_message
<1>18. Programmed(scenario_secure_connection)
  BY Program1, ReadsTyped DEF scenario_secure_connection
<1>19. Programmed(scenario_polling_from_config)
  <2> DEFINE ns == <<1005, 1006, 1002, 1001, 1003>>
  <2>1. ns \in Seq(Nat)
    OBVIOUS
  <2>2. Programmed(batchRead(ns, 0))
    <3> HIDE DEF ns
    <3> QED
      BY <2>1, BatchTyped
  <2>3. Programmed(<<Connect>>)
    BY Program1, ReadsTyped
  <2> QED
    BY <2>2, <2>3, ProgramConcat DEF scenario_polling_from_config
<1>20. Programmed(scenario_error_handling)
  BY Program7, ReadsTyped, WritesTyped DEF scenario_error_handling
<1>21. Programmed(scenario_proto_wire_transport)
  <2> DEFINE ns == [i \in 1..10 |-> 1000 + i]
  <2>1. ns \in Seq(Nat)
    OBVIOUS
  <2>2. Programmed(batchRead(ns, 0))
    <3> HIDE DEF ns
    <3> QED
      BY <2>1, BatchTyped
  <2>3. Programmed(<<Connect>>)
    BY Program1, ReadsTyped
  <2> QED
    BY <2>2, <2>3, ProgramConcat DEF scenario_proto_wire_transport
<1>22. Programmed(scenario_large_integer)
  BY Program4, ReadsTyped, WritesTyped DEF scenario_large_integer
<1>23. Programmed(scenario_browse_and_read)
  BY Program3, ReadsTyped DEF scenario_browse_and_read
<1>24. Programmed(scenario_datetime)
  BY Program2, ReadsTyped DEF scenario_datetime
<1>25. Programmed(scenario_status_code_detail)
  BY Program2, ReadsTyped DEF scenario_status_code_detail
<1> DEFINE P == {
        scenario_connect_disconnect, scenario_read_scalar_types,
        scenario_read_array_types, scenario_read_attributes,
        scenario_write_scalar_types, scenario_write_array_types,
        scenario_batch_read, scenario_batch_write, scenario_browse,
        scenario_subscription, scenario_method_call, scenario_history_read,
        scenario_string_nodeid, scenario_write_attribute, scenario_raw_bytes,
        scenario_structured_types, scenario_unified_message,
        scenario_secure_connection, scenario_polling_from_config,
        scenario_error_handling, scenario_proto_wire_transport,
        scenario_large_integer, scenario_browse_and_read, scenario_datetime,
        scenario_status_code_detail}
<1>26. main \in Seq(P) /\ scenario_subscription \in P
  BY DEF main
<1>27. \A k \in DOMAIN Scenarios : Scenarios[k] \in P
  BY <1>26 DEF Scenarios
<1>28. \A s \in P : Programmed(s)
  BY <1>1, <1>2, <1>3, <1>4, <1>5, <1>6, <1>7, <1>8, <1>9, <1>10, <1>11, <1>12,
     <1>13, <1>14, <1>15, <1>16, <1>17, <1>18, <1>19, <1>20, <1>21, <1>22,
     <1>23, <1>24, <1>25
<1> QED
  BY <1>27, <1>28

ValueInv == DataInv /\ Programmed(todo)

(* Every step of a program or of the PLC keeps both. *)
LEMMA ValueStep ==
    ASSUME ValueInv, [Next]_vars
    PROVE  ValueInv'
<1> USE DEF ValueInv
<1>1. ASSUME UNCHANGED data PROVE DataInv'
  BY <1>1 DEF data, DataInv
<1>2. CASE Step
  <2>1. todo # <<>> /\ Do(Head(todo)) /\ (todo' = <<>> \/ todo' = Tail(todo))
    BY <1>2 DEF Step
  <2>2. WellTyped(Head(todo)) /\ Programmed(Tail(todo))
    BY <2>1, ProgramTail
  <2> QED
    BY <2>1, <2>2, CallKeepsData, ProgramEmpty
<1>3. CASE StepReadEach
  <2>1. todo # <<>> /\ UNCHANGED data
    BY <1>3 DEF StepReadEach, cvars
  <2>2. Programmed(Tail(todo))
    BY <2>1, ProgramTail
  <2>3. CASE todo' = <<EachOf(ret.refs)>> \o Tail(todo)
    <3>1. Programmed(<<EachOf(ret.refs)>>)
      BY Program1, ReadsTyped
    <3> QED
      BY <1>1, <2>1, <2>2, <2>3, <3>1, ProgramConcat
  <2>4. CASE todo' = << Read(Head(Head(todo).vars).node, 13),
                        EachOf(Tail(Head(todo).vars)) >> \o Tail(todo)
    <3>1. Programmed(<< Read(Head(Head(todo).vars).node, 13), EachOf(Tail(Head(todo).vars)) >>)
      BY Program2, ReadsTyped
    <3> QED
      BY <1>1, <2>1, <2>2, <2>4, <3>1, ProgramConcat
  <2>5. CASE todo' = Tail(todo)
    BY <1>1, <2>1, <2>2, <2>5
  <2> QED
    BY <1>3, <2>3, <2>4, <2>5 DEF StepReadEach
<1>4. CASE StepRetry
  <2>1. todo # <<>> /\ UNCHANGED data /\ todo' = Tail(todo)
    BY <1>4 DEF StepRetry, cvars, connect
  <2> QED
    BY <1>1, <2>1, ProgramTail
<1>5. CASE Finished \/ UNCHANGED vars
  <2>1. UNCHANGED data /\ UNCHANGED todo
    BY <1>5 DEF Finished, vars, cvars
  <2> QED
    BY <1>1, <2>1
<1>6. CASE OpenCall
  <2>1. UNCHANGED todo /\ \E c \in SubscriberCalls \cup ExplorerCalls : Do(c)
    BY <1>6 DEF OpenCall
  <2> QED
    BY <2>1, CallKeepsData, VocabularyAssumption
<1>7. CASE Environment
  <2>1. UNCHANGED todo /\ (UNCHANGED data \/ \E n : PlcChanges(n))
    BY <1>7 DEF Environment, LoseConnection, dataChangeHandler
  <2> QED
    BY <1>1, <2>1, ChangeKeepsData
<1> QED
  BY <1>2, <1>3, <1>4, <1>5, <1>6, <1>7 DEF Next

(* It holds at the start of every program. *)
LEMMA ValueStart == Init => ValueInv
<1> SUFFICES ASSUME Init PROVE ValueInv
  OBVIOUS
<1>1. DataInv
  <2>1. writable \subseteq Variables
    BY ClientAssumption DEF Init, ClientInit, Variables, ClientAssumption
  <2> QED
    BY <2>1 DEF Init, ClientInit, DataInv
<1>2. Programmed(todo)
  BY ScenariosTyped, ProgramEmpty DEF Init
<1> QED
  BY <1>1, <1>2 DEF ValueInv

(* What a client stored and the PLC has not changed since is read back as  *)
(* the same message, for every PLC, every program and every type that can  *)
(* be written, if its strings have no NUL and it is not an empty array;    *)
(* the empty string alone loses its field.                                 *)
THEOREM ValuesReadBack == Spec => []ReadsBackAsWritten
<1>1. ValueInv => ReadsBackAsWritten
  BY RoundTrip DEF ValueInv, DataInv, ReadsBackAsWritten
<1> QED
  BY <1>1, ValueStart, ValueStep, PTL DEF Spec

-----------------------------------------------------------------------------
(* browseRecursive().  Induction and recursion over the depth are stated   *)
(* about sets and functions.                                               *)

(* A set of numbers that has 0 and with each number the next one has all.  *)
LEMMA Induction ==
    ASSUME NEW S \in SUBSET Nat, 0 \in S, \A k \in S : k + 1 \in S
    PROVE  S = Nat
<1> DEFINE R == {ss \in Nat \X Nat : ss[1] < ss[2]}
           D == Nat \ S
<1>1. OpToRel(<, Nat) = R
  BY Zenon DEF OpToRel
<1>2. IsWellFoundedOn(R, Nat)
  BY <1>1, NatLessThanWellFounded, Zenon
<1>3. D \in SUBSET Nat
  OBVIOUS
<1>4. ASSUME D # {}  PROVE FALSE
  <2>1. PICK x \in D : \A y \in D : ~(<<y, x>> \in R)
    <3> HIDE DEF R, D
    <3> QED  BY <1>2, <1>3, <1>4, WFMin, Zenon
  <2>2. x \in Nat /\ x # 0
    BY <2>1
  <2>3. x - 1 \in Nat /\ (x - 1) + 1 = x /\ <<x - 1, x>> \in R
    BY <2>2
  <2>4. x - 1 \in S
    BY <2>1, <2>3
  <2>5. x \in S
    BY <2>3, <2>4
  <2>6. QED
    BY <2>1, <2>5
<1>5. QED
  BY <1>4

(* f lists values of V, each made by F from the one before.                *)
Iterates(f, V, v0, F) ==
    f \in [Nat -> V] /\ f[0] = v0 /\ \A k \in Nat : f[k + 1] = F[<<k, f[k]>>]

(* Such a list exists.                                                     *)
LEMMA Recursion ==
    ASSUME NEW V, NEW v0 \in V, NEW F \in [Nat \X V -> V]
    PROVE  \E f : Iterates(f, V, v0, F)
<1> DEFINE G(g, k) == /\ g \in [0..k -> V] /\ g[0] = v0
                      /\ \A i \in Nat : i < k => g[i + 1] = F[<<i, g[i]>>]
<1>1. \A k \in Nat : \E g : G(g, k)
  <2> DEFINE S == {k \in Nat : \E g : G(g, k)}
  <2>1. 0 \in S
    <3> DEFINE g == [i \in 0..0 |-> v0]
    <3>1. G(g, 0)
      OBVIOUS
    <3>2. QED
      BY <3>1
  <2>2. ASSUME NEW k \in S  PROVE k + 1 \in S
    <3>1. PICK g : G(g, k)
      OBVIOUS
    <3> DEFINE h == [i \in 0..(k + 1) |-> IF i <= k THEN g[i] ELSE F[<<k, g[k]>>]]
    <3>2. k \in Nat /\ g \in [0..k -> V]
      BY <3>1
    <3>3. g[k] \in V /\ F[<<k, g[k]>>] \in V
      BY <3>2
    <3>4. h \in [0..(k + 1) -> V]
      <4>1. \A i \in 0..(k + 1) : i <= k => g[i] \in V
        BY <3>2
      <4>2. QED
        BY <3>3, <4>1
    <3>5. h[0] = v0
      BY <3>1, <3>2
    <3>6. ASSUME NEW i \in Nat, i < k + 1  PROVE h[i + 1] = F[<<i, h[i]>>]
      <4>1. h[i] = g[i]
        BY <3>2, <3>6
      <4>2. CASE i < k
        <5>1. h[i + 1] = g[i + 1]
          BY <3>2, <4>2
        <5>2. g[i + 1] = F[<<i, g[i]>>]
          BY <3>1, <4>2
        <5>3. QED
          BY <4>1, <5>1, <5>2
      <4>3. CASE i = k
        <5>1. h[i + 1] = F[<<k, g[k]>>]
          BY <3>2, <4>3
        <5>2. QED
          BY <4>1, <4>3, <5>1
      <4>4. QED
        BY <3>2, <3>6, <4>2, <4>3
    <3> HIDE DEF h
    <3>7. G(h, k + 1)
      BY <3>4, <3>5, <3>6
    <3>8. k + 1 \in Nat
      BY <3>2
    <3> HIDE DEF G
    <3>9. QED
      BY <3>7, <3>8
  <2>3. S \in SUBSET Nat
    OBVIOUS
  <2>4. S = Nat
    <3> HIDE DEF S
    <3> QED  BY <2>1, <2>2, <2>3, Induction
  <2>5. QED
    BY <2>4
<1>2. ASSUME NEW k \in Nat, NEW m \in Nat, NEW g, NEW h, G(g, k), G(h, m), k <= m
      PROVE  \A i \in 0..k : g[i] = h[i]
  <2> DEFINE S == {i \in Nat : i <= k => g[i] = h[i]}
  <2>1. 0 \in S
    BY <1>2
  <2>2. ASSUME NEW i \in S  PROVE i + 1 \in S
    <3>1. i \in Nat /\ i + 1 \in Nat
      OBVIOUS
    <3>2. ASSUME i + 1 <= k  PROVE g[i + 1] = h[i + 1]
      <4>1. i < k /\ i < m /\ i <= k
        BY <1>2, <3>1, <3>2
      <4>2. g[i] = h[i]
        BY <4>1
      <4>3. g[i + 1] = F[<<i, g[i]>>] /\ h[i + 1] = F[<<i, h[i]>>]
        BY <1>2, <3>1, <4>1
      <4>4. QED
        BY <4>2, <4>3
    <3>3. QED
      BY <3>1, <3>2
  <2>3. S \in SUBSET Nat
    OBVIOUS
  <2>4. S = Nat
    <3> HIDE DEF S
    <3> QED  BY <2>1, <2>2, <2>3, Induction
  <2>5. ASSUME NEW i \in 0..k  PROVE g[i] = h[i]
    <3>1. i \in Nat /\ i <= k
      OBVIOUS
    <3>2. QED
      BY <2>4, <3>1
  <2>6. QED
    BY <2>5
<1> DEFINE c(k) == CHOOSE g : G(g, k)
           f == [k \in Nat |-> c(k)[k]]
<1>3. \A k \in Nat : G(c(k), k)
  <2> HIDE DEF G
  <2> QED  BY <1>1
<1> HIDE DEF c
<1>4. \A k \in Nat : c(k)[k] \in V
  BY <1>3
<1>5. f \in [Nat -> V]
  BY <1>4
<1>6. f[0] = v0
  BY <1>3
<1>7. ASSUME NEW k \in Nat  PROVE f[k + 1] = F[<<k, f[k]>>]
  <2>1. k + 1 \in Nat /\ k <= k + 1 /\ k < k + 1 /\ k \in 0..k
    OBVIOUS
  <2>2. c(k)[k] = c(k + 1)[k]
    <3>1. G(c(k), k) /\ G(c(k + 1), k + 1)
      BY <1>3, <2>1
    <3> HIDE DEF G
    <3>2. \A i \in 0..k : c(k)[i] = c(k + 1)[i]
      BY <1>2, <2>1, <3>1
    <3>3. QED
      BY <2>1, <3>2
  <2>3. c(k + 1)[k + 1] = F[<<k, c(k + 1)[k]>>]
    BY <1>3, <2>1
  <2>4. f[k] = c(k)[k] /\ f[k + 1] = c(k + 1)[k + 1]
    BY <2>1
  <2>5. QED
    BY <2>2, <2>3, <2>4
<1> HIDE DEF f
<1>8. Iterates(f, V, v0, F)
  BY <1>5, <1>6, <1>7, Zenon DEF Iterates
<1>9. QED
  BY <1>8


(* The elements of a concatenation.                                        *)
LEMMA ConcatRange ==
    ASSUME NEW T, NEW a \in Seq(T), NEW b \in Seq(T)
    PROVE  a \o b \in Seq(T) /\ Range(a \o b) = Range(a) \cup Range(b)
<1>1. a \o b \in Seq(T) /\ DOMAIN (a \o b) = 1..(Len(a) + Len(b))
  OBVIOUS
<1>2. \A i \in 1..(Len(a) + Len(b)) : (a \o b)[i] = IF i <= Len(a) THEN a[i] ELSE b[i - Len(a)]
  OBVIOUS
<1>3. /\ Len(a) \in Nat /\ DOMAIN a = 1..Len(a)
      /\ Len(b) \in Nat /\ DOMAIN b = 1..Len(b)
  OBVIOUS
<1> DEFINE c == a \o b
           m == Len(a)
           n == Len(b)
<1>4. /\ m \in Nat /\ n \in Nat /\ DOMAIN a = 1..m /\ DOMAIN b = 1..n /\ DOMAIN c = 1..(m + n)
      /\ \A i \in 1..(m + n) : c[i] = IF i <= m THEN a[i] ELSE b[i - m]
  BY <1>1, <1>2, <1>3
<1> HIDE DEF c, m, n
<1>5. ASSUME NEW i \in DOMAIN c  PROVE c[i] \in Range(a) \cup Range(b)
  <2>1. CASE i <= m
    BY <1>4, <2>1 DEF Range
  <2>2. CASE ~(i <= m)
    <3>1. i - m \in DOMAIN b /\ c[i] = b[i - m]
      BY <1>4, <2>2
    <3>2. QED
      BY <3>1 DEF Range
  <2>3. QED
    BY <2>1, <2>2
<1>6. ASSUME NEW i \in DOMAIN a  PROVE a[i] \in Range(c)
  <2>1. i \in DOMAIN c /\ c[i] = a[i]
    BY <1>4
  <2>2. QED
    BY <2>1 DEF Range
<1>7. ASSUME NEW i \in DOMAIN b  PROVE b[i] \in Range(c)
  <2>1. m + i \in 1..(m + n) /\ ~(m + i <= m) /\ (m + i) - m = i
    BY <1>4
  <2>2. m + i \in DOMAIN c /\ c[m + i] = b[i]
    BY <1>4, <2>1
  <2>3. QED
    BY <2>2 DEF Range
<1>8. Range(c) = Range(a) \cup Range(b)
  BY <1>5, <1>6, <1>7 DEF Range
<1>9. QED
  BY <1>1, <1>8 DEF c

(* One more set in a union.                                                *)
LEMMA UnionOneMore ==
    ASSUME NEW A, NEW x
    PROVE  UNION (A \cup {x}) = (UNION A) \cup x
<1>1. ASSUME NEW z  PROVE z \in UNION (A \cup {x}) <=> z \in (UNION A) \cup x
  <2>1. z \in UNION (A \cup {x}) => z \in (UNION A) \cup x
    BY Zenon
  <2>2. z \in (UNION A) \cup x => z \in UNION (A \cup {x})
    BY Zenon
  <2>3. QED
    BY <2>1, <2>2
<1>2. QED
  BY <1>1, Zenon

(* FlattenSeq() loses nothing and adds nothing.                            *)
LEMMA Flattened ==
    ASSUME NEW T, NEW s \in Seq(Seq(T))
    PROVE  FlattenSeq(s) \in Seq(T) /\ Range(FlattenSeq(s)) = UNION {Range(s[i]) : i \in 1..Len(s)}
<1> DEFINE n == Len(s)
           Solves(f) == f = [i \in 1..n |-> IF i = 1 THEN s[i] ELSE f[i - 1] \o s[i]]
           g == CHOOSE f : Solves(f)
<1>1. n \in Nat /\ \A i \in 1..n : s[i] \in Seq(T)
  OBVIOUS
<1>2. CASE n = 0
  <2>1. FlattenSeq(s) = s
    BY <1>2 DEF FlattenSeq
  <2>2. s = << >> /\ s \in Seq(T) /\ Range(s) = {}
    BY <1>2 DEF Range
  <2>3. UNION {Range(s[i]) : i \in 1..Len(s)} = {}
    BY <1>2
  <2>4. QED
    BY <2>1, <2>2, <2>3
<1>3. CASE n # 0
  <2>1. FlattenSeq(s) = g[n]
    BY <1>3 DEF FlattenSeq
  <2> HIDE DEF n
  <2> DEFINE V == Seq(T)
             F == [x \in Nat \X V |-> IF x[1] + 1 \in 1..n THEN x[2] \o s[x[1] + 1] ELSE x[2]]
  <2>2. F \in [Nat \X V -> V]
    <3>1. ASSUME NEW x \in Nat \X V
          PROVE  (IF x[1] + 1 \in 1..n THEN x[2] \o s[x[1] + 1] ELSE x[2]) \in V
      BY <1>1, ConcatRange
    <3>2. QED
      BY <3>1
  <2>3. << >> \in V
    OBVIOUS
  <2>4. \A k \in Nat : \A v \in V : k + 1 \in 1..n => F[<<k, v>>] = v \o s[k + 1]
    OBVIOUS
  <2> HIDE DEF F, V
  <2>0. PICK f : Iterates(f, V, << >>, F)
    BY <2>2, <2>3, Recursion
  <2>5. f \in [Nat -> V] /\ f[0] = << >> /\ \A k \in Nat : f[k + 1] = F[<<k, f[k]>>]
    BY <2>0 DEF Iterates
  <2>6. ASSUME NEW i \in 1..n  PROVE i - 1 \in Nat /\ f[i - 1] \in V /\ f[i] = f[i - 1] \o s[i]
    <3>1. i - 1 \in Nat /\ (i - 1) + 1 = i /\ f[i - 1] \in V
      BY <1>1, <2>5
    <3>2. f[i] = F[<<i - 1, f[i - 1]>>]
      BY <2>5, <3>1
    <3>3. QED
      BY <2>4, <3>1, <3>2
  <2> DEFINE h == [i \in 1..n |-> f[i]]
  <2>7. ASSUME NEW i \in 1..n  PROVE h[i] = IF i = 1 THEN s[i] ELSE h[i - 1] \o s[i]
    <3>1. CASE i = 1
      <4>1. f[i - 1] = << >>
        BY <2>5, <3>1
      <4>2. s[i] \in Seq(T)
        BY <1>1
      <4>3. << >> \o s[i] = s[i]
        BY <4>2
      <4>4. QED
        BY <2>6, <3>1, <4>1, <4>3
    <3>2. CASE i # 1
      <4>1. i - 1 \in 1..n
        BY <1>1, <3>2
      <4>2. QED
        BY <2>6, <3>2, <4>1
    <3>3. QED
      BY <3>1, <3>2
  <2>8. Solves(h)
    BY <2>7
  <2>9. Solves(g)
    <3> HIDE DEF Solves
    <3> QED  BY <2>8
  <2> HIDE DEF g
  <2>10. \A i \in 1..n : g[i] = IF i = 1 THEN s[i] ELSE g[i - 1] \o s[i]
    BY <2>9
  <2> HIDE DEF Solves
  <2> DEFINE S == {k \in Nat : k + 1 \in 1..n =>
                      /\ g[k + 1] \in Seq(T)
                      /\ Range(g[k + 1]) = UNION {Range(s[i]) : i \in 1..(k + 1)}}
  <2>11. 0 \in S
    <3>1. 1 \in 1..n => g[1] = s[1]
      BY <2>10
    <3>2. UNION {Range(s[i]) : i \in 1..1} = Range(s[1])
      OBVIOUS
    <3>3. QED
      BY <1>1, <3>1, <3>2
  <2>12. ASSUME NEW k \in S  PROVE k + 1 \in S
    <3>1. k \in Nat /\ k + 1 \in Nat
      OBVIOUS
    <3>2. ASSUME (k + 1) + 1 \in 1..n
          PROVE  /\ g[(k + 1) + 1] \in Seq(T)
                 /\ Range(g[(k + 1) + 1]) = UNION {Range(s[i]) : i \in 1..((k + 1) + 1)}
      <4>1. k + 1 \in 1..n /\ (k + 1) + 1 # 1 /\ ((k + 1) + 1) - 1 = k + 1
        BY <1>1, <3>1, <3>2
      <4>2. g[k + 1] \in Seq(T) /\ Range(g[k + 1]) = UNION {Range(s[i]) : i \in 1..(k + 1)}
        BY <4>1
      <4>3. g[(k + 1) + 1] = g[k + 1] \o s[(k + 1) + 1]
        BY <2>10, <3>2, <4>1
      <4>4. s[(k + 1) + 1] \in Seq(T)
        BY <1>1, <3>2
      <4>5. /\ g[(k + 1) + 1] \in Seq(T)
            /\ Range(g[(k + 1) + 1]) = Range(g[k + 1]) \cup Range(s[(k + 1) + 1])
        BY <4>2, <4>3, <4>4, ConcatRange
      <4>6. 1..((k + 1) + 1) = 1..(k + 1) \cup {(k + 1) + 1}
        BY <3>1
      <4>7. {Range(s[i]) : i \in 1..((k + 1) + 1)} = {Range(s[i]) : i \in 1..(k + 1)} \cup {Range(s[(k + 1) + 1])}
        BY <4>6
      <4>8. UNION {Range(s[i]) : i \in 1..((k + 1) + 1)}
            = (UNION {Range(s[i]) : i \in 1..(k + 1)}) \cup Range(s[(k + 1) + 1])
        <5> DEFINE A == {Range(s[i]) : i \in 1..(k + 1)}
                   x == Range(s[(k + 1) + 1])
        <5>1. {Range(s[i]) : i \in 1..((k + 1) + 1)} = A \cup {x}
          BY <4>7, Zenon
        <5>2. UNION (A \cup {x}) = (UNION A) \cup x
          <6> HIDE DEF A, x
          <6> QED  BY UnionOneMore
        <5>3. QED
          BY <5>1, <5>2, Zenon
      <4>9. QED
        BY <4>2, <4>5, <4>8, Zenon
    <3>3. QED
      BY <3>1, <3>2
  <2>13. S = Nat
    <3>1. S \in SUBSET Nat
      OBVIOUS
    <3> HIDE DEF S
    <3>2. QED
      BY <2>11, <2>12, <3>1, Induction
  <2>14. n - 1 \in Nat /\ (n - 1) + 1 = n /\ n \in 1..n
    BY <1>1, <1>3
  <2>15. g[n] \in Seq(T) /\ Range(g[n]) = UNION {Range(s[i]) : i \in 1..n}
    <3>1. n - 1 \in S
      <4> HIDE DEF S
      <4> QED  BY <2>13, <2>14
    <3>2. QED
      BY <2>14, <3>1
  <2>16. QED
    BY <2>1, <2>15 DEF n
<1>4. QED
  BY <1>2, <1>3


Ids == Nodes \cup {0}
Ref == [node : Ids, of : Nodes]

(* The answer to browseChildren().                                         *)
LEMMA Children ==
    ASSUME NEW n \in Ids
    PROVE  /\ References(n, 0, 0) \in Seq(Ref)
           /\ n \notin Nodes => References(n, 0, 0) = << >>
           /\ session # 0 /\ n \in Nodes =>
                 /\ DOMAIN References(n, 0, 0) = DOMAIN Refs[n]
                 /\ \A i \in DOMAIN Refs[n] :
                       References(n, 0, 0)[i] = [node |-> numeric_id(Refs[n][i]), of |-> Refs[n][i]]
<1>1. OfClass(n, 0) = Refs[n]
  BY Zenon DEF OfClass
<1>2. References(n, 0, 0) =
         IF session = 0 \/ n \notin Nodes THEN << >>
         ELSE [i \in DOMAIN Refs[n] |-> [node |-> numeric_id(Refs[n][i]), of |-> Refs[n][i]]]
  <2> DEFINE all == OfClass(n, 0)
             cut == IF 0 = 0 \/ Len(all) <= 0 THEN all ELSE SubSeq(all, 1, 0)
  <2>1. References(n, 0, 0) =
           IF session = 0 \/ n \notin Nodes THEN << >>
           ELSE [i \in DOMAIN cut |-> [node |-> numeric_id(cut[i]), of |-> cut[i]]]
    BY Zenon DEF References
  <2>2. cut = Refs[n]
    BY <1>1, Zenon
  <2> HIDE DEF cut
  <2>3. QED
    BY <2>1, <2>2, Zenon
<1>3. CASE session = 0 \/ n \notin Nodes
  <2>1. References(n, 0, 0) = << >>
    BY <1>2, <1>3, Zenon
  <2>2. << >> \in Seq(Ref)
    OBVIOUS
  <2>3. ~(session # 0 /\ n \in Nodes)
    BY <1>3
  <2>4. QED
    BY <2>1, <2>2, <2>3, Zenon
<1>4. CASE session # 0 /\ n \in Nodes
  <2> DEFINE r == Refs[n]
             c == [i \in DOMAIN r |-> [node |-> numeric_id(r[i]), of |-> r[i]]]
  <2>1. r \in Seq(Nodes)
    BY <1>4, ClientAssumption DEF ClientAssumption
  <2>2. References(n, 0, 0) = c
    BY <1>2, <1>4
  <2> HIDE DEF r
  <2>3. ASSUME NEW i \in DOMAIN r  PROVE [node |-> numeric_id(r[i]), of |-> r[i]] \in Ref
    <3>1. r[i] \in Nodes
      BY <2>1
    <3>2. numeric_id(r[i]) \in Ids
      BY <3>1 DEF numeric_id, Ids
    <3>3. QED
      BY <3>1, <3>2 DEF Ref
  <2>4. c \in Seq(Ref)
    BY <2>1, <2>3
  <2>5. DOMAIN c = DOMAIN r /\ \A i \in DOMAIN r : c[i] = [node |-> numeric_id(r[i]), of |-> r[i]]
    OBVIOUS
  <2>6. QED
    BY <1>4, <2>2, <2>4, <2>5 DEF r
<1>5. QED
  BY <1>3, <1>4

(* One round of browseRecursive(): what it returns holds the children and  *)
(* what was found below them.                                              *)
LEMMA Gathered ==
    ASSUME NEW n \in Ids, NEW v \in [Ids -> Seq(Ref)]
    PROVE  /\ Gather(n, v) \in Seq(Ref)
           /\ Range(Gather(n, v)) = UNION {{References(n, 0, 0)[i]} \cup Range(v[References(n, 0, 0)[i].node]) :
                                              i \in DOMAIN References(n, 0, 0)}
<1> DEFINE c == References(n, 0, 0)
           s == [i \in DOMAIN c |-> <<c[i]>> \o v[c[i].node]]
<1>1. c \in Seq(Ref)
  BY Children
<1>2. Gather(n, v) = FlattenSeq(s)
  BY DEF Gather
<1> HIDE DEF c
<1>3. ASSUME NEW i \in DOMAIN c
      PROVE  s[i] \in Seq(Ref) /\ Range(s[i]) = {c[i]} \cup Range(v[c[i].node])
  <2> DEFINE a == <<c[i]>>
             b == v[c[i].node]
  <2>0. c[i] \in Ref
    BY <1>1
  <2>1. c[i].node \in Ids
    BY <2>0 DEF Ref
  <2>2. a \in Seq(Ref) /\ Range(a) = {c[i]} /\ b \in Seq(Ref)
    BY <2>0, <2>1 DEF Range
  <2>3. s[i] = a \o b
    OBVIOUS
  <2> HIDE DEF a, b, s
  <2>4. a \o b \in Seq(Ref) /\ Range(a \o b) = Range(a) \cup Range(b)
    BY <2>2, ConcatRange
  <2>5. QED
    BY <2>2, <2>3, <2>4 DEF b
<1>4. DOMAIN c = 1..Len(c) /\ Len(c) \in Nat
  BY <1>1
<1>5. s \in Seq(Seq(Ref)) /\ Len(s) = Len(c)
  <2>1. s = [i \in 1..Len(c) |-> s[i]]
    BY <1>4
  <2> HIDE DEF s
  <2>2. \A i \in 1..Len(c) : s[i] \in Seq(Ref)
    BY <1>3, <1>4
  <2>3. s \in [1..Len(c) -> Seq(Ref)]
    BY <2>1, <2>2
  <2>4. QED
    BY <1>4, <2>3
<1> HIDE DEF s
<1>6. FlattenSeq(s) \in Seq(Ref) /\ Range(FlattenSeq(s)) = UNION {Range(s[i]) : i \in 1..Len(s)}
  BY <1>5, Flattened
<1>7. {Range(s[i]) : i \in 1..Len(s)} = {{c[i]} \cup Range(v[c[i].node]) : i \in DOMAIN c}
  BY <1>3, <1>4, <1>5
<1>8. QED
  BY <1>2, <1>6, <1>7 DEF c

(* The recursion of browseRecursive(), depth by depth.                     *)
LEMMA FoundSteps ==
    /\ Found \in [Nat -> [Ids -> Seq(Ref)]]
    /\ \A n \in Ids : Found[0][n] = << >>
    /\ \A k \in Nat : \A n \in Ids : Found[k + 1][n] = Gather(n, Found[k])
<1> DEFINE V == [Ids -> Seq(Ref)]
           v0 == [n \in Ids |-> << >>]
           F == [x \in Nat \X V |-> [n \in Ids |-> Gather(n, x[2])]]
           Solves(f) == f = [depth \in Nat |-> [n \in Ids |-> IF depth = 0 THEN << >> ELSE Gather(n, f[depth - 1])]]
<1>1. v0 \in V
  OBVIOUS
<1>2. F \in [Nat \X V -> V]
  <2>1. ASSUME NEW x \in Nat \X V  PROVE [n \in Ids |-> Gather(n, x[2])] \in V
    <3>1. x[2] \in V
      OBVIOUS
    <3>2. \A n \in Ids : Gather(n, x[2]) \in Seq(Ref)
      BY <3>1, Gathered
    <3>3. QED
      BY <3>2
  <2> HIDE DEF V
  <2>2. QED
    BY <2>1
<1>3. \A k \in Nat : \A v \in V : F[<<k, v>>] = [n \in Ids |-> Gather(n, v)]
  <2> HIDE DEF V
  <2> QED  OBVIOUS
<1> HIDE DEF F
<1>4. PICK f : Iterates(f, V, v0, F)
  <2> HIDE DEF V, v0
  <2> QED  BY <1>1, <1>2, Recursion
<1>5. f \in [Nat -> V] /\ f[0] = v0 /\ \A k \in Nat : f[k + 1] = F[<<k, f[k]>>]
  <2> HIDE DEF V, v0
  <2> QED  BY <1>4 DEF Iterates
<1>6. ASSUME NEW k \in Nat
      PROVE  f[k] = [n \in Ids |-> IF k = 0 THEN << >> ELSE Gather(n, f[k - 1])]
  <2>1. CASE k = 0
    BY <1>5, <2>1
  <2>2. CASE k # 0
    <3>1. k - 1 \in Nat /\ (k - 1) + 1 = k
      BY <2>2
    <3>2. f[k - 1] \in V /\ f[k] = F[<<k - 1, f[k - 1]>>]
      <4> HIDE DEF V, v0
      <4> QED  BY <1>5, <3>1
    <3>3. F[<<k - 1, f[k - 1]>>] = [n \in Ids |-> Gather(n, f[k - 1])]
      <4> HIDE DEF V, v0
      <4> QED  BY <1>3, <3>1, <3>2
    <3>4. QED
      BY <2>2, <3>2, <3>3
  <2>3. QED
    BY <2>1, <2>2
<1>7. Solves(f)
  <2>1. f = [k \in Nat |-> f[k]]
    <3> HIDE DEF V, v0
    <3> QED  BY <1>5
  <2>2. QED
    BY <1>6, <2>1
<1>8. Found = CHOOSE g : Solves(g)
  BY DEF Found, Ids
<1>9. Solves(Found)
  <2> HIDE DEF Solves
  <2> QED  BY <1>7, <1>8
<1>10. \A k \in Nat : Found[k] = [n \in Ids |-> IF k = 0 THEN << >> ELSE Gather(n, Found[k - 1])]
  BY <1>9
<1>11. Found = [k \in Nat |-> Found[k]]
  BY <1>9
<1> HIDE DEF Solves
<1>12. \A n \in Ids : Found[0][n] = << >>
  BY <1>10
<1>13. ASSUME NEW k \in Nat, NEW n \in Ids  PROVE Found[k + 1][n] = Gather(n, Found[k])
  <2>1. k + 1 \in Nat /\ k + 1 # 0 /\ (k + 1) - 1 = k
    OBVIOUS
  <2>2. Found[k + 1] = [m \in Ids |-> IF k + 1 = 0 THEN << >> ELSE Gather(m, Found[(k + 1) - 1])]
    BY <1>10, <2>1
  <2>3. QED
    BY <2>1, <2>2
<1> DEFINE S == {k \in Nat : Found[k] \in V}
<1>14. S = Nat
  <2>1. 0 \in S
    <3>1. Found[0] = v0
      BY <1>10
    <3>2. QED
      BY <1>1, <3>1
  <2>2. ASSUME NEW k \in S  PROVE k + 1 \in S
    <3>1. k \in Nat /\ k + 1 \in Nat /\ Found[k] \in V
      OBVIOUS
    <3>2. \A n \in Ids : Found[k + 1][n] \in Seq(Ref)
      <4>1. \A n \in Ids : Gather(n, Found[k]) \in Seq(Ref)
        BY <3>1, Gathered
      <4>2. QED
        BY <1>13, <3>1, <4>1
    <3>3. Found[k + 1] = [n \in Ids |-> Found[k + 1][n]]
      BY <1>10, <3>1
    <3>4. Found[k + 1] \in V
      BY <3>2, <3>3
    <3>5. QED
      BY <3>1, <3>4
  <2>3. S \in SUBSET Nat
    OBVIOUS
  <2> HIDE DEF S
  <2>4. QED
    BY <2>1, <2>2, <2>3, Induction
<1>15. Found \in [Nat -> V]
  BY <1>11, <1>14
<1>16. QED
  BY <1>12, <1>13, <1>15


(* The levels below a node.                                                *)
LEMMA LevelSteps ==
    /\ \A n \in Nodes : Level[0][n] = Linked({n})
    /\ \A k \in Nat : \A n \in Nodes : Level[k + 1][n] = Linked(Level[k][n] \ StringNodes)
    /\ \A k \in Nat : \A n \in Nodes : Level[k][n] \in SUBSET Nodes
<1> DEFINE V == [Nodes -> SUBSET Nodes]
           v0 == [n \in Nodes |-> Linked({n})]
           F == [x \in Nat \X V |-> [n \in Nodes |-> Linked(x[2][n] \ StringNodes)]]
           Solves(f) == f = [k \in Nat |-> [n \in Nodes |->
                               IF k = 0 THEN Linked({n}) ELSE Linked(f[k - 1][n] \ StringNodes)]]
<1>0. ASSUME NEW S \in SUBSET Nodes  PROVE Linked(S) \in SUBSET Nodes
  <2>1. \A m \in S : Refs[m] \in Seq(Nodes)
    BY ClientAssumption DEF ClientAssumption
  <2>2. \A m \in S : Range(Refs[m]) \subseteq Nodes
    BY <2>1 DEF Range
  <2>3. QED
    BY <2>2, Zenon DEF Linked
<1>1. v0 \in V
  <2>1. \A n \in Nodes : Linked({n}) \in SUBSET Nodes
    BY <1>0
  <2>2. QED
    BY <2>1
<1>2. F \in [Nat \X V -> V]
  <2>1. ASSUME NEW x \in Nat \X V  PROVE [n \in Nodes |-> Linked(x[2][n] \ StringNodes)] \in V
    <3>1. \A n \in Nodes : x[2][n] \ StringNodes \in SUBSET Nodes
      OBVIOUS
    <3>2. \A n \in Nodes : Linked(x[2][n] \ StringNodes) \in SUBSET Nodes
      BY <1>0, <3>1
    <3>3. QED
      BY <3>2
  <2> HIDE DEF V
  <2>2. QED
    BY <2>1
<1>3. \A k \in Nat : \A v \in V : F[<<k, v>>] = [n \in Nodes |-> Linked(v[n] \ StringNodes)]
  <2> HIDE DEF V
  <2> QED  OBVIOUS
<1> HIDE DEF F
<1>4. PICK f : Iterates(f, V, v0, F)
  <2> HIDE DEF V, v0
  <2> QED  BY <1>1, <1>2, Recursion
<1>5. f \in [Nat -> V] /\ f[0] = v0 /\ \A k \in Nat : f[k + 1] = F[<<k, f[k]>>]
  <2> HIDE DEF V, v0
  <2> QED  BY <1>4 DEF Iterates
<1>6. ASSUME NEW k \in Nat
      PROVE  f[k] = [n \in Nodes |-> IF k = 0 THEN Linked({n}) ELSE Linked(f[k - 1][n] \ StringNodes)]
  <2>1. CASE k = 0
    BY <1>5, <2>1
  <2>2. CASE k # 0
    <3>1. k - 1 \in Nat /\ (k - 1) + 1 = k
      BY <2>2
    <3>2. f[k - 1] \in V /\ f[k] = F[<<k - 1, f[k - 1]>>]
      <4> HIDE DEF V, v0
      <4> QED  BY <1>5, <3>1
    <3>3. F[<<k - 1, f[k - 1]>>] = [n \in Nodes |-> Linked(f[k - 1][n] \ StringNodes)]
      <4> HIDE DEF V, v0
      <4> QED  BY <1>3, <3>1, <3>2
    <3>4. QED
      BY <2>2, <3>2, <3>3
  <2>3. QED
    BY <2>1, <2>2
<1>7. Solves(f)
  <2>1. f = [k \in Nat |-> f[k]]
    <3> HIDE DEF V, v0
    <3> QED  BY <1>5
  <2>2. QED
    BY <1>6, <2>1
<1>8. Level = CHOOSE g : Solves(g)
  BY DEF Level
<1>9. Solves(Level)
  <2> HIDE DEF Solves
  <2> QED  BY <1>7, <1>8
<1>10. \A k \in Nat : Level[k] = [n \in Nodes |-> IF k = 0 THEN Linked({n}) ELSE Linked(Level[k - 1][n] \ StringNodes)]
  BY <1>9
<1> HIDE DEF Solves, V, v0
<1>11. \A n \in Nodes : Level[0][n] = Linked({n})
  BY <1>10
<1>12. ASSUME NEW k \in Nat, NEW n \in Nodes  PROVE Level[k + 1][n] = Linked(Level[k][n] \ StringNodes)
  <2>1. k + 1 \in Nat /\ k + 1 # 0 /\ (k + 1) - 1 = k
    OBVIOUS
  <2>2. Level[k + 1] = [m \in Nodes |-> IF k + 1 = 0 THEN Linked({m}) ELSE Linked(Level[(k + 1) - 1][m] \ StringNodes)]
    BY <1>10, <2>1
  <2>3. QED
    BY <2>1, <2>2
<1> DEFINE S == {k \in Nat : \A n \in Nodes : Level[k][n] \in SUBSET Nodes}
<1>13. S = Nat
  <2>1. 0 \in S
    BY <1>0, <1>11
  <2>2. ASSUME NEW k \in S  PROVE k + 1 \in S
    <3>1. k \in Nat /\ k + 1 \in Nat
      OBVIOUS
    <3>2. \A n \in Nodes : Level[k][n] \ StringNodes \in SUBSET Nodes
      OBVIOUS
    <3>3. \A n \in Nodes : Level[k + 1][n] \in SUBSET Nodes
      BY <1>0, <1>12, <3>1, <3>2
    <3>4. QED
      BY <3>1, <3>3
  <2>3. S \in SUBSET Nat
    OBVIOUS
  <2> HIDE DEF S
  <2>4. QED
    BY <2>1, <2>2, <2>3, Induction
<1>14. QED
  BY <1>11, <1>12, <1>13

(* Membership in Linked().                                                 *)
LEMMA LinkedTo ==
    /\ \A S, z : z \in Linked(S) <=> \E m \in S : z \in Range(Refs[m])
    /\ \A n : Linked({n}) = Range(Refs[n])
BY Zenon DEF Linked

(* The first level are the children.                                       *)
LEMMA FirstLevel ==
    ASSUME NEW n \in Nodes
    PROVE  Level[0][n] = Range(Refs[n]) /\ Range(Refs[n]) \subseteq Nodes
<1>1. Linked({n}) = Range(Refs[n])
  BY LinkedTo, Zenon
<1>2. Level[0][n] = Linked({n}) /\ Level[0][n] \in SUBSET Nodes
  BY LevelSteps
<1>3. QED
  BY <1>1, <1>2

(* A level counted from the near end: over the children of the node.       *)
LEMMA NearEnd ==
    ASSUME NEW k \in Nat, NEW n \in Nodes, NEW z
    PROVE  z \in Level[k + 1][n] <=> \E c \in Range(Refs[n]) \ StringNodes : z \in Level[k][c]
<1> DEFINE S == {j \in Nat : \A m \in Nodes : \A y :
                    y \in Level[j + 1][m] <=> \E c \in Range(Refs[m]) \ StringNodes : y \in Level[j][c]}
<1>0. \A m \in Nodes : Range(Refs[m]) \subseteq Nodes
  BY FirstLevel
<1>1. 0 \in S
  <2>1. ASSUME NEW m \in Nodes, NEW y
        PROVE  y \in Level[0 + 1][m] <=> \E c \in Range(Refs[m]) \ StringNodes : y \in Level[0][c]
    <3>1. Level[0 + 1][m] = Linked(Range(Refs[m]) \ StringNodes)
      <4>1. Level[0 + 1][m] = Linked(Level[0][m] \ StringNodes)
        BY LevelSteps
      <4>2. Level[0][m] = Range(Refs[m])
        BY FirstLevel
      <4>3. QED
        BY <4>1, <4>2
    <3>2. \A c \in Range(Refs[m]) : Level[0][c] = Range(Refs[c])
      BY <1>0, FirstLevel
    <3>3. y \in Level[0 + 1][m] <=> \E c \in Range(Refs[m]) \ StringNodes : y \in Range(Refs[c])
      <4>1. y \in Level[0 + 1][m] <=> y \in Linked(Range(Refs[m]) \ StringNodes)
        BY <3>1
      <4>2. y \in Linked(Range(Refs[m]) \ StringNodes) <=> \E c \in Range(Refs[m]) \ StringNodes : y \in Range(Refs[c])
        BY LinkedTo, Zenon
      <4>3. QED
        BY <4>1, <4>2, Zenon
    <3>4. QED
      BY <3>2, <3>3, Zenon
  <2>2. QED
    BY <2>1
<1>2. ASSUME NEW j \in S  PROVE j + 1 \in S
  <2>1. j \in Nat /\ j + 1 \in Nat
    OBVIOUS
  <2>2. ASSUME NEW m \in Nodes, NEW y
        PROVE  y \in Level[(j + 1) + 1][m] <=> \E c \in Range(Refs[m]) \ StringNodes : y \in Level[j + 1][c]
    <3>1. Level[(j + 1) + 1][m] = Linked(Level[j + 1][m] \ StringNodes)
      BY <2>1, LevelSteps
    <3>2. y \in Level[(j + 1) + 1][m] <=> \E x \in Level[j + 1][m] \ StringNodes : y \in Range(Refs[x])
      <4>1. y \in Level[(j + 1) + 1][m] <=> y \in Linked(Level[j + 1][m] \ StringNodes)
        BY <3>1
      <4>2. y \in Linked(Level[j + 1][m] \ StringNodes) <=> \E x \in Level[j + 1][m] \ StringNodes : y \in Range(Refs[x])
        BY LinkedTo, Zenon
      <4>3. QED
        BY <4>1, <4>2, Zenon
    <3>3. \A x : x \in Level[j + 1][m] <=> \E c \in Range(Refs[m]) \ StringNodes : x \in Level[j][c]
      OBVIOUS
    <3>4. ASSUME NEW c \in Range(Refs[m])
          PROVE  y \in Level[j + 1][c] <=> \E x \in Level[j][c] \ StringNodes : y \in Range(Refs[x])
      <4>1. c \in Nodes
        BY <1>0
      <4>2. Level[j + 1][c] = Linked(Level[j][c] \ StringNodes)
        BY <2>1, <4>1, LevelSteps
      <4>3. QED
        <5>1. y \in Level[j + 1][c] <=> y \in Linked(Level[j][c] \ StringNodes)
          BY <4>2
        <5>2. y \in Linked(Level[j][c] \ StringNodes) <=> \E x \in Level[j][c] \ StringNodes : y \in Range(Refs[x])
          BY LinkedTo, Zenon
        <5>3. QED
          BY <5>1, <5>2, Zenon
    <3> HIDE DEF S
    <3>5. QED
      BY <3>2, <3>3, <3>4, Zenon
  <2>3. QED
    BY <2>1, <2>2
<1>3. S \in SUBSET Nat
  OBVIOUS
<1>4. S = Nat
  <2> HIDE DEF S
  <2> QED  BY <1>1, <1>2, <1>3, Induction
<1>5. k \in S
  <2> HIDE DEF S
  <2> QED  BY <1>4
<1>6. QED
  BY <1>5

(* Reachability counted from the near end.                                 *)
LEMMA ReachedStep ==
    ASSUME NEW d \in Nat, NEW n \in Nodes, NEW z
    PROVE  /\ z \notin Reached(n, 0)
           /\ z \in Reached(n, d + 1) <=>
                 \/ z \in Range(Refs[n])
                 \/ \E c \in Range(Refs[n]) \ StringNodes : z \in Reached(c, d)
<1>1. ASSUME NEW m \in Nodes, NEW e \in Nat
      PROVE  z \in Reached(m, e) <=> \E k \in 0..(e - 1) : z \in Level[k][m]
  <2>1. Reached(m, e) = UNION {Level[k][m] : k \in 0..(e - 1)}
    BY Zenon DEF Reached
  <2>2. QED
    BY <2>1, Zenon
<1>2. Range(Refs[n]) = Level[0][n] /\ Range(Refs[n]) \subseteq Nodes
  BY FirstLevel
<1>3. z \notin Reached(n, 0)
  <2>1. 0..(0 - 1) = {}
    OBVIOUS
  <2>2. 0 \in Nat
    OBVIOUS
  <2>3. QED
    BY <1>1, <2>1, <2>2
<1>4. ASSUME z \in Reached(n, d + 1)
      PROVE  z \in Range(Refs[n]) \/ \E c \in Range(Refs[n]) \ StringNodes : z \in Reached(c, d)
  <2>0. d + 1 \in Nat /\ (d + 1) - 1 = d
    OBVIOUS
  <2>1. PICK k \in 0..d : z \in Level[k][n]
    BY <1>1, <1>4, <2>0
  <2>2. CASE k = 0
    BY <1>2, <2>1, <2>2
  <2>3. CASE k # 0
    <3>1. k - 1 \in Nat /\ k - 1 \in 0..(d - 1) /\ (k - 1) + 1 = k
      BY <2>3
    <3>2. PICK c \in Range(Refs[n]) \ StringNodes : z \in Level[k - 1][c]
      BY <2>1, <3>1, NearEnd
    <3>3. z \in Reached(c, d)
      BY <1>1, <1>2, <3>1, <3>2
    <3>4. QED
      BY <3>3
  <2>4. QED
    BY <2>2, <2>3
<1>5. ASSUME z \in Range(Refs[n])  PROVE z \in Reached(n, d + 1)
  <2>1. d + 1 \in Nat /\ 0 \in 0..((d + 1) - 1)
    OBVIOUS
  <2>2. QED
    BY <1>1, <1>2, <1>5, <2>1
<1>6. ASSUME NEW c \in Range(Refs[n]) \ StringNodes, z \in Reached(c, d)  PROVE z \in Reached(n, d + 1)
  <2>1. PICK k \in 0..(d - 1) : z \in Level[k][c]
    BY <1>1, <1>2, <1>6
  <2>2. k \in Nat /\ k + 1 \in 0..((d + 1) - 1) /\ d + 1 \in Nat
    OBVIOUS
  <2>3. z \in Level[k + 1][n]
    BY <2>1, <2>2, NearEnd
  <2>4. QED
    BY <1>1, <2>2, <2>3
<1>7. QED
  BY <1>3, <1>4, <1>5, <1>6


(* The nodes that a list of references is of.                              *)
Of(refs) == {refs[i].of : i \in DOMAIN refs}

LEMMA OfRange ==
    ASSUME NEW refs, NEW z
    PROVE  z \in Of(refs) <=> \E r \in Range(refs) : z = r.of
BY Zenon DEF Of, Range

(* Nothing is found below the null id.                                     *)
LEMMA FoundNull ==
    ASSUME NEW d \in Nat, NEW z
    PROVE  z \notin Range(Found[d][0])
<1>0. 0 \in Ids /\ 0 \notin Nodes
  BY ClientAssumption DEF ClientAssumption, Ids
<1>1. CASE d = 0
  <2>1. Found[d][0] = << >>
    BY <1>0, <1>1, FoundSteps
  <2>2. Range(<< >>) = {}
    BY DEF Range
  <2>3. QED
    BY <2>1, <2>2
<1>2. CASE d # 0
  <2> DEFINE v == Found[d - 1]
             c == References(0, 0, 0)
  <2>1. d - 1 \in Nat /\ (d - 1) + 1 = d
    BY <1>2
  <2>2. v \in [Ids -> Seq(Ref)] /\ Found[d][0] = Gather(0, v)
    <3>1. Found[(d - 1) + 1][0] = Gather(0, v)
      BY <1>0, <2>1, FoundSteps
    <3>2. QED
      BY <2>1, <3>1, FoundSteps
  <2>3. c = << >>
    BY <1>0, Children
  <2> HIDE DEF v
  <2>4. Range(Gather(0, v)) = UNION {{c[i]} \cup Range(v[c[i].node]) : i \in DOMAIN c}
    BY <1>0, <2>2, Gathered
  <2> HIDE DEF c
  <2>5. DOMAIN c = {}
    BY <2>3
  <2>6. QED
    BY <2>2, <2>4, <2>5
<1>3. QED
  BY <1>1, <1>2

(* What browseRecursive() finds, from the near end: each child and what it *)
(* finds below the children that have a numeric id.                        *)
LEMMA FoundStep ==
    ASSUME session # 0, NEW d \in Nat, NEW n \in Nodes, NEW z
    PROVE  z \in Of(Found[d + 1][n]) <=>
              \/ z \in Range(Refs[n])
              \/ \E c \in Range(Refs[n]) \ StringNodes : z \in Of(Found[d][c])
<1> DEFINE v == Found[d]
           r == Refs[n]
           c == References(n, 0, 0)
           Part(i) == {c[i]} \cup Range(v[c[i].node])
<1>0. n \in Ids
  BY DEF Ids
<1>1. v \in [Ids -> Seq(Ref)] /\ Found[d + 1][n] = Gather(n, v)
  BY <1>0, FoundSteps
<1>2. DOMAIN c = DOMAIN r /\ \A i \in DOMAIN r : c[i] = [node |-> numeric_id(r[i]), of |-> r[i]]
  BY <1>0, Children
<1>3. Range(Gather(n, v)) = UNION {Part(i) : i \in DOMAIN r}
  <2> HIDE DEF v
  <2>1. Range(Gather(n, v)) = UNION {{c[i]} \cup Range(v[c[i].node]) : i \in DOMAIN c}
    BY <1>0, <1>1, Gathered
  <2>2. QED
    BY <1>2, <2>1
<1> HIDE DEF c, r
<1>4. \A i \in DOMAIN r : c[i].of = r[i] /\ c[i].node = numeric_id(r[i])
  BY <1>2
<1>5. ASSUME NEW i \in DOMAIN r
      PROVE  (\E x \in Part(i) : z = x.of) <=> z = r[i] \/ (r[i] \notin StringNodes /\ z \in Of(Found[d][r[i]]))
  <2>1. CASE r[i] \in StringNodes
    <3>1. c[i].node = 0
      BY <1>4, <2>1 DEF numeric_id
    <3>2. \A x : x \notin Range(v[c[i].node])
      BY <3>1, FoundNull
    <3>3. \A x : x \in Part(i) <=> x = c[i]
      BY <3>2, Zenon
    <3>4. QED
      BY <1>4, <2>1, <3>3
  <2>2. CASE r[i] \notin StringNodes
    <3>1. c[i].node = r[i] /\ c[i].of = r[i]
      BY <1>4, <2>2 DEF numeric_id
    <3>2. z \in Of(Found[d][r[i]]) <=> \E x \in Range(Found[d][r[i]]) : z = x.of
      BY OfRange, Zenon
    <3>3. \A x : x \in Part(i) <=> x = c[i] \/ x \in Range(Found[d][r[i]])
      BY <3>1
    <3> HIDE DEF Part
    <3>4. QED
      BY <2>2, <3>1, <3>2, <3>3
  <2>3. QED
    BY <2>1, <2>2
<1>6. z \in Of(Found[d + 1][n]) <=> \E x \in Range(Gather(n, v)) : z = x.of
  <2>1. z \in Of(Found[d + 1][n]) <=> \E x \in Range(Found[d + 1][n]) : z = x.of
    BY OfRange, Zenon
  <2> HIDE DEF v
  <2>2. QED
    BY <1>1, <2>1
<1> HIDE DEF v, Part
<1>7. (\E x \in Range(Gather(n, v)) : z = x.of) <=> \E i \in DOMAIN r : \E x \in Part(i) : z = x.of
  <2>1. \A x : x \in Range(Gather(n, v)) <=> x \in UNION {Part(i) : i \in DOMAIN r}
    BY <1>3
  <2>2. \A x : x \in UNION {Part(i) : i \in DOMAIN r} <=> \E i \in DOMAIN r : x \in Part(i)
    BY Zenon
  <2>3. QED
    BY <2>1, <2>2, Zenon
<1>8. \A x : x \in Range(r) <=> \E i \in DOMAIN r : x = r[i]
  BY Zenon DEF Range
<1>9. z \in Of(Found[d + 1][n]) <=>
         \E i \in DOMAIN r : z = r[i] \/ (r[i] \notin StringNodes /\ z \in Of(Found[d][r[i]]))
  BY <1>5, <1>6, <1>7, Zenon
<1>10. (\E i \in DOMAIN r : z = r[i] \/ (r[i] \notin StringNodes /\ z \in Of(Found[d][r[i]])))
         <=> z \in Range(r) \/ \E y \in Range(r) \ StringNodes : z \in Of(Found[d][y])
  BY <1>8
<1>11. QED
  BY <1>9, <1>10 DEF r

(* On a live connection browseRecursive() finds what is reached.           *)
LEMMA Finds ==
    ASSUME session # 0, NEW d \in Nat, NEW n \in Nodes
    PROVE  Of(Found[d][n]) = Reached(n, d)
<1> DEFINE S == {k \in Nat : \A m \in Nodes : \A z : z \in Of(Found[k][m]) <=> z \in Reached(m, k)}
<1>1. 0 \in S
  <2>1. ASSUME NEW m \in Nodes, NEW z  PROVE z \in Of(Found[0][m]) <=> z \in Reached(m, 0)
    <3>1. Found[0][m] = << >>
      BY FoundSteps DEF Ids
    <3>2. z \notin Of(<< >>)
      BY DEF Of
    <3>3. QED
      BY <3>1, <3>2, ReachedStep
  <2>2. QED
    BY <2>1
<1>2. ASSUME NEW k \in S  PROVE k + 1 \in S
  <2>1. k \in Nat /\ k + 1 \in Nat
    OBVIOUS
  <2>2. ASSUME NEW m \in Nodes, NEW z  PROVE z \in Of(Found[k + 1][m]) <=> z \in Reached(m, k + 1)
    <3>1. z \in Of(Found[k + 1][m]) <=>
             \/ z \in Range(Refs[m])
             \/ \E c \in Range(Refs[m]) \ StringNodes : z \in Of(Found[k][c])
      BY <2>1, FoundStep
    <3>2. z \in Reached(m, k + 1) <=>
             \/ z \in Range(Refs[m])
             \/ \E c \in Range(Refs[m]) \ StringNodes : z \in Reached(c, k)
      BY <2>1, ReachedStep
    <3>3. \A c \in Range(Refs[m]) : z \in Of(Found[k][c]) <=> z \in Reached(c, k)
      <4>1. Range(Refs[m]) \subseteq Nodes
        BY FirstLevel
      <4>2. QED
        BY <4>1
    <3> HIDE DEF S
    <3>4. QED
      BY <3>1, <3>2, <3>3, Zenon
  <2>3. QED
    BY <2>1, <2>2
<1>3. S \in SUBSET Nat
  OBVIOUS
<1>4. d \in S
  <2> HIDE DEF S
  <2> QED  BY <1>1, <1>2, <1>3, Induction
<1>5. QED
  BY <1>4

(* browseRecursive() returns it.                                           *)
LEMMA BrowseFinds ==
    ASSUME session # 0, NEW n, NEW depth \in Int
    PROVE  Of(Below(n, depth)) = Reached(n, depth)
<1>0. Of(<< >>) = {}
  BY DEF Of
<1>1. CASE n \notin Nodes
  <2>1. Below(n, depth) = << >> /\ Reached(n, depth) = {}
    BY <1>1, Zenon DEF Below, Reached
  <2>2. QED
    BY <1>0, <2>1
<1>2. CASE n \in Nodes /\ depth <= 0
  <2>1. Below(n, depth) = << >>
    BY <1>2, Zenon DEF Below
  <2>2. 0..(depth - 1) = {}
    BY <1>2
  <2>3. Reached(n, depth) = UNION {Level[k][n] : k \in 0..(depth - 1)}
    BY <1>2, Zenon DEF Reached
  <2>4. Reached(n, depth) = {}
    BY <2>2, <2>3
  <2>5. QED
    BY <1>0, <2>1, <2>4
<1>3. CASE n \in Nodes /\ ~(depth <= 0)
  <2>1. depth \in Nat
    BY <1>3
  <2>2. Below(n, depth) = Found[depth][n]
    BY <1>3, Zenon DEF Below
  <2>3. QED
    BY <1>3, <2>1, <2>2, Finds
<1>4. QED
  BY <1>1, <1>2, <1>3

(* What a call of a program returns.                                       *)
LEMMA CallReturns ==
    ASSUME NEW c, Do(c)
    PROVE  \/ c.op = "recurse" /\ browseRecursive(c.node, c.depth)
           \/ ret'.op # "browseRecursive"
<1> USE DEF Asks, Returns
<1>1. CASE connect \/ disconnect
  BY <1>1 DEF connect, disconnect
<1>2. ASSUME NEW n, NEW a, NEW f, read(n, a, f)  PROVE ret'.op # "browseRecursive"
  <2>1. \/ ret' = Crashed
        \/ \E st, v, g : ret' = [op |-> "read", node |-> n, status |-> st, value |-> v,
                                 got |-> g]
    BY <1>2, Zenon DEF read, Yields
  <2>2. QED
    BY <2>1 DEF Crashed
<1>3. ASSUME NEW n, NEW p, NEW a, writeAttribute(n, p, a)  PROVE ret'.op # "browseRecursive"
  BY <1>3 DEF writeAttribute
<1>4. CASE browse(c.node, c.mask, c.max)
  BY <1>4 DEF browse
<1>5. CASE subscribe(c.node)
  <2>1. \E b : ret' = [op |-> "subscribe", ok |-> b]
    BY <1>5, Zenon DEF subscribe
  <2>2. QED
    BY <2>1
<1>6. CASE Asks([op |-> "unsubscribe", ok |-> TRUE]) \/ \E h \in handles : unsubscribe(h)
  BY <1>6 DEF unsubscribe
<1>7. CASE callMethod(c.object, c.method, c.args)
  <2>1. ret' = Crashed \/ \E st, o : ret' = [op |-> "call", status |-> st, outs |-> o]
    BY <1>7, Zenon DEF callMethod, Yields
  <2>2. QED
    BY <2>1 DEF Crashed
<1>8. CASE historyReadRaw(c.node)
  <2>1. \/ ret' = Crashed
        \/ \E st, at, k : ret' = [op |-> "history", status |-> st, at |-> at, stamps |-> k]
    BY <1>8, Zenon DEF historyReadRaw, Yields
  <2>2. QED
    BY <2>1 DEF Crashed
<1>9. CASE c.op = "readAs" /\ readAs(c.node, c.field)
  BY <1>2, <1>9, Zenon DEF readAs
<1>10. CASE \/ c.op = "write" /\ write(c.node, c.value, c.attr)
            \/ c.op = "writeAs" /\ writeAs(c.node, c.type, c.elem)
            \/ c.op = "writeArray" /\ writeArray(c.node, c.type, c.elems)
  BY <1>3, <1>10, Zenon DEF write, writeAs, writeArray
<1>11. QED
  BY <1>1, <1>2, <1>4, <1>5, <1>6, <1>7, <1>8, <1>9, <1>10, Zenon DEF Do

(* So every call with a depth that is a number keeps the property.         *)
LEMMA CallFinds ==
    ASSUME NEW c, WellTyped(c), Do(c)
    PROVE  RecursiveBrowseIsReachability'
<1>1. CASE ret'.op # "browseRecursive"
  BY <1>1 DEF RecursiveBrowseIsReachability
<1>2. CASE c.op = "recurse" /\ browseRecursive(c.node, c.depth)
  <2> DEFINE n == c.node
             k == c.depth
             refs == Below(n, k)
  <2>1. k \in Int
    BY <1>2 DEF WellTyped
  <2>2. ret' = [op |-> "browseRecursive", status |-> "GOOD", refs |-> refs,
                root |-> n, depth |-> k, live |-> session # 0]
    BY <1>2 DEF browseRecursive, Asks, Returns
  <2> HIDE DEF refs, n, k
  <2>3. ret'.refs = refs /\ ret'.root = n /\ ret'.depth = k /\ ret'.live = (session # 0)
    BY <2>2
  <2>4. session # 0 => Of(refs) = Reached(n, k)
    BY <2>1, BrowseFinds DEF refs
  <2>5. Reached(n, k)' = Reached(n, k)
    BY DEF Reached, n, k
  <2>6. ret'.live => Of(ret'.refs) = Reached(ret'.root, ret'.depth)
    BY <2>3, <2>4
  <2>7. QED
    BY <2>6 DEF RecursiveBrowseIsReachability, Of
<1>3. QED
  BY <1>1, <1>2, CallReturns

(* browseRecursive() on a live connection returns exactly the nodes within *)
(* its depth, for every PLC and every depth, also where references form    *)
(* cycles or lead to nodes with string ids.                                *)
THEOREM BrowseReaches == Spec => []RecursiveBrowseIsReachability
<1>1. Init => RecursiveBrowseIsReachability
  BY DEF Init, ClientInit, RecursiveBrowseIsReachability
<1>2. ASSUME ValueInv, RecursiveBrowseIsReachability, [Next]_vars
      PROVE  RecursiveBrowseIsReachability'
  <2>1. ASSUME UNCHANGED ret  PROVE RecursiveBrowseIsReachability'
    <3>1. Reached(ret.root, ret.depth)' = Reached(ret.root, ret.depth)
      BY <2>1 DEF Reached
    <3>2. QED
      BY <1>2, <2>1, <3>1 DEF RecursiveBrowseIsReachability
  <2>2. CASE Step
    <3>1. todo # <<>> /\ Do(Head(todo))
      BY <2>2 DEF Step
    <3>2. WellTyped(Head(todo))
      BY <1>2, <3>1, ProgramTail DEF ValueInv
    <3>3. QED
      BY <3>1, <3>2, CallFinds
  <2>3. CASE StepReadEach \/ Finished \/ UNCHANGED vars
    <3>1. UNCHANGED ret
      BY <2>3 DEF StepReadEach, Finished, vars, cvars
    <3>2. QED
      BY <2>1, <3>1
  <2>4. CASE StepRetry
    <3>1. UNCHANGED ret \/ ret'.op = "connect"
      BY <2>4 DEF StepRetry, cvars, connect, Returns
    <3>2. QED
      BY <2>1, <3>1 DEF RecursiveBrowseIsReachability
  <2>5. CASE OpenCall
    <3>1. \E c \in SubscriberCalls \cup ExplorerCalls : Do(c)
      BY <2>5 DEF OpenCall
    <3>2. QED
      BY <3>1, CallFinds, VocabularyAssumption
  <2>6. CASE Environment
    <3>1. UNCHANGED ret \/ ret' = Crashed
      BY <2>6, Zenon DEF Environment, LoseConnection, dataChangeHandler, PlcChanges
    <3>2. QED
      BY <2>1, <3>1 DEF Crashed, RecursiveBrowseIsReachability
  <2>7. QED
    BY <1>2, <2>2, <2>3, <2>4, <2>5, <2>6 DEF Next
<1>3. QED
  BY <1>1, <1>2, ValueStart, ValueStep, PTL DEF Spec
=============================================================================
