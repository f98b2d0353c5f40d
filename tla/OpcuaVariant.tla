---------------------------- MODULE OpcuaVariant ----------------------------
(***************************************************************************)
(* The two conversions of proto_opcua/opcua_client.cpp between the native  *)
(* UA_Variant of the OPC UA library and the VariantValue of opcua.proto.   *)
(* A native value is a type, whether it is an array, and its elements (one *)
(* for a scalar, any number for an array); NoData is a variant without     *)
(* data.  A VariantValue is its type, the field that was set and the       *)
(* elements in that field.  Elements are abstract: 0 stands for what       *)
(* protobuf returns for a field that is not set (0, false, the empty       *)
(* string), any other number for some other value of the type.             *)
(***************************************************************************)
EXTENDS Naturals, Sequences

CONSTANT Truncated   \* of each string with a NUL in it: what stands before the NUL

ASSUME StringAssumption ==
    /\ DOMAIN Truncated \subseteq Nat \ {0}
    /\ \A e \in DOMAIN Truncated : Truncated[e] \in Nat \ DOMAIN Truncated

NoData == [type |-> "NONE", array |-> FALSE, elems |-> <<>>]

Native(type, array, elems) == [type |-> type, array |-> array, elems |-> elems]
Proto(type, field, elems)  == [type |-> type, field |-> field, elems |-> elems]

(* opcua::VariantValue val;  the first enumerator is BOOL. *)
Unset == Proto("BOOL", "none", <<>>)

(* DataTypeId and field of every scalar type variantToProto() knows. *)
ScalarOf ==
    [BOOLEAN  |-> <<"BOOL", "bool_val">>,
     SBYTE    |-> <<"INT8", "int32_val">>,
     INT16    |-> <<"INT16", "int32_val">>,
     INT32    |-> <<"INT32", "int32_val">>,
     INT64    |-> <<"INT64", "int64_val">>,
     BYTE     |-> <<"UINT8", "uint32_val">>,
     UINT16   |-> <<"UINT16", "uint32_val">>,
     UINT32   |-> <<"UINT32", "uint32_val">>,
     UINT64   |-> <<"UINT64", "uint64_val">>,
     FLOAT    |-> <<"FLOAT", "float_val">>,
     DOUBLE   |-> <<"DOUBLE", "double_val">>,
     STRING   |-> <<"STRING", "string_val">>,
     DATETIME |-> <<"DATETIME", "datetime_val">>]

(* The same for arrays; an array of another type is read as a scalar. *)
ArrayOf ==
    [BOOLEAN |-> <<"ARRAY_BOOL", "bool_array">>,
     INT32   |-> <<"ARRAY_INT32", "int32_array">>,
     FLOAT   |-> <<"ARRAY_FLOAT", "float_array">>,
     DOUBLE  |-> <<"ARRAY_DOUBLE", "double_array">>,
     STRING  |-> <<"ARRAY_STRING", "string_array">>]

(* The library gives an empty array no memory but an address that no       *)
(* process has; reading an element there ends the program.                 *)
Crash == Proto("NONE", "crash", <<>>)

(* arrayLength > 0: the library keeps 0 for scalars, so an empty array     *)
(* looks like one.                                                         *)
is_array(v) == v.array /\ Len(v.elems) > 0

variantToProto_FirstElement(v) ==
    IF v = NoData THEN Proto("INT32", "none", <<>>)
    ELSE IF v.type \notin DOMAIN ScalarOf THEN Unset
    ELSE IF v.elems = <<>> THEN Crash
    ELSE Proto(ScalarOf[v.type][1], ScalarOf[v.type][2], <<Head(v.elems)>>)

(* An empty string scalar gets its type but no field.  A string is copied  *)
(* by its length, with any NUL in it.                                      *)
variantToProto(v) ==
    IF v = NoData THEN Proto("INT32", "none", <<>>)
    ELSE IF is_array(v) /\ v.type \in DOMAIN ArrayOf
    THEN Proto(ArrayOf[v.type][1], ArrayOf[v.type][2], v.elems)
    ELSE IF v.type \notin DOMAIN ScalarOf THEN Unset
    ELSE IF v.elems = <<>> THEN Crash
    ELSE IF v.type = "STRING" /\ Head(v.elems) = 0 THEN Proto("STRING", "none", <<>>)
    ELSE Proto(ScalarOf[v.type][1], ScalarOf[v.type][2], <<Head(v.elems)>>)

(* The getters of the generated class: the default when another field is   *)
(* set.                                                                    *)
Get(p, field)      == IF p.field = field THEN p.elems[1] ELSE 0
GetArray(p, field) == IF p.field = field THEN p.elems ELSE <<>>

(* The native type for each DataTypeId that can be written. *)
ScalarFor == [BOOL |-> "BOOLEAN", INT32 |-> "INT32", INT64 |-> "INT64",
              UINT32 |-> "UINT32", UINT64 |-> "UINT64", FLOAT |-> "FLOAT",
              DOUBLE |-> "DOUBLE", STRING |-> "STRING"]

ArrayFor  == [ARRAY_INT32 |-> "INT32", ARRAY_FLOAT |-> "FLOAT",
              ARRAY_DOUBLE |-> "DOUBLE", ARRAY_BOOL |-> "BOOLEAN",
              ARRAY_STRING |-> "STRING"]

(* A C string ends at its first NUL. *)
UA_String_fromChars(e) == IF e \in DOMAIN Truncated THEN Truncated[e] ELSE e

(* Strings are handed over as C strings, other values as they are. *)
Copied(t, es) ==
    IF t = "STRING" THEN [i \in DOMAIN es |-> UA_String_fromChars(es[i])] ELSE es

(* nullptr is NoData: writeAttribute() and callMethod() then leave the     *)
(* value of the request empty.                                             *)
protoToVariant(p) ==
    IF p.type \in DOMAIN ScalarFor
    THEN LET t == ScalarFor[p.type]
         IN  Native(t, FALSE, Copied(t, <<Get(p, ScalarOf[t][2])>>))
    ELSE IF p.type \in DOMAIN ArrayFor
    THEN LET t == ArrayFor[p.type]
         IN  Native(t, TRUE, Copied(t, GetArray(p, ArrayOf[t][2])))
    ELSE NoData

(* What a program can put together for a type: the type and its own field. *)
Scalar(type, e) == Proto(type, ScalarOf[ScalarFor[type]][2], <<e>>)
Array(type, es) == Proto(type, ArrayOf[ArrayFor[type]][2], es)
=============================================================================
