------------------------------- MODULE Codec --------------------------------
(***************************************************************************)
(* The conversions between the C++ values of OCPP and JSON.  A struct's    *)
(* to_json writes its required members and the optional ones that are set; *)
(* its from_json reads the required keys with at(), the optional ones if   *)
(* the object contains them, and ignores every other key.  An enum is      *)
(* written by a switch and read by comparing strings.                      *)
(*                                                                         *)
(* The types are the tables of TypesCommon, Types16, Enums2, Types2 and    *)
(* Messages2, one definition for each C++ type.  JSON is abstracted to     *)
(* what decoding can tell apart: the kind of a value, the text of an enum, *)
(* the length of a string, whether a date parses.  A struct inside another *)
(* one is a value of its own, converted by its own functions: here it is   *)
(* opaque, with what its from_json throws on it.                           *)
(***************************************************************************)
EXTENDS Naturals, Sequences, FiniteSets

NoFields == << >>

\* The types.  [ci |-> n] is a CiString<n>, [enum |-> ss] an enum with the strings of its enumerators
\* in order, [many |-> t] a vector, [required |-> r, optional |-> o] a struct.
Int == [scalar |-> "number"]
Float == [scalar |-> "number"]
Bool == [scalar |-> "bool"]
Text == [scalar |-> "text"]
DateTime == [scalar |-> "datetime"]
Json == [scalar |-> "json"]

Kind(type) == CASE "scalar" \in DOMAIN type -> type.scalar
                [] "ci" \in DOMAIN type -> "cistring"
                [] "enum" \in DOMAIN type -> "enum"
                [] "many" \in DOMAIN type -> "many"
                [] OTHER -> "struct"

\* The tables are well formed: the strings of an enum differ from each other.
EnumForm(type) ==
    /\ DOMAIN type = {"enum"}
    /\ type.enum \in Seq(STRING) /\ type.enum # << >>
    /\ \A d, e \in DOMAIN type.enum : type.enum[d] = type.enum[e] => d = e
ValueForm(type) ==
    \/ DOMAIN type = {"scalar"} /\ type.scalar \in {"number", "bool", "text", "datetime", "json"}
    \/ DOMAIN type = {"ci"} /\ type.ci \in Nat
    \/ EnumForm(type)
    \/ DOMAIN type = {"required", "optional"}
MemberForm(type) == ValueForm(type) \/ (DOMAIN type = {"many"} /\ ValueForm(type.many))

\* The exceptions of the conversions: json::exception when a JSON value has another kind,
\* StringConversionException, EnumConversionException, TimePointParseException.
Exceptions == {"json", "string", "enum", "time"}

\* JSON values (nlohmann::json); a nested object with what its from_json throws on it.
JNumber == [json |-> "number"]
JBool == [json |-> "bool"]
JString(text, length) == [json |-> "string", text |-> text, length |-> length]
JArray(items) == [json |-> "array", items |-> items]
JObject(fields) == [json |-> "object", fields |-> fields]
JNested(errors) == [json |-> "object", errors |-> errors]

\* The keys of an object; json::contains is false and json::at throws on anything else.
Keys(j) == IF j.json = "object" THEN DOMAIN j.fields ELSE {}

Fields(type) == DOMAIN type.required \union DOMAIN type.optional
FieldType(type, f) == IF f \in DOMAIN type.required THEN type.required[f] ELSE type.optional[f]

StructForm(type) == \A f \in Fields(type) : MemberForm(FieldType(type, f))

\* <enum>_to_string and string_to_<enum>: an enumerator is its position in the switch.
EnumToString(type, e) == type.enum[e]
StringToEnum(type, text) == CHOOSE e \in 1..Len(type.enum) : type.enum[e] = text
IsEnumString(type, text) == \E e \in 1..Len(type.enum) : type.enum[e] = text

\* What reading one value throws.
ValueErrors(type, j) ==
    CASE Kind(type) = "number" -> IF j.json \in {"number", "bool"} THEN {} ELSE {"json"}
      [] Kind(type) = "bool" -> IF j.json = "bool" THEN {} ELSE {"json"}
      [] Kind(type) = "json" -> {}
      [] Kind(type) = "struct" -> IF j.json = "object" THEN j.errors ELSE {"json"}
      [] OTHER -> IF j.json # "string" THEN {"json"} ELSE
            CASE Kind(type) = "cistring" -> IF j.length > type.ci THEN {"string"} ELSE {}
              [] Kind(type) = "enum" -> IF IsEnumString(type, j.text) THEN {} ELSE {"enum"}
              [] Kind(type) = "datetime" -> IF j.text = "time" THEN {} ELSE {"time"}
              [] OTHER -> {}

\* What reading a member of a struct throws, a vector of values included.
MemberErrors(type, j) ==
    IF Kind(type) # "many" THEN ValueErrors(type, j)
    ELSE IF j.json # "array" THEN {"json"}
    ELSE UNION {ValueErrors(type.many, j.items[i]) : i \in DOMAIN j.items}

\* What the from_json of a struct throws on j: nothing if the set is empty, else one of its members.
Errors(type, j) ==
    {e \in Exceptions :
        \/ e = "json" /\ ~ (DOMAIN type.required \subseteq Keys(j))
        \/ \E f \in Fields(type) \intersect Keys(j) :
                e \in MemberErrors(FieldType(type, f), j.fields[f])}

\* The C++ value that is read, and the JSON value that is written.
ReadValue(type, j) ==
    CASE Kind(type) = "enum" -> StringToEnum(type, j.text)
      [] Kind(type) = "datetime" -> [timepoint |-> j.text]
      [] Kind(type) \in {"cistring", "text"} -> [data |-> j.text, length |-> j.length]
      [] OTHER -> j
WriteValue(type, v) ==
    CASE Kind(type) = "enum" -> JString(EnumToString(type, v), 0)
      [] Kind(type) = "datetime" -> JString(v.timepoint, 0)
      [] Kind(type) \in {"cistring", "text"} -> JString(v.data, v.length)
      [] OTHER -> v
ReadMember(type, j) ==
    IF Kind(type) = "many" THEN [i \in DOMAIN j.items |-> ReadValue(type.many, j.items[i])]
    ELSE ReadValue(type, j)
WriteMember(type, v) ==
    IF Kind(type) = "many" THEN JArray([i \in DOMAIN v |-> WriteValue(type.many, v[i])])
    ELSE WriteValue(type, v)

FromJson_RequiredOnly(type, j) ==
    [f \in DOMAIN type.required \intersect Keys(j) |-> ReadMember(FieldType(type, f), j.fields[f])]

\* from_json and to_json of a struct.
FromJson(type, j) ==
    [f \in Fields(type) \intersect Keys(j) |-> ReadMember(FieldType(type, f), j.fields[f])]
ToJson(type, v) == JObject([f \in DOMAIN v |-> WriteMember(FieldType(type, f), v[f])])

-----------------------------------------------------------------------------
(* Values to convert *)

\* A C++ value of the type: a string of the greatest length, the last enumerator.
SampleValue(type) ==
    CASE Kind(type) = "enum" -> Len(type.enum)
      [] Kind(type) = "datetime" -> [timepoint |-> "time"]
      [] Kind(type) = "cistring" -> [data |-> "text", length |-> type.ci]
      [] Kind(type) = "text" -> [data |-> "text", length |-> 0]
      [] Kind(type) = "struct" -> JNested({})
      [] Kind(type) = "bool" -> JBool
      [] OTHER -> JNumber
SampleMember(type) ==
    IF Kind(type) = "many" THEN <<SampleValue(type.many), SampleValue(type.many)>>
    ELSE SampleValue(type)

\* A struct with its optional members set or not.
Sample(type, full) ==
    [f \in IF full THEN Fields(type) ELSE DOMAIN type.required |-> SampleMember(FieldType(type, f))]

\* JSON values that are not of the type: what a peer that disagrees on the type, the enumerators or
\* the length of a member sends.
Wrong(type) ==
    CASE Kind(type) = "enum" -> {JString("no enumerator", 0), JNumber}
      [] Kind(type) = "cistring" -> {JString("text", type.ci + 1), JNumber}
      [] Kind(type) = "datetime" -> {JString("no time", 0), JNumber}
      [] Kind(type) = "json" -> {}
      [] Kind(type) = "struct" -> {JNested({e}) : e \in Exceptions}
      [] Kind(type) = "many" -> {JNumber} \union
                               IF Kind(type.many) = "struct"
                               THEN {JArray(<<JNested({e})>>) : e \in Exceptions}
                               ELSE {JArray(<<JArray(<< >>)>>)}
      [] Kind(type) = "text" -> {JNumber}
      [] OTHER -> {JString("text", 0)}
=============================================================================
