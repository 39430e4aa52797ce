--------------------------- MODULE TypeConverter ---------------------------
(***************************************************************************)
(* The value a transformation item carries from its source to its target   *)
(* (class TypeConverter) and the expansion of @{name} patterns             *)
(* (replaceVariables).  A value is a record with its native type; the      *)
(* getters convert it.                                                     *)
(*                                                                         *)
(* A getter that may fail returns a set: empty for success = false.        *)
(* JSON documents are flat: a path is one key.  A float is counted in      *)
(* tenths.  A text stands for a number when it is the text of one of       *)
(* Numbers, and for a document when it is the dump of one of Documents.    *)
(***************************************************************************)
EXTENDS Integers, Sequences, SequencesExt, TLC

CONSTANTS
    Numbers,    \* the integers texts are parsed as
    Documents,  \* the JSON documents texts are parsed as
    Word        \* number of values of an unsigned integer (2^64 in the program)

ASSUME ConverterAssumption == Word \in Nat \ {0} /\ Numbers \subseteq Int

Null == [type |-> "Null"]
Str(s) == [type |-> "String", s |-> s]
Integer(n) == [type |-> "Integer", i |-> n]
Unsigned(n) == [type |-> "Unsigned", u |-> n]
Float(n) == [type |-> "Float", tenths |-> n]
Boolean(b) == [type |-> "Boolean", b |-> b]
Object(f) == [type |-> "Object", array |-> FALSE, f |-> f]

\* A JSON array; its elements are found by their index.
Array(elements) ==
    [type |-> "Object", array |-> TRUE,
     f |-> [k \in {ToString(n - 1) : n \in DOMAIN elements} |->
               elements[CHOOSE n \in DOMAIN elements : ToString(n - 1) = k]]]

\* nlohmann::json::empty()
EmptyJson(j) == j.type = "Null" \/ (j.type = "Object" /\ DOMAIN j.f = {})

\* Division that truncates towards zero, as a cast of a double does.
Truncated(tenths) == IF tenths >= 0 THEN tenths \div 10 ELSE -((-tenths) \div 10)

\* std::to_string without the trailing zeroes.
FloatText(tenths) ==
    LET size == IF tenths >= 0 THEN tenths ELSE -tenths
        sign == IF tenths >= 0 THEN "" ELSE "-"
    IN  sign \o ToString(size \div 10)
             \o (IF size % 10 = 0 THEN "" ELSE "." \o ToString(size % 10))

clear == Str("")

getString(v) ==
    CASE v.type = "String" -> v.s
      [] v.type = "Integer" -> ToString(v.i)
      [] v.type = "Unsigned" -> ToString(v.u)
      [] v.type = "Float" -> FloatText(v.tenths)
      [] v.type = "Boolean" -> IF v.b THEN "true" ELSE "false"
      [] v.type = "Object" -> ToString(v.f)

\* std::stoll, std::stoull: a text that is not a number fails.
Parsed(s) == {n \in Numbers : ToString(n) = s}

\* The cast of an unsigned value to a signed one.
AsSigned(u) == IF 2 * u >= Word THEN u - Word ELSE u

getInteger(v) ==
    CASE v.type = "Object" -> {}
      [] v.type = "String" -> Parsed(v.s)
      [] v.type = "Integer" -> {v.i}
      [] v.type = "Unsigned" -> {AsSigned(v.u)}
      [] v.type = "Float" -> {Truncated(v.tenths)}
      [] v.type = "Boolean" -> {IF v.b THEN 1 ELSE 0}

getUnsigned(v) ==
    CASE v.type = "Object" -> {}
      [] v.type = "String" -> {n % Word : n \in Parsed(v.s)}
      [] v.type = "Integer" -> {v.i % Word}
      [] v.type = "Unsigned" -> {v.u}
      [] v.type = "Float" -> {Truncated(v.tenths) % Word}
      [] v.type = "Boolean" -> {IF v.b THEN 1 ELSE 0}

\* In tenths.
getFloat(v) ==
    CASE v.type = "Object" -> {}
      [] v.type = "String" -> {10 * n : n \in Parsed(v.s)}
      [] v.type = "Integer" -> {10 * v.i}
      [] v.type = "Unsigned" -> {10 * v.u}
      [] v.type = "Float" -> {v.tenths}
      [] v.type = "Boolean" -> {IF v.b THEN 10 ELSE 0}

getBoolean(v) ==
    CASE v.type = "Object" -> {}
      [] v.type = "String" -> {v.s # ""}
      [] v.type = "Integer" -> {v.i # 0}
      [] v.type = "Unsigned" -> {v.u # 0}
      [] v.type = "Float" -> {v.tenths # 0}
      [] v.type = "Boolean" -> {v.b}

getObject(v) == IF v.type = "Object" THEN {v} ELSE {}

\* The native type is that of the JSON node; a null document leaves the
\* value cleared and is no failure, a null or missing node of a path is.
setObject(j, path) ==
    IF path = "" THEN {IF j.type = "Null" THEN clear ELSE j}
    ELSE IF j.type = "Object" /\ path \in DOMAIN j.f
         THEN {n \in {j.f[path]} : ~EmptyJson(n)}
         ELSE {}

\* The text of a vault entry; a dumped float keeps its decimal point.
jsonToString(j) ==
    CASE j.type = "Null" -> ""
      [] j.type = "Float" /\ j.tenths % 10 = 0 -> FloatText(j.tenths) \o ".0"
      [] OTHER -> getString(j)

\* nlohmann::json::parse
parseJsonContent(s) == {d \in Documents : jsonToString(d) = s}

\* A template is a sequence of literal and @{name} parts; a name that is
\* neither a variable nor a vault entry stays as it is.
Lit(s) == [ref |-> FALSE, text |-> s]
Ref(name) == [ref |-> TRUE, text |-> name]

\* Mutant: a vault entry has priority over the variable of the request.
VaultBeforeVars(part, vars, vault) ==
    IF ~part.ref THEN part.text
    ELSE IF part.text \in DOMAIN vault THEN jsonToString(vault[part.text])
    ELSE IF part.text \in DOMAIN vars THEN vars[part.text]
    ELSE "@{" \o part.text \o "}"

searchReplaceAll(part, vars, vault) ==
    IF ~part.ref THEN part.text
    ELSE IF part.text \in DOMAIN vars THEN vars[part.text]
    ELSE IF part.text \in DOMAIN vault THEN jsonToString(vault[part.text])
    ELSE "@{" \o part.text \o "}"

replaceVariables(template, vars, vault) ==
    FoldLeft(LAMBDA text, part : text \o searchReplaceAll(part, vars, vault), "", template)
=============================================================================
