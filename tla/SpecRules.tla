----------------------------- MODULE SpecRules -----------------------------
(***************************************************************************)
(* What spec_rewrite.rs (src/crates/ferro-protect/build_support/) does to  *)
(* one JSON object: the pattern that lift_descend looks for, and the rules *)
(* of descend.  The walks over whole documents are in SpecRewrite.         *)
(*                                                                         *)
(* A reference `#/components/schemas/x` is written as the name x.          *)
(***************************************************************************)
EXTENDS Integers, Sequences

CONSTANT Stripped  \* what is left of the strings with another character than
                   \* an ASCII letter or digit

-----------------------------------------------------------------------------
\* serde_json::Value
Object(f) == [fields |-> f]
Array(s)  == [items |-> s]
String(x) == [str |-> x]
Number(n) == [num |-> n]
False     == [bool |-> FALSE]
Null      == [null |-> TRUE]

IsObject(v) == DOMAIN v = {"fields"}
IsArray(v)  == DOMAIN v = {"items"}
IsString(v) == DOMAIN v = {"str"}
IsScalar(v) == ~ IsObject(v) /\ ~ IsArray(v)

Has(f, key) == key \in DOMAIN f

\* A map of one key; Map::remove and Map::insert
Field(key, v)      == [k \in {key} |-> v]
Without(f, keys)   == [k \in DOMAIN f \ keys |-> f[k]]
With(f, key, v)    == [k \in DOMAIN f \cup {key} |-> IF k = key THEN v ELSE f[k]]
HasArray(f, key)   == Has(f, key) /\ IsArray(f[key])
InArray(v, f, key) == \E i \in DOMAIN f[key].items : f[key].items[i] = v

Ref(name) == Object(Field("$ref", String(name)))

\* Whether v is exactly `{"$ref": ...}`.
IsPlainRef(v) ==
    IsObject(v) /\ DOMAIN v.fields = {"$ref"} /\ IsString(v.fields["$ref"])

-----------------------------------------------------------------------------
\* lift_inline_one_or_array_refs: one entity ID or an array of them.

ArrayOf(name) == [type |-> String("array"), items |-> Ref(name)]

OneOrArray(name) == Object(Field("anyOf", Array(<<Ref(name), Object(ArrayOf(name))>>)))

\* Mutant of IsOneOrArray: keys beside the two of the array branch are ignored.
IsOneOrArrayLoose(f) ==
    /\ DOMAIN f = {"anyOf"}
    /\ IsArray(f.anyOf)
    /\ Len(f.anyOf.items) = 2
    /\ IsPlainRef(f.anyOf.items[1])
    /\ LET branch == f.anyOf.items[2]
       IN  /\ IsObject(branch)
           /\ {"type", "items"} \subseteq DOMAIN branch.fields
           /\ branch.fields.type = String("array")
           /\ branch.fields.items = f.anyOf.items[1]

\* match_one_or_array_ref: nothing but the two branches, and one reference in
\* both of them.
IsOneOrArray(f) ==
    /\ DOMAIN f = {"anyOf"}
    /\ IsArray(f.anyOf)
    /\ Len(f.anyOf.items) = 2
    /\ IsPlainRef(f.anyOf.items[1])
    /\ LET branch == f.anyOf.items[2]
       IN  /\ IsObject(branch)
           /\ DOMAIN branch.fields = {"type", "items"}
           /\ branch.fields.type = String("array")
           /\ branch.fields.items = f.anyOf.items[1]

InnerRef(f) == f.anyOf.items[1].fields["$ref"].str

-----------------------------------------------------------------------------
\* preprocess_for_typify: the rules for one object, in the order of descend.

Combinators == {"allOf", "anyOf", "oneOf"}

IsNullableTypeArray(f) ==
    /\ HasArray(f, "type") /\ InArray(String("null"), f, "type")
    /\ ~ Has(f, "anyOf") /\ ~ Has(f, "oneOf")

\* Mutant of ExpandNullableTypeArray: null is dropped instead of expanded.
ExpandTypeArrayNoNull(f) ==
    IF IsNullableTypeArray(f)
    THEN With(Without(f, {"type"}), "anyOf",
              LET types == SelectSeq(f.type.items, LAMBDA t : t # String("null"))
              IN  Array([i \in DOMAIN types |-> Object(Field("type", types[i]))]))
    ELSE f

ExpandNullableTypeArray(f) ==
    IF IsNullableTypeArray(f)
    THEN With(Without(f, {"type"}), "anyOf",
              Array([i \in DOMAIN f.type.items |-> Object(Field("type", f.type.items[i]))]))
    ELSE f

ConstToEnum(f) ==
    IF Has(f, "const") THEN With(Without(f, {"const"}), "enum", Array(<<f.const>>)) ELSE f

IsSingletonAllOf(f) ==
    HasArray(f, "allOf") /\ Len(f.allOf.items) = 1 /\ IsPlainRef(f.allOf.items[1])

FlattenSingletonAllOf(f) ==
    IF IsSingletonAllOf(f)
    THEN With(Without(f, {"allOf", "additionalProperties"}), "$ref",
              f.allOf.items[1].fields["$ref"])
    ELSE f

StripAdditionalProperties(f) ==
    IF /\ DOMAIN f \cap Combinators # {}
       /\ Has(f, "additionalProperties") /\ f.additionalProperties = False
    THEN Without(f, {"additionalProperties"})
    ELSE f

\* What is left of a string as a Rust identifier.
Sanitized(x) == IF x \in DOMAIN Stripped THEN Stripped[x] ELSE x

\* Whether the walk over the values meets two of one name before it meets a
\* value that is no string.
Collides(values) ==
    \E i, j \in DOMAIN values :
        /\ i < j
        /\ \A k \in 1..j : IsString(values[k])
        /\ Sanitized(values[i].str) = Sanitized(values[j].str)

DropCollisionProneEnum(f) ==
    IF /\ HasArray(f, "enum") /\ Has(f, "type") /\ f.type = String("string")
       /\ Collides(f.enum.items)
    THEN Without(f, {"enum"})
    ELSE f

DropDriftedAudioEnum(f) ==
    IF HasArray(f, "enum") /\ InArray(String("alrmCmonx"), f, "enum")
    THEN Without(f, {"enum"})
    ELSE f

\* Mutant of RewriteObject: type arrays are expanded at the end.
RewriteObjectExpandLast(f) ==
    ExpandNullableTypeArray(DropDriftedAudioEnum(DropCollisionProneEnum(
        StripAdditionalProperties(FlattenSingletonAllOf(ConstToEnum(f))))))

RewriteObject(f) ==
    DropDriftedAudioEnum(DropCollisionProneEnum(StripAdditionalProperties(
        FlattenSingletonAllOf(ConstToEnum(ExpandNullableTypeArray(f))))))

\* descend, where Sub is what it makes of the parts: every object of a tree,
\* whether it is a schema or not.
DescendInto(v, Sub(_)) ==
    CASE IsObject(v) ->
             LET f == RewriteObject(v.fields)
             IN  Object([k \in DOMAIN f |-> Sub(f[k])])
      [] IsArray(v) -> Array([i \in DOMAIN v.items |-> Sub(v.items[i])])
      [] OTHER -> v

-----------------------------------------------------------------------------
\* What a JSON value consists of.
Parts(v) ==
    CASE IsObject(v) -> {v.fields[k] : k \in DOMAIN v.fields}
      [] IsArray(v) -> {v.items[i] : i \in DOMAIN v.items}
      [] OTHER -> {}

\* v is a JSON value, and what it consists of is in J.
JsonIn(v, J) ==
    \/ IsObject(v) /\ v.fields \in [DOMAIN v.fields -> J] /\ v = Object(v.fields)
    \/ IsArray(v) /\ v.items \in Seq(J) /\ v = Array(v.items)
    \/ IsString(v) /\ v = String(v.str)
    \/ DOMAIN v = {"num"} /\ v.num \in Int /\ v = Number(v.num)
    \/ DOMAIN v = {"bool"} /\ v \in {False, [bool |-> TRUE]}
    \/ v = Null

\* J is a set of JSON values, with all that they consist of.
Json(J) == \A v \in J : JsonIn(v, J)

\* That, and what the rules make of it.
RewriteParts(v) ==
    IF IsObject(v) THEN Parts(v) \cup Parts(Object(RewriteObject(v.fields))) ELSE Parts(v)

\* Two of the values are strings that make one Rust identifier.
ShareName(values) ==
    \E i, j \in DOMAIN values :
        /\ i # j /\ IsString(values[i]) /\ IsString(values[j])
        /\ Sanitized(values[i].str) = Sanitized(values[j].str)

\* What the comments of the rules say must not reach typify in one object:
\* `const`, a type array with null, an allOf of a single reference, a closed
\* object next to a combinator, and two string values of an enum that make one
\* Rust identifier -- whatever stands beside them.
Indigestible(f) ==
    \/ Has(f, "const")
    \/ HasArray(f, "type") /\ InArray(String("null"), f, "type")
    \/ HasArray(f, "allOf") /\ Len(f.allOf.items) = 1 /\ IsPlainRef(f.allOf.items[1])
    \/ /\ Has(f, "additionalProperties") /\ f.additionalProperties = False
       /\ DOMAIN f \cap Combinators # {}
    \/ HasArray(f, "enum") /\ ShareName(f.enum.items)

\* An allOf whose only member will be a reference once it is flattened itself,
\* which is after the allOf has been looked at.
NestsSingleton(f) ==
    /\ HasArray(f, "allOf") /\ Len(f.allOf.items) = 1
    /\ LET only == f.allOf.items[1]
       IN  IsObject(only) /\ ~ IsPlainRef(only) /\ IsPlainRef(Object(RewriteObject(only.fields)))

\* A type array with null beside an anyOf or oneOf of the spec's own.
NullableBesideChoice(f) ==
    /\ HasArray(f, "type") /\ InArray(String("null"), f, "type")
    /\ Has(f, "anyOf") \/ Has(f, "oneOf")

\* Strings of one name in an enum that is not one of strings only, or not of
\* type "string": not of a nullable string, whose type array is gone by then.
MixedEnumSharesName(f) ==
    /\ HasArray(f, "enum") /\ ShareName(f.enum.items) /\ ~ Has(f, "const")
    /\ \/ ~ Has(f, "type") \/ f.type # String("string")
       \/ \E i \in DOMAIN f.enum.items : ~ IsString(f.enum.items[i])

\* The shapes of the input in which the rules leave something to typify, against
\* their comments.
OutOfReach(f) == NestsSingleton(f) \/ NullableBesideChoice(f) \/ MixedEnumSharesName(f)
=============================================================================
