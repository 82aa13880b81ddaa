------------------------- MODULE SpecRewriteProofs -------------------------
(***************************************************************************)
(* What spec_rewrite.rs does, for every document.  First one object: every *)
(* rule touches a few keys and no other, and the proofs go key by key.     *)
(* Then the traversal: D is the function that descend computes on a set J  *)
(* of JSON values, given by the equation of DescendInto.  Last the passes  *)
(* of SpecRewrite: that the functions of their walks exist, what the       *)
(* document consists of after each, and from that the invariants.          *)
(***************************************************************************)
EXTENDS SpecRewrite, SetInduction, TLAPS

-----------------------------------------------------------------------------
\* Keys

LEMMA WithoutKeys ==
    ASSUME NEW f, NEW keys
    PROVE  /\ DOMAIN Without(f, keys) = DOMAIN f \ keys
           /\ \A k \in DOMAIN f \ keys : Without(f, keys)[k] = f[k]
BY DEF Without

\* g has what f has, but for what it may have under the given keys.
Keeps(f, g, keys) ==
    /\ DOMAIN f \ keys = DOMAIN g \ keys
    /\ \A k \in DOMAIN f \ keys : g[k] = f[k]

\* g is f without some of the keys.
Drops(f, g, keys) ==
    /\ Keeps(f, g, keys)
    /\ DOMAIN g \subseteq DOMAIN f
    /\ \A k \in DOMAIN g : g[k] = f[k]

LEMMA ExpandKeeps ==
    ASSUME NEW f
    PROVE  LET g == ExpandNullableTypeArray(f)
           IN  /\ Keeps(f, g, {"type", "anyOf"})
               /\ ~ IsNullableTypeArray(f) => g = f
               /\ IsNullableTypeArray(f) =>
                      /\ ~ Has(g, "type") /\ Has(g, "anyOf")
                      /\ g.anyOf = Array([i \in DOMAIN f.type.items |->
                                             Object(Field("type", f.type.items[i]))])
  <1> DEFINE w    == Without(f, {"type"})
             alts == Array([i \in DOMAIN f.type.items |-> Object(Field("type", f.type.items[i]))])
  <1>1. CASE ~ IsNullableTypeArray(f)
    BY <1>1 DEF ExpandNullableTypeArray, Keeps
  <1>2. CASE IsNullableTypeArray(f)
    <2>1. ExpandNullableTypeArray(f) = With(w, "anyOf", alts)
      BY <1>2 DEF ExpandNullableTypeArray
    <2>2. DOMAIN w = DOMAIN f \ {"type"} /\ \A k \in DOMAIN f \ {"type"} : w[k] = f[k]
      BY WithoutKeys
    <2> HIDE DEF w, alts
    <2>3. /\ DOMAIN With(w, "anyOf", alts) = DOMAIN w \cup {"anyOf"}
          /\ With(w, "anyOf", alts)["anyOf"] = alts
          /\ \A k \in DOMAIN w \ {"anyOf"} : With(w, "anyOf", alts)[k] = w[k]
      BY DEF With
    <2>4. QED
      BY <1>2, <2>1, <2>2, <2>3 DEF Keeps, Has, alts
  <1>3. QED
    BY <1>1, <1>2

LEMMA ConstKeeps ==
    ASSUME NEW f
    PROVE  LET g == ConstToEnum(f)
           IN  /\ Keeps(f, g, {"const", "enum"})
               /\ ~ Has(g, "const")
               /\ ~ Has(f, "const") => g = f
               /\ Has(f, "const") => Has(g, "enum") /\ g.enum = Array(<<f.const>>)
  <1> DEFINE w == Without(f, {"const"})
             a == Array(<<f.const>>)
  <1>1. CASE ~ Has(f, "const")
    BY <1>1 DEF ConstToEnum, Keeps
  <1>2. CASE Has(f, "const")
    <2>1. ConstToEnum(f) = With(w, "enum", a)
      BY <1>2 DEF ConstToEnum
    <2>2. DOMAIN w = DOMAIN f \ {"const"} /\ \A k \in DOMAIN f \ {"const"} : w[k] = f[k]
      BY WithoutKeys
    <2> HIDE DEF w, a
    <2>3. /\ DOMAIN With(w, "enum", a) = DOMAIN w \cup {"enum"}
          /\ With(w, "enum", a)["enum"] = a
          /\ \A k \in DOMAIN w \ {"enum"} : With(w, "enum", a)[k] = w[k]
      BY DEF With
    <2>4. QED
      BY <1>2, <2>1, <2>2, <2>3 DEF Keeps, Has, a
  <1>3. QED
    BY <1>1, <1>2

LEMMA FlattenKeeps ==
    ASSUME NEW f
    PROVE  LET g == FlattenSingletonAllOf(f)
           IN  /\ Keeps(f, g, {"allOf", "additionalProperties", "$ref"})
               /\ ~ IsSingletonAllOf(f) => g = f
               /\ IsSingletonAllOf(f) =>
                      /\ ~ Has(g, "allOf") /\ ~ Has(g, "additionalProperties")
                      /\ Has(g, "$ref")
                      /\ g["$ref"] = f.allOf.items[1].fields["$ref"]
  <1> DEFINE w == Without(f, {"allOf", "additionalProperties"})
             r == f.allOf.items[1].fields["$ref"]
  <1>1. CASE ~ IsSingletonAllOf(f)
    BY <1>1 DEF FlattenSingletonAllOf, Keeps
  <1>2. CASE IsSingletonAllOf(f)
    <2>1. FlattenSingletonAllOf(f) = With(w, "$ref", r)
      BY <1>2 DEF FlattenSingletonAllOf
    <2>2. /\ DOMAIN w = DOMAIN f \ {"allOf", "additionalProperties"}
          /\ \A k \in DOMAIN f \ {"allOf", "additionalProperties"} : w[k] = f[k]
      BY WithoutKeys
    <2> HIDE DEF w, r
    <2>3. /\ DOMAIN With(w, "$ref", r) = DOMAIN w \cup {"$ref"}
          /\ With(w, "$ref", r)["$ref"] = r
          /\ \A k \in DOMAIN w \ {"$ref"} : With(w, "$ref", r)[k] = w[k]
      BY DEF With
    <2>4. QED
      BY <1>2, <2>1, <2>2, <2>3 DEF Keeps, Has, r
  <1>3. QED
    BY <1>1, <1>2

LEMMA DropsOne ==
    ASSUME NEW f, NEW key
    PROVE  /\ Drops(f, f, {key})
           /\ Drops(f, Without(f, {key}), {key})
           /\ ~ Has(Without(f, {key}), key)
  <1> DEFINE w == Without(f, {key})
  <1>1. DOMAIN w = DOMAIN f \ {key} /\ \A k \in DOMAIN f \ {key} : w[k] = f[k]
    BY WithoutKeys
  <1> HIDE DEF w
  <1>2. QED
    BY <1>1 DEF Drops, Keeps, Has, w

LEMMA StripDrops ==
    ASSUME NEW f
    PROVE  LET g == StripAdditionalProperties(f)
           IN  /\ Drops(f, g, {"additionalProperties"})
               /\ (Has(g, "additionalProperties") /\ g.additionalProperties = False) =>
                      DOMAIN g \cap Combinators = {}
  <1>1. CASE /\ DOMAIN f \cap Combinators # {}
             /\ Has(f, "additionalProperties") /\ f.additionalProperties = False
    BY <1>1, DropsOne DEF StripAdditionalProperties
  <1>2. CASE ~ (/\ DOMAIN f \cap Combinators # {}
                /\ Has(f, "additionalProperties") /\ f.additionalProperties = False)
    BY <1>2, DropsOne DEF StripAdditionalProperties
  <1>3. QED
    BY <1>1, <1>2

LEMMA CollisionDrops ==
    ASSUME NEW f
    PROVE  LET g == DropCollisionProneEnum(f)
           IN  /\ Drops(f, g, {"enum"})
               /\ ~ (/\ HasArray(g, "enum") /\ Has(g, "type") /\ g.type = String("string")
                     /\ Collides(g.enum.items))
  <1>1. CASE /\ HasArray(f, "enum") /\ Has(f, "type") /\ f.type = String("string")
             /\ Collides(f.enum.items)
    BY <1>1, DropsOne DEF DropCollisionProneEnum, HasArray
  <1>2. CASE ~ (/\ HasArray(f, "enum") /\ Has(f, "type") /\ f.type = String("string")
                /\ Collides(f.enum.items))
    BY <1>2, DropsOne DEF DropCollisionProneEnum
  <1>3. QED
    BY <1>1, <1>2

LEMMA AudioDrops ==
    ASSUME NEW f
    PROVE  Drops(f, DropDriftedAudioEnum(f), {"enum"})
BY DropsOne DEF DropDriftedAudioEnum

-----------------------------------------------------------------------------
\* One traversal is enough

\* The arrays of a JSON object are sequences.
Sequenced(f) ==
    \A k \in DOMAIN f : IsArray(f[k]) => \E n \in Nat : DOMAIN f[k].items = 1..n

\* A walk over strings only meets every pair.
LEMMA CollidesIfTwo ==
    ASSUME NEW n \in Nat, NEW values, DOMAIN values = 1..n,
           \A i \in 1..n : IsString(values[i]),
           NEW i \in 1..n, NEW j \in 1..n, i # j,
           Sanitized(values[i].str) = Sanitized(values[j].str)
    PROVE  Collides(values)
  <1>1. CASE i < j
    <2>1. \A k \in 1..j : IsString(values[k])
      OBVIOUS
    <2>2. QED
      BY <1>1, <2>1 DEF Collides
  <1>2. CASE j < i
    <2>1. \A k \in 1..i : IsString(values[k])
      OBVIOUS
    <2>2. QED
      BY <1>2, <2>1 DEF Collides
  <1>3. QED
    BY <1>1, <1>2

\* Whatever the combination of keywords, one application of the rules leaves
\* nothing of what their comments promise to keep from typify: no rule makes
\* again what an earlier one has removed, and no rule hides from a later one what
\* that is there for.  Two shapes are excluded, in which the code does not keep
\* the promise: a nullable type array beside anyOf or oneOf, and an enum with
\* strings of one name that is not one of strings only in a schema of type
\* "string".
THEOREM RewriteSettles ==
    ASSUME NEW f, Sequenced(f), ~ NullableBesideChoice(f), ~ MixedEnumSharesName(f)
    PROVE  ~ Indigestible(RewriteObject(f))
  <1> DEFINE g1 == ExpandNullableTypeArray(f)
             g2 == ConstToEnum(g1)
             g3 == FlattenSingletonAllOf(g2)
             g4 == StripAdditionalProperties(g3)
             g5 == DropCollisionProneEnum(g4)
             g6 == DropDriftedAudioEnum(g5)
  <1>1. /\ Keeps(f, g1, {"type", "anyOf"})
        /\ ~ IsNullableTypeArray(f) => g1 = f
        /\ IsNullableTypeArray(f) => ~ Has(g1, "type")
    BY ExpandKeeps
  <1>2. /\ Keeps(g1, g2, {"const", "enum"}) /\ ~ Has(g2, "const")
        /\ ~ Has(g1, "const") => g2 = g1
        /\ Has(g1, "const") => g2.enum = Array(<<g1.const>>)
    BY ConstKeeps
  <1>3. /\ Keeps(g2, g3, {"allOf", "additionalProperties", "$ref"})
        /\ ~ IsSingletonAllOf(g3)
    BY FlattenKeeps DEF IsSingletonAllOf, HasArray, Has
  <1>4. /\ Drops(g3, g4, {"additionalProperties"})
        /\ (Has(g4, "additionalProperties") /\ g4.additionalProperties = False) =>
               DOMAIN g4 \cap Combinators = {}
    BY StripDrops
  <1>5. /\ Drops(g4, g5, {"enum"})
        /\ ~ (/\ HasArray(g5, "enum") /\ Has(g5, "type") /\ g5.type = String("string")
              /\ Collides(g5.enum.items))
    BY CollisionDrops
  <1>6. Drops(g5, g6, {"enum"})
    BY AudioDrops
  <1>7. RewriteObject(f) = g6
    BY DEF RewriteObject
  <1> HIDE DEF g1, g2, g3, g4, g5, g6
  <1>8. ~ Has(g6, "const")
    BY <1>2, <1>3, <1>4, <1>5, <1>6 DEF Keeps, Drops, Has
  <1>9. ~ (HasArray(g6, "type") /\ InArray(String("null"), g6, "type"))
    <2>1. /\ Has(g6, "type") => Has(g1, "type")
          /\ Has(g6, "type") => g6.type = g1.type
      BY <1>2, <1>3, <1>4, <1>5, <1>6 DEF Keeps, Drops, Has
    <2>2. ~ (HasArray(g1, "type") /\ InArray(String("null"), g1, "type"))
      <3>1. CASE IsNullableTypeArray(f)
        BY <3>1, <1>1 DEF HasArray
      <3>2. CASE ~ IsNullableTypeArray(f)
        BY <3>2, <1>1 DEF IsNullableTypeArray, NullableBesideChoice
      <3>3. QED
        BY <3>1, <3>2
    <2>3. QED
      BY <2>1, <2>2 DEF HasArray, InArray
  <1>10. ~ IsSingletonAllOf(g6)
    <2>1. "allOf" \in DOMAIN g6 => "allOf" \in DOMAIN g3 /\ g6["allOf"] = g3["allOf"]
      BY <1>4, <1>5, <1>6 DEF Drops
    <2>2. QED
      BY <1>3, <2>1 DEF IsSingletonAllOf, HasArray, Has
  <1>11. (Has(g6, "additionalProperties") /\ g6.additionalProperties = False) =>
             DOMAIN g6 \cap Combinators = {}
    <2>1. DOMAIN g6 \subseteq DOMAIN g4 /\ \A k \in DOMAIN g6 : g6[k] = g4[k]
      BY <1>5, <1>6 DEF Drops
    <2>2. QED
      BY <1>4, <2>1 DEF Has
  <1>12. ~ (HasArray(g6, "enum") /\ ShareName(g6.enum.items))
    <2> SUFFICES ASSUME HasArray(g6, "enum"), ShareName(g6.enum.items)
                 PROVE  FALSE
      OBVIOUS
    <2>1. HasArray(g5, "enum") /\ g5.enum = g6.enum
      BY <1>6 DEF Drops, HasArray, Has
    <2>2. HasArray(g2, "enum") /\ g2.enum = g6.enum
      BY <2>1, <1>3, <1>4, <1>5 DEF Keeps, Drops, HasArray, Has
    <2>3. ~ Has(g1, "const")
      <3>1. ASSUME Has(g1, "const")
            PROVE  FALSE
        <4>1. g6.enum.items = <<g1.const>>
          BY <3>1, <1>2, <2>2 DEF Array
        <4>2. DOMAIN <<g1.const>> = 1..1
          OBVIOUS
        <4>3. QED
          BY <4>1, <4>2 DEF ShareName
      <3>2. QED
        BY <3>1
    <2>4. HasArray(f, "enum") /\ f.enum = g6.enum /\ ~ Has(f, "const")
      BY <2>3, <1>1, <1>2, <2>2 DEF Keeps, HasArray, Has
    <2>5. /\ Has(f, "type") /\ f.type = String("string")
          /\ \A i \in DOMAIN f.enum.items : IsString(f.enum.items[i])
      BY <2>4 DEF MixedEnumSharesName
    <2>6. Has(g5, "type") /\ g5.type = String("string")
      <3>1. ~ IsNullableTypeArray(f)
        BY <2>5 DEF IsNullableTypeArray, HasArray, IsArray, String
      <3>2. QED
        BY <3>1, <2>5, <1>1, <1>2, <1>3, <1>4, <1>5 DEF Keeps, Drops, Has
    <2>7. PICK n \in Nat : DOMAIN f.enum.items = 1..n
      BY <2>4 DEF Sequenced, HasArray, Has
    <2>8. PICK i \in 1..n, j \in 1..n :
              i # j /\ Sanitized(f.enum.items[i].str) = Sanitized(f.enum.items[j].str)
      BY <2>4, <2>7 DEF ShareName
    <2>9. Collides(f.enum.items)
      BY <2>5, <2>7, <2>8, CollidesIfTwo
    <2>10. QED
      BY <1>5, <2>1, <2>4, <2>6, <2>9
  <1>13. QED
    BY <1>7, <1>8, <1>9, <1>10, <1>11, <1>12 DEF Indigestible, IsSingletonAllOf

-----------------------------------------------------------------------------
\* The pattern that is lifted

LEMMA JsonParts ==
    ASSUME NEW J, Json(J), NEW v \in J
    PROVE  /\ IsObject(v) => v.fields \in [DOMAIN v.fields -> J] /\ v = Object(v.fields)
           /\ IsArray(v)  => v.items \in Seq(J) /\ v = Array(v.items)
           /\ IsString(v) => v = String(v.str)
BY DEF Json, JsonIn, IsObject, IsArray, IsString, Null

LEMMA PartsOf ==
    ASSUME NEW x
    PROVE  /\ IsArray(x) => \A i \in DOMAIN x.items : x.items[i] \in Parts(x)
           /\ IsObject(x) => \A p \in DOMAIN x.fields : x.fields[p] \in Parts(x)
  <1>1. ASSUME IsArray(x)
        PROVE  \A i \in DOMAIN x.items : x.items[i] \in Parts(x)
    BY <1>1 DEF Parts, IsArray, IsObject
  <1>2. ASSUME IsObject(x)
        PROVE  \A p \in DOMAIN x.fields : x.fields[p] \in Parts(x)
    BY <1>2 DEF Parts, IsArray, IsObject
  <1>3. QED
    BY <1>1, <1>2

\* What is lifted is the pattern and nothing beside it: the schema that is
\* synthesised for the reference is the object itself.
THEOREM LiftsOnlyThePattern ==
    ASSUME NEW J, Json(J), NEW f, Object(f) \in J
    PROVE  IsOneOrArray(f) <=> Object(f) = OneOrArray(InnerRef(f))
  <1>1. ASSUME IsOneOrArray(f)
        PROVE  Object(f) = OneOrArray(InnerRef(f))
    <2> DEFINE s == f.anyOf.items
               name == InnerRef(f)
    <2>1. f \in [{"anyOf"} -> J] /\ IsArray(f.anyOf)
      BY <1>1, JsonParts DEF IsOneOrArray, Object, IsObject
    <2>2. /\ f = Field("anyOf", f.anyOf) /\ f.anyOf = Array(s) /\ s \in Seq(J)
      BY <2>1, JsonParts DEF Field
    <2>3. /\ Len(s) = 2 /\ s[1] \in J /\ s[2] \in J /\ s = <<s[1], s[2]>>
      BY <1>1, <2>2 DEF IsOneOrArray
    <2>4. s[1] = Ref(name)
      <3>1. /\ IsPlainRef(s[1]) /\ s[1] = Object(s[1].fields)
            /\ s[1].fields \in [{"$ref"} -> J]
        BY <1>1, <2>3, JsonParts DEF IsOneOrArray, IsPlainRef
      <3>2. s[1].fields["$ref"] = String(name)
        BY <3>1, JsonParts DEF IsPlainRef, InnerRef
      <3>3. s[1].fields = Field("$ref", String(name))
        BY <3>1, <3>2 DEF Field
      <3>4. QED
        BY <3>1, <3>3 DEF Ref
    <2>5. s[2] = Object(ArrayOf(name))
      <3>1. /\ s[2] = Object(s[2].fields) /\ s[2].fields \in [{"type", "items"} -> J]
            /\ s[2].fields.type = String("array") /\ s[2].fields.items = s[1]
        BY <1>1, <2>3, JsonParts DEF IsOneOrArray
      <3>2. s[2].fields = ArrayOf(name)
        BY <3>1, <2>4 DEF ArrayOf
      <3>3. QED
        BY <3>1, <3>2
    <2>6. QED
      BY <2>2, <2>3, <2>4, <2>5 DEF OneOrArray
  <1>2. ASSUME Object(f) = OneOrArray(InnerRef(f))
        PROVE  IsOneOrArray(f)
    <2> DEFINE name == InnerRef(f)
               a    == Array(<<Ref(name), Object(ArrayOf(name))>>)
    <2>1. f = Field("anyOf", a)
      BY <1>2 DEF OneOrArray, Object
    <2> HIDE DEF name
    <2>2. DOMAIN f = {"anyOf"} /\ f.anyOf = a
      BY <2>1 DEF Field
    <2>3. /\ IsArray(a) /\ Len(a.items) = 2
          /\ a.items[1] = Ref(name) /\ a.items[2] = Object(ArrayOf(name))
      BY DEF Array, IsArray
    <2>4. IsPlainRef(Ref(name))
      BY DEF IsPlainRef, Ref, Object, IsObject, Field, String, IsString
    <2>5. /\ IsObject(Object(ArrayOf(name))) /\ Object(ArrayOf(name)).fields = ArrayOf(name)
          /\ DOMAIN ArrayOf(name) = {"type", "items"}
          /\ ArrayOf(name).type = String("array") /\ ArrayOf(name).items = Ref(name)
      BY DEF IsObject, Object, ArrayOf
    <2> HIDE DEF a
    <2>6. QED
      BY <2>2, <2>3, <2>4, <2>5 DEF IsOneOrArray
  <1>3. QED
    BY <1>1, <1>2

-----------------------------------------------------------------------------
\* The traversal

\* J is a set of JSON values, with all that they and what the rules make of them
\* consist of.
Documents(J) ==
    /\ Json(J)
    /\ \A v \in J :
           IsObject(v) =>
               LET f == RewriteObject(v.fields) IN \A k \in DOMAIN f : f[k] \in J

\* D is descend.
Descends(D, J) ==
    LET Sub(v) == D[v] IN \A v \in J : D[v] = DescendInto(v, Sub)

LEMMA ScalarsStay ==
    ASSUME NEW J, NEW D, Descends(D, J), NEW v \in J, ~ IsObject(v), ~ IsArray(v)
    PROVE  D[v] = v
BY DEF Descends, DescendInto

LEMMA ObjectsDescend ==
    ASSUME NEW J, NEW D, Descends(D, J), NEW v \in J, IsObject(v)
    PROVE  LET f == RewriteObject(v.fields)
           IN  /\ D[v] = Object([k \in DOMAIN f |-> D[f[k]]])
               /\ IsObject(D[v]) /\ ~ IsArray(D[v]) /\ ~ IsString(D[v]) /\ D[v] # False
  <1> DEFINE f == RewriteObject(v.fields)
             g == [k \in DOMAIN f |-> D[f[k]]]
  <1>1. ~ IsArray(v)
    BY DEF IsObject, IsArray
  <1> HIDE DEF f
  <1>2. D[v] = Object(g)
    BY <1>1 DEF Descends, DescendInto, f
  <1> HIDE DEF g
  <1>3. IsObject(Object(g)) /\ ~ IsArray(Object(g)) /\ ~ IsString(Object(g)) /\ Object(g) # False
    BY DEF Object, IsObject, IsArray, IsString, False
  <1>4. QED
    BY <1>2, <1>3 DEF f, g

LEMMA ArraysDescend ==
    ASSUME NEW J, NEW D, Descends(D, J), NEW v \in J, IsArray(v)
    PROVE  /\ D[v] = Array([i \in DOMAIN v.items |-> D[v.items[i]]])
           /\ IsArray(D[v]) /\ ~ IsObject(D[v]) /\ ~ IsString(D[v]) /\ D[v] # False
  <1> DEFINE s == [i \in DOMAIN v.items |-> D[v.items[i]]]
  <1>1. ~ IsObject(v)
    BY DEF IsObject, IsArray
  <1>2. D[v] = Array(s)
    BY <1>1 DEF Descends, DescendInto
  <1> HIDE DEF s
  <1>3. IsArray(Array(s)) /\ ~ IsObject(Array(s)) /\ ~ IsString(Array(s)) /\ Array(s) # False
    BY DEF Array, IsObject, IsArray, IsString, False
  <1>4. QED
    BY <1>2, <1>3 DEF s

\* A value keeps its kind, and a scalar is left alone.
LEMMA KindsStay ==
    ASSUME NEW J, NEW D, Descends(D, J), NEW v \in J
    PROVE  /\ IsObject(D[v]) <=> IsObject(v)
           /\ IsArray(D[v]) <=> IsArray(v)
           /\ IsString(D[v]) <=> IsString(v)
           /\ IsString(v) => D[v] = v
           /\ D[v] = False => v = False
  <1>1. CASE IsObject(v)
    BY <1>1, ObjectsDescend DEF IsObject, IsArray, IsString
  <1>2. CASE IsArray(v)
    BY <1>2, ArraysDescend DEF IsObject, IsArray, IsString
  <1>3. CASE ~ IsObject(v) /\ ~ IsArray(v)
    BY <1>3, ScalarsStay
  <1>4. QED
    BY <1>1, <1>2, <1>3

\* What occurs in the outcome is the outcome of the traversal of something.
LEMMA PartsDescend ==
    ASSUME NEW J, Documents(J), NEW D, Descends(D, J), NEW v \in J, NEW u \in Parts(D[v])
    PROVE  \E w \in J \cap RewriteParts(v) : u = D[w]
  <1>1. CASE IsObject(v)
    <2> DEFINE f == RewriteObject(v.fields)
               g == [k \in DOMAIN f |-> D[f[k]]]
    <2>1. D[v] = Object(g) /\ IsObject(D[v]) /\ ~ IsArray(D[v])
      BY <1>1, ObjectsDescend
    <2>2. \A k \in DOMAIN f : f[k] \in J
      BY <1>1 DEF Documents
    <2> HIDE DEF f
    <2>3. DOMAIN g = DOMAIN f /\ \A k \in DOMAIN f : g[k] = D[f[k]]
      OBVIOUS
    <2> HIDE DEF g
    <2>4. u \in {g[k] : k \in DOMAIN g}
      BY <2>1 DEF Parts, Object
    <2>5. PICK k \in DOMAIN f : u = D[f[k]]
      BY <2>3, <2>4
    <2>6. f[k] \in RewriteParts(v)
      <3>1. IsObject(Object(f)) /\ Object(f).fields = f
        BY DEF Object, IsObject
      <3>2. f[k] \in Parts(Object(f))
        BY <3>1, PartsOf
      <3> QED BY <1>1, <3>2 DEF RewriteParts, f
    <2> QED BY <2>2, <2>5, <2>6
  <1>2. CASE IsArray(v)
    <2> DEFINE s == [i \in DOMAIN v.items |-> D[v.items[i]]]
    <2>1. D[v] = Array(s) /\ IsArray(D[v]) /\ ~ IsObject(D[v])
      BY <1>2, ArraysDescend
    <2>2. \A i \in DOMAIN v.items : v.items[i] \in J
      BY <1>2, JsonParts DEF Documents
    <2>3. DOMAIN s = DOMAIN v.items /\ \A i \in DOMAIN v.items : s[i] = D[v.items[i]]
      OBVIOUS
    <2> HIDE DEF s
    <2>4. u \in {s[i] : i \in DOMAIN s}
      BY <2>1 DEF Parts, Array
    <2>5. PICK i \in DOMAIN v.items : u = D[v.items[i]]
      BY <2>3, <2>4
    <2>6. v.items[i] \in RewriteParts(v)
      BY <1>2, PartsOf DEF RewriteParts, IsObject, IsArray
    <2> QED BY <2>2, <2>5, <2>6
  <1>3. CASE ~ IsObject(v) /\ ~ IsArray(v)
    BY <1>3, ScalarsStay DEF Parts
  <1>4. QED
    BY <1>1, <1>2, <1>3

\* The rules leave alone an allOf that is there afterwards.
LEMMA RewriteAllOf ==
    ASSUME NEW f, Has(RewriteObject(f), "allOf")
    PROVE  /\ Has(f, "allOf") /\ RewriteObject(f).allOf = f.allOf
           /\ ~ IsSingletonAllOf(f)
  <1> DEFINE g1 == ExpandNullableTypeArray(f)
             g2 == ConstToEnum(g1)
             g3 == FlattenSingletonAllOf(g2)
             g4 == StripAdditionalProperties(g3)
             g5 == DropCollisionProneEnum(g4)
             g6 == DropDriftedAudioEnum(g5)
  <1>1. Keeps(f, g1, {"type", "anyOf"})
    BY ExpandKeeps
  <1>2. Keeps(g1, g2, {"const", "enum"})
    BY ConstKeeps
  <1>3. /\ ~ IsSingletonAllOf(g2) => g3 = g2
        /\ IsSingletonAllOf(g2) => ~ Has(g3, "allOf")
    BY FlattenKeeps
  <1>4. /\ Drops(g3, g4, {"additionalProperties"})
        /\ Drops(g4, g5, {"enum"}) /\ Drops(g5, g6, {"enum"})
    BY StripDrops, CollisionDrops, AudioDrops
  <1>5. RewriteObject(f) = g6
    BY DEF RewriteObject
  <1> HIDE DEF g1, g2, g3, g4, g5, g6
  <1>6. Has(g3, "allOf") /\ g6.allOf = g3.allOf
    BY <1>4, <1>5 DEF Drops, Has
  <1>7. g3 = g2 /\ ~ IsSingletonAllOf(g2)
    BY <1>3, <1>6
  <1>8. Has(f, "allOf") /\ g2.allOf = f.allOf
    BY <1>1, <1>2, <1>6, <1>7 DEF Keeps, Has
  <1>9. ~ IsSingletonAllOf(f)
    BY <1>6, <1>7, <1>8 DEF IsSingletonAllOf, HasArray, Has
  <1>10. QED
    BY <1>5, <1>6, <1>7, <1>8, <1>9

\* What is done to the values of an object does not bring back what the rules
\* have removed from it.
LEMMA ObjectSettles ==
    ASSUME NEW J, Documents(J), NEW D, Descends(D, J),
           NEW v \in J, IsObject(v), ~ OutOfReach(v.fields)
    PROVE  ~ Indigestible(D[v].fields)
  <1> DEFINE f == RewriteObject(v.fields)
             g == [k \in DOMAIN f |-> D[f[k]]]
  <1>1. D[v].fields = g
    <2>1. D[v] = Object(g)
      BY ObjectsDescend
    <2> HIDE DEF g
    <2>2. QED
      BY <2>1 DEF Object
  <1>2. Json(J)
    BY DEF Documents
  <1>3. \A k \in DOMAIN f : f[k] \in J
    BY DEF Documents
  <1>4. ~ Indigestible(f)
    <2>1. \A k \in DOMAIN v.fields : v.fields[k] \in J
      BY <1>2, JsonParts
    <2>2. Sequenced(v.fields)
      BY <1>2, <2>1, JsonParts DEF Sequenced
    <2>3. QED
      BY <2>2, RewriteSettles DEF OutOfReach
  <1>5. Has(f, "allOf") => /\ Has(v.fields, "allOf") /\ f.allOf = v.fields.allOf
                           /\ ~ IsSingletonAllOf(v.fields)
    BY RewriteAllOf
  <1> HIDE DEF f
  <1>6. DOMAIN g = DOMAIN f /\ \A k \in DOMAIN f : g[k] = D[f[k]]
    OBVIOUS
  <1> HIDE DEF g
  \* An array of g is the outcome of an array of f.
  <1>7. \A k \in DOMAIN f :
            IsArray(g[k]) =>
                /\ IsArray(f[k]) /\ f[k].items \in Seq(J)
                /\ g[k].items = [i \in DOMAIN f[k].items |-> D[f[k].items[i]]]
    <2> TAKE k \in DOMAIN f
    <2> HAVE IsArray(g[k])
    <2>1. f[k] \in J /\ g[k] = D[f[k]] /\ IsArray(f[k])
      BY <1>3, <1>6, KindsStay
    <2> DEFINE s == [i \in DOMAIN f[k].items |-> D[f[k].items[i]]]
    <2>2. g[k] = Array(s)
      BY <2>1, ArraysDescend
    <2> HIDE DEF s
    <2>3. g[k].items = s
      BY <2>2 DEF Array
    <2>4. QED
      BY <1>2, <2>1, <2>3, JsonParts DEF s
  <1>8. \A k \in DOMAIN f :
            IsArray(g[k]) =>
                /\ DOMAIN g[k].items = DOMAIN f[k].items
                /\ Len(g[k].items) = Len(f[k].items)
                /\ \A i \in DOMAIN f[k].items :
                       f[k].items[i] \in J /\ g[k].items[i] = D[f[k].items[i]]
    <2> TAKE k \in DOMAIN f
    <2> HAVE IsArray(g[k])
    <2> DEFINE s == f[k].items
               t == [i \in 1..Len(s) |-> D[s[i]]]
    <2>1. s \in Seq(J) /\ DOMAIN s = 1..Len(s) /\ g[k].items = t
      <3>1. s \in Seq(J) /\ g[k].items = [i \in DOMAIN s |-> D[s[i]]]
        BY <1>7
      <3> HIDE DEF s
      <3>2. DOMAIN s = 1..Len(s)
        BY <3>1
      <3>3. QED
        BY <3>1, <3>2
    <2> HIDE DEF s
    <2>2. DOMAIN t = DOMAIN s /\ Len(t) = Len(s) /\ \A i \in DOMAIN s : t[i] = D[s[i]]
      BY <2>1
    <2>3. \A i \in DOMAIN s : s[i] \in J
      BY <2>1
    <2> HIDE DEF t
    <2>4. QED
      BY <2>1, <2>2, <2>3 DEF s
  <1>9. ~ Has(g, "const")
    BY <1>4, <1>6 DEF Indigestible, Has
  <1>10. ~ (HasArray(g, "type") /\ InArray(String("null"), g, "type"))
    <2> SUFFICES ASSUME HasArray(g, "type"), InArray(String("null"), g, "type")
                 PROVE  HasArray(f, "type") /\ InArray(String("null"), f, "type")
      BY <1>4, <1>6 DEF Indigestible, Has
    <2>1. "type" \in DOMAIN f /\ IsArray(g["type"])
      BY <1>6 DEF HasArray, Has
    <2>2. PICK i \in DOMAIN f["type"].items : g["type"].items[i] = String("null")
      BY <1>8, <2>1 DEF InArray
    <2>3. f["type"].items[i] \in J /\ D[f["type"].items[i]] = String("null")
      BY <1>8, <2>1, <2>2
    <2>4. IsString(String("null"))
      BY DEF String, IsString
    <2>5. f["type"].items[i] = String("null")
      BY <2>3, <2>4, KindsStay
    <2>6. QED
      BY <1>7, <2>1, <2>5 DEF HasArray, Has, InArray
  <1>11. ~ IsSingletonAllOf(g)
    <2> SUFFICES ASSUME IsSingletonAllOf(g)
                 PROVE  FALSE
      OBVIOUS
    <2> DEFINE only == f["allOf"].items[1]
    <2>1. /\ "allOf" \in DOMAIN f /\ IsArray(g["allOf"]) /\ IsArray(f["allOf"])
          /\ Len(f["allOf"].items) = 1 /\ only \in J /\ IsPlainRef(D[only])
      <3>1. /\ "allOf" \in DOMAIN f /\ IsArray(g["allOf"])
            /\ Len(g["allOf"].items) = 1 /\ IsPlainRef(g["allOf"].items[1])
        BY <1>6 DEF IsSingletonAllOf, HasArray, Has
      <3>2. /\ IsArray(f["allOf"]) /\ f["allOf"].items \in Seq(J)
            /\ Len(f["allOf"].items) = 1
        BY <1>7, <1>8, <3>1
      <3>3. 1 \in DOMAIN f["allOf"].items
        BY <3>2
      <3>4. QED
        BY <1>8, <3>1, <3>2, <3>3
    <2>2. HasArray(v.fields, "allOf") /\ v.fields.allOf = f.allOf /\ ~ IsSingletonAllOf(v.fields)
      BY <1>5, <2>1 DEF HasArray, Has
    <2> HIDE DEF only
    <2>3. ~ IsPlainRef(only)
      BY <2>1, <2>2 DEF IsSingletonAllOf, only
    <2>4. IsObject(only)
      BY <2>1, KindsStay DEF IsPlainRef
    <2> DEFINE r == RewriteObject(only.fields)
               q == [k \in DOMAIN r |-> D[r[k]]]
    <2>5. /\ D[only] = Object(q)
          /\ \A k \in DOMAIN r : r[k] \in J
      BY <2>1, <2>4, ObjectsDescend DEF Documents
    <2> HIDE DEF r
    <2>6. DOMAIN q = DOMAIN r /\ \A k \in DOMAIN r : q[k] = D[r[k]]
      OBVIOUS
    <2> HIDE DEF q
    <2>7. DOMAIN q = {"$ref"} /\ IsString(q["$ref"])
      BY <2>1, <2>5 DEF IsPlainRef, Object
    <2>8. DOMAIN r = {"$ref"} /\ IsString(r["$ref"])
      BY <2>5, <2>6, <2>7, KindsStay
    <2>9. IsPlainRef(Object(r))
      BY <2>8 DEF IsPlainRef, Object, IsObject
    <2>10. QED
      BY <2>1, <2>2, <2>3, <2>4, <2>9 DEF OutOfReach, NestsSingleton, r, only
  <1>12. ~ (/\ Has(g, "additionalProperties") /\ g.additionalProperties = False
            /\ DOMAIN g \cap Combinators # {})
    BY <1>3, <1>4, <1>6, KindsStay DEF Indigestible, Has
  <1>13. ~ (HasArray(g, "enum") /\ ShareName(g.enum.items))
    <2> SUFFICES ASSUME HasArray(g, "enum"), ShareName(g.enum.items)
                 PROVE  Indigestible(f)
      BY <1>4
    <2>1. "enum" \in DOMAIN f /\ IsArray(g["enum"]) /\ IsArray(f["enum"])
      BY <1>6, <1>7 DEF HasArray, Has
    <2>2. /\ DOMAIN g.enum.items = DOMAIN f.enum.items
          /\ \A k \in DOMAIN f.enum.items :
                 IsString(g.enum.items[k]) =>
                     IsString(f.enum.items[k]) /\ g.enum.items[k] = f.enum.items[k]
      BY <1>8, <2>1, KindsStay
    <2>3. ShareName(f.enum.items)
      BY <2>2 DEF ShareName
    <2>4. QED
      BY <2>1, <2>3 DEF Indigestible, HasArray, Has
  <1>14. QED
    BY <1>1, <1>9, <1>10, <1>11, <1>12, <1>13 DEF Indigestible, IsSingletonAllOf

-----------------------------------------------------------------------------
\* Levels and nodes: what a walk meets

\* Both families of levels are there, whatever the tree.
LevelsOf(L, v) ==
    /\ L[0] = {v}
    /\ \A n \in 1..Depth : L[n] = UNION {Parts(u) : u \in L[n - 1]}

RewriteLevelsOf(L, v) ==
    /\ L[0] = {v}
    /\ \A n \in 1..Depth : L[n] = UNION {RewriteParts(u) : u \in L[n - 1]}

LEMMA LevelsThere ==
    ASSUME NEW v
    PROVE  LevelsOf(Levels(v), v)
  <1> DEFINE Body(f, N) == [n \in 0..N |-> IF n = 0 THEN {v} ELSE UNION {Parts(u) : u \in f[n - 1]}]
             Good == {N \in Nat : \E f : f = Body(f, N)}
  <1>1. 0 \in Good
    <2> DEFINE f == [n \in 0..0 |-> {v}]
    <2>1. \A n \in 0..0 : n = 0
      OBVIOUS
    <2>2. Body(f, 0) = [n \in 0..0 |-> {v}]
      BY <2>1
    <2> HIDE DEF Body
    <2>3. f = Body(f, 0)
      BY <2>2
    <2> QED BY <2>3
  <1>2. ASSUME NEW N \in Nat, N \in Good
        PROVE  N + 1 \in Good
    <2>1. PICK f : f = Body(f, N)
      BY <1>2
    <2> DEFINE g == [n \in 0..(N + 1) |-> IF n = N + 1 THEN UNION {Parts(u) : u \in f[N]} ELSE f[n]]
    <2>2. \A n \in 0..(N + 1) : g[n] = IF n = 0 THEN {v} ELSE UNION {Parts(u) : u \in g[n - 1]}
      <3> TAKE n \in 0..(N + 1)
      <3>1. CASE n = N + 1
        <4>1. n # 0 /\ n - 1 = N /\ g[N] = f[N] /\ g[n] = UNION {Parts(u) : u \in f[N]}
          BY <3>1
        <4> HIDE DEF g
        <4> QED BY <4>1
      <3>2. CASE n \in 0..N
        <4>1. g[n] = f[n] /\ (n # 0 => g[n - 1] = f[n - 1])
          BY <3>2
        <4>2. f[n] = IF n = 0 THEN {v} ELSE UNION {Parts(u) : u \in f[n - 1]}
          BY <2>1, <3>2
        <4> HIDE DEF g, Body
        <4> QED BY <4>1, <4>2
      <3> QED BY <3>1, <3>2
    <2>3. g = Body(g, N + 1)
      <3>1. g = [n \in 0..(N + 1) |-> g[n]]
        OBVIOUS
      <3> HIDE DEF g
      <3> QED BY <2>2, <3>1
    <2> HIDE DEF Body
    <2> QED BY <2>3
  <1>3. Nat \subseteq Good
    <2> HIDE DEF Good
    <2> QED BY <1>1, <1>2, NatSetInduction
  <1>4. \E f : f = Body(f, Depth)
    BY <1>3, DepthAssumption
  <1>5. Levels(v) = Body(Levels(v), Depth)
    <2> HIDE DEF Body
    <2> QED BY <1>4 DEF Levels, Body
  <1>6. \A n \in 0..Depth : Levels(v)[n] = IF n = 0 THEN {v} ELSE UNION {Parts(u) : u \in Levels(v)[n - 1]}
    BY <1>5
  <1>7. Levels(v)[0] = {v}
    <2>1. 0 \in 0..Depth
      BY DepthAssumption
    <2> HIDE DEF Body, Good
    <2> QED BY <1>6, <2>1
  <1>8. ASSUME NEW n \in 1..Depth
        PROVE  Levels(v)[n] = UNION {Parts(u) : u \in Levels(v)[n - 1]}
    <2>1. n \in 0..Depth /\ n # 0
      BY DepthAssumption
    <2> HIDE DEF Body, Good
    <2> HIDE DEF Body, Good
    <2> QED BY <1>6, <2>1
  <1> QED BY <1>7, <1>8 DEF LevelsOf

LEMMA NodesStart ==
    ASSUME NEW v
    PROVE  v \in Nodes(v)
  <1>1. Levels(v)[0] = {v} /\ 0 \in 0..Depth
    BY LevelsThere, DepthAssumption DEF LevelsOf
  <1> QED BY <1>1 DEF Nodes

\* The walk meets the parts of what it meets.
LEMMA NodesClosed ==
    ASSUME NEW v, Levels(v)[Depth] = {}, NEW u \in Nodes(v)
    PROVE  Parts(u) \subseteq Nodes(v)
  <1>1. PICK n \in 0..Depth : u \in Levels(v)[n]
    BY DEF Nodes
  <1>2. n + 1 \in 1..Depth /\ n + 1 \in 0..Depth /\ (n + 1) - 1 = n
    BY <1>1, DepthAssumption
  <1>3. Parts(u) \subseteq Levels(v)[n + 1]
    BY <1>1, <1>2, LevelsThere DEF LevelsOf
  <1> QED BY <1>2, <1>3 DEF Nodes

\* It meets nothing else.
LEMMA NodesLeast ==
    ASSUME NEW v, NEW K, v \in K, \A u \in K : Parts(u) \subseteq K
    PROVE  Nodes(v) \subseteq K
  <1> DEFINE Good == {n \in Nat : n <= Depth => Levels(v)[n] \subseteq K}
  <1>1. 0 \in Good
    BY LevelsThere DEF LevelsOf
  <1>2. ASSUME NEW n \in Nat, n \in Good
        PROVE  n + 1 \in Good
    <2> SUFFICES ASSUME n + 1 <= Depth
                 PROVE  Levels(v)[n + 1] \subseteq K
      OBVIOUS
    <2>1. n + 1 \in 1..Depth /\ (n + 1) - 1 = n /\ n <= Depth
      BY DepthAssumption
    <2>2. Levels(v)[n] \subseteq K
      BY <1>2, <2>1
    <2>3. Levels(v)[n + 1] = UNION {Parts(u) : u \in Levels(v)[n]}
      BY <2>1, LevelsThere DEF LevelsOf
    <2> QED BY <2>2, <2>3
  <1>3. Nat \subseteq Good
    <2> HIDE DEF Good
    <2> QED BY <1>1, <1>2, NatSetInduction
  <1> QED BY <1>3, DepthAssumption DEF Nodes
-----------------------------------------------------------------------------
\* The same for the walk that applies the rules.

LEMMA RewriteLevelsThere ==
    ASSUME NEW v
    PROVE  RewriteLevelsOf(RewriteLevels(v), v)
  <1> DEFINE Body(f, N) == [n \in 0..N |-> IF n = 0 THEN {v} ELSE UNION {RewriteParts(u) : u \in f[n - 1]}]
             Good == {N \in Nat : \E f : f = Body(f, N)}
  <1>1. 0 \in Good
    <2> DEFINE f == [n \in 0..0 |-> {v}]
    <2>1. \A n \in 0..0 : n = 0
      OBVIOUS
    <2>2. Body(f, 0) = [n \in 0..0 |-> {v}]
      BY <2>1
    <2> HIDE DEF Body
    <2>3. f = Body(f, 0)
      BY <2>2
    <2> QED BY <2>3
  <1>2. ASSUME NEW N \in Nat, N \in Good
        PROVE  N + 1 \in Good
    <2>1. PICK f : f = Body(f, N)
      BY <1>2
    <2> DEFINE g == [n \in 0..(N + 1) |-> IF n = N + 1 THEN UNION {RewriteParts(u) : u \in f[N]} ELSE f[n]]
    <2>2. \A n \in 0..(N + 1) : g[n] = IF n = 0 THEN {v} ELSE UNION {RewriteParts(u) : u \in g[n - 1]}
      <3> TAKE n \in 0..(N + 1)
      <3>1. CASE n = N + 1
        <4>1. n # 0 /\ n - 1 = N /\ g[N] = f[N] /\ g[n] = UNION {RewriteParts(u) : u \in f[N]}
          BY <3>1
        <4> HIDE DEF g
        <4> QED BY <4>1
      <3>2. CASE n \in 0..N
        <4>1. g[n] = f[n] /\ (n # 0 => g[n - 1] = f[n - 1])
          BY <3>2
        <4>2. f[n] = IF n = 0 THEN {v} ELSE UNION {RewriteParts(u) : u \in f[n - 1]}
          BY <2>1, <3>2
        <4> HIDE DEF g, Body
        <4> QED BY <4>1, <4>2
      <3> QED BY <3>1, <3>2
    <2>3. g = Body(g, N + 1)
      <3>1. g = [n \in 0..(N + 1) |-> g[n]]
        OBVIOUS
      <3> HIDE DEF g
      <3> QED BY <2>2, <3>1
    <2> HIDE DEF Body
    <2> QED BY <2>3
  <1>3. Nat \subseteq Good
    <2> HIDE DEF Good
    <2> QED BY <1>1, <1>2, NatSetInduction
  <1>4. \E f : f = Body(f, Depth)
    BY <1>3, DepthAssumption
  <1>5. RewriteLevels(v) = Body(RewriteLevels(v), Depth)
    <2> HIDE DEF Body
    <2> QED BY <1>4 DEF RewriteLevels, Body
  <1>6. \A n \in 0..Depth :
            RewriteLevels(v)[n] =
                IF n = 0 THEN {v} ELSE UNION {RewriteParts(u) : u \in RewriteLevels(v)[n - 1]}
    BY <1>5
  <1>7. RewriteLevels(v)[0] = {v}
    <2>1. 0 \in 0..Depth
      BY DepthAssumption
    <2> HIDE DEF Body, Good
    <2> QED BY <1>6, <2>1
  <1>8. ASSUME NEW n \in 1..Depth
        PROVE  RewriteLevels(v)[n] = UNION {RewriteParts(u) : u \in RewriteLevels(v)[n - 1]}
    <2>1. n \in 0..Depth /\ n # 0
      BY DepthAssumption
    <2> HIDE DEF Body, Good
    <2> HIDE DEF Body, Good
    <2> QED BY <1>6, <2>1
  <1> QED BY <1>7, <1>8 DEF RewriteLevelsOf

LEMMA RewriteNodesStart ==
    ASSUME NEW v
    PROVE  v \in RewriteNodes(v)
  <1>1. RewriteLevels(v)[0] = {v} /\ 0 \in 0..Depth
    BY RewriteLevelsThere, DepthAssumption DEF RewriteLevelsOf
  <1> QED BY <1>1 DEF RewriteNodes

\* The walk meets the parts of what it meets.
LEMMA RewriteNodesClosed ==
    ASSUME NEW v, RewriteLevels(v)[Depth] = {}, NEW u \in RewriteNodes(v)
    PROVE  RewriteParts(u) \subseteq RewriteNodes(v)
  <1>1. PICK n \in 0..Depth : u \in RewriteLevels(v)[n]
    BY DEF RewriteNodes
  <1>2. n + 1 \in 1..Depth /\ n + 1 \in 0..Depth /\ (n + 1) - 1 = n
    BY <1>1, DepthAssumption
  <1>3. RewriteParts(u) \subseteq RewriteLevels(v)[n + 1]
    BY <1>1, <1>2, RewriteLevelsThere DEF RewriteLevelsOf
  <1> QED BY <1>2, <1>3 DEF RewriteNodes

\* It meets nothing else.
LEMMA RewriteNodesLeast ==
    ASSUME NEW v, NEW K, v \in K, \A u \in K : RewriteParts(u) \subseteq K
    PROVE  RewriteNodes(v) \subseteq K
  <1> DEFINE Good == {n \in Nat : n <= Depth => RewriteLevels(v)[n] \subseteq K}
  <1>1. 0 \in Good
    BY RewriteLevelsThere DEF RewriteLevelsOf
  <1>2. ASSUME NEW n \in Nat, n \in Good
        PROVE  n + 1 \in Good
    <2> SUFFICES ASSUME n + 1 <= Depth
                 PROVE  RewriteLevels(v)[n + 1] \subseteq K
      OBVIOUS
    <2>1. n + 1 \in 1..Depth /\ (n + 1) - 1 = n /\ n <= Depth
      BY DepthAssumption
    <2>2. RewriteLevels(v)[n] \subseteq K
      BY <1>2, <2>1
    <2>3. RewriteLevels(v)[n + 1] = UNION {RewriteParts(u) : u \in RewriteLevels(v)[n]}
      BY <2>1, RewriteLevelsThere DEF RewriteLevelsOf
    <2> QED BY <2>2, <2>3
  <1>3. Nat \subseteq Good
    <2> HIDE DEF Good
    <2> QED BY <1>1, <1>2, NatSetInduction
  <1> QED BY <1>3, DepthAssumption DEF RewriteNodes
-----------------------------------------------------------------------------
\* The functions of the two walks exist: built from the last level up.

\* One step of lift_descend, where d is what it makes of the parts.
LiftedInto(u, d) ==
    CASE IsObject(u) ->
             IF IsOneOrArray(u.fields) THEN Ref(LiftedName(InnerRef(u.fields)))
             ELSE Object([k \in DOMAIN u.fields |-> d[u.fields[k]]])
      [] IsArray(u) -> Array([i \in DOMAIN u.items |-> d[u.items[i]]])
      [] OTHER -> u

\* d is lift_descend on the values of K.
Lifts(d, K) == \A u \in K : d[u] = LiftedInto(u, d)

\* What a walk makes of a value depends on what it makes of its parts.
LEMMA LiftByParts ==
    ASSUME NEW u, NEW d, NEW e, \A w \in Parts(u) : d[w] = e[w]
    PROVE  LiftedInto(u, d) = LiftedInto(u, e)
  <1>1. CASE IsObject(u)
    <2>1. \A k \in DOMAIN u.fields : d[u.fields[k]] = e[u.fields[k]]
      BY <1>1, PartsOf
    <2>2. [k \in DOMAIN u.fields |-> d[u.fields[k]]] = [k \in DOMAIN u.fields |-> e[u.fields[k]]]
      BY <2>1
    <2>3. ASSUME NEW c
          PROVE  LiftedInto(u, c) =
                     IF IsOneOrArray(u.fields) THEN Ref(LiftedName(InnerRef(u.fields)))
                     ELSE Object([k \in DOMAIN u.fields |-> c[u.fields[k]]])
      <3>1. ~ IsArray(u)
        BY <1>1 DEF IsObject, IsArray
      <3> QED BY <1>1, <3>1 DEF LiftedInto
    <2> QED BY <2>2, <2>3
  <1>2. CASE IsArray(u)
    <2>1. \A i \in DOMAIN u.items : d[u.items[i]] = e[u.items[i]]
      BY <1>2, PartsOf
    <2>2. [i \in DOMAIN u.items |-> d[u.items[i]]] = [i \in DOMAIN u.items |-> e[u.items[i]]]
      BY <2>1
    <2>3. ~ IsObject(u)
      BY <1>2 DEF IsObject, IsArray
    <2> QED BY <1>2, <2>2, <2>3 DEF LiftedInto
  <1>3. CASE ~ IsObject(u) /\ ~ IsArray(u)
    BY <1>3 DEF LiftedInto
  <1> QED BY <1>1, <1>2, <1>3

LEMMA LiftDescends ==
    ASSUME NEW v, Levels(v)[Depth] = {}
    PROVE  \E d : Lifts(d, Nodes(v)) /\ LiftDescend(v) = d[v]
  <1> DEFINE L == Levels(v)
             S(n) == UNION {L[m] : m \in n..Depth}
             Into(u, d) == LiftedInto(u, d)
             Walk(d, K) == [u \in K |-> Into(u, d)]
             Good == {n \in Nat : n <= Depth => \E d : d = Walk(d, S(Depth - n))}
  <1>1. \A n \in 0..Depth : \A u \in S(n) : Parts(u) \subseteq S(n)
    <2> TAKE n \in 0..Depth
    <2> TAKE u \in S(n)
    <2>1. PICK m \in n..Depth : u \in L[m]
      OBVIOUS
    <2>2. m # Depth
      BY <2>1
    <2>3. m + 1 \in 1..Depth /\ m + 1 \in n..Depth /\ (m + 1) - 1 = m
      BY <2>1, <2>2, DepthAssumption
    <2>4. Parts(u) \subseteq L[m + 1]
      BY <2>1, <2>3, LevelsThere DEF LevelsOf
    <2> QED BY <2>3, <2>4
  <1>2. \A n \in 1..Depth : \A u \in L[n - 1] : Parts(u) \subseteq S(n)
    <2> TAKE n \in 1..Depth
    <2> TAKE u \in L[n - 1]
    <2>1. Parts(u) \subseteq L[n] /\ n \in n..Depth
      BY LevelsThere DEF LevelsOf
    <2> QED BY <2>1
  <1>3. \A n \in 1..Depth : S(n - 1) = L[n - 1] \cup S(n)
    <2> TAKE n \in 1..Depth
    <2>1. (n - 1)..Depth = {n - 1} \cup n..Depth
      BY DepthAssumption
    <2> HIDE DEF L
    <2> QED BY <2>1
  <1>4. S(0) = Nodes(v)
    BY DEF Nodes
  <1>5. S(Depth) = {}
    <2>1. Depth..Depth = {Depth}
      BY DepthAssumption
    <2> QED BY <2>1
  <1>6. ASSUME NEW u, NEW d, NEW e, \A w \in Parts(u) : d[w] = e[w]
        PROVE  Into(u, d) = Into(u, e)
    BY <1>6, LiftByParts DEF Into
  <1> HIDE DEF L, S, Into
  <1>7. 0 \in Good
    <2> DEFINE d == [u \in {} |-> u]
    <2>1. d = Walk(d, {})
      OBVIOUS
    <2> HIDE DEF Walk
    <2>2. Depth - 0 = Depth
      BY DepthAssumption
    <2> QED BY <1>5, <2>1, <2>2
  <1>8. ASSUME NEW n \in Nat, n \in Good
        PROVE  n + 1 \in Good
    <2> SUFFICES ASSUME n + 1 <= Depth
                 PROVE  \E d : d = Walk(d, S(Depth - (n + 1)))
      OBVIOUS
    <2> DEFINE m == Depth - n
    <2>1. m \in 1..Depth /\ Depth - (n + 1) = m - 1 /\ n <= Depth
      BY DepthAssumption
    <2>2. PICK d : d = Walk(d, S(m))
      BY <1>8, <2>1
    <2> HIDE DEF m
    <2> DEFINE e == [u \in S(m - 1) |-> IF u \in S(m) THEN d[u] ELSE Into(u, d)]
    <2>3. S(m - 1) = L[m - 1] \cup S(m)
      BY <1>3, <2>1
    <2>4. \A u \in S(m) : e[u] = d[u] /\ d[u] = Into(u, d)
      BY <2>2, <2>3
    <2>5. \A u \in S(m - 1) : e[u] = Into(u, d)
      BY <2>4
    <2>6. \A u \in S(m - 1) : Parts(u) \subseteq S(m)
      <3>1. m \in 0..Depth
        BY <2>1
      <3> QED BY <1>1, <1>2, <2>1, <2>3, <3>1
    <2> HIDE DEF e
    <2>7. \A u \in S(m - 1) : e[u] = Into(u, e)
      <3> TAKE u \in S(m - 1)
      <3>1. \A w \in Parts(u) : d[w] = e[w]
        BY <2>4, <2>6
      <3>2. Into(u, d) = Into(u, e)
        BY <1>6, <3>1
      <3> QED BY <2>5, <3>2
    <2>8. e = Walk(e, S(m - 1))
      <3>1. e = [u \in S(m - 1) |-> e[u]]
        BY DEF e
      <3> QED BY <2>7, <3>1
    <2> HIDE DEF Walk
    <2> QED BY <2>1, <2>8
  <1>9. Nat \subseteq Good
    <2> HIDE DEF Good
    <2> QED BY <1>7, <1>8, NatSetInduction
  <1>10. \E d : d = Walk(d, Nodes(v))
    <2>1. Depth \in Good /\ Depth - Depth = 0
      BY <1>9, DepthAssumption
    <2> HIDE DEF Walk
    <2> QED BY <1>4, <2>1
  <1> DEFINE d == CHOOSE d : d = Walk(d, Nodes(v))
  <1>11. d = Walk(d, Nodes(v))
    <2> HIDE DEF Walk
    <2> QED BY <1>10
  <1>12. LiftDescend(v) = d[v]
    BY DEF LiftDescend, Into, LiftedInto
  <1> HIDE DEF d
  <1>13. \A u \in Nodes(v) : d[u] = Into(u, d)
    BY <1>11
  <1>14. Lifts(d, Nodes(v))
    BY <1>13 DEF Lifts, Into
  <1> QED BY <1>12, <1>14
\* DescendInto for the function d.
Descended(u, d) ==
    CASE IsObject(u) -> Object([k \in DOMAIN RewriteObject(u.fields) |-> d[RewriteObject(u.fields)[k]]])
      [] IsArray(u) -> Array([i \in DOMAIN u.items |-> d[u.items[i]]])
      [] OTHER -> u

LEMMA DescendByParts ==
    ASSUME NEW u, NEW d, NEW e, \A w \in RewriteParts(u) : d[w] = e[w]
    PROVE  Descended(u, d) = Descended(u, e)
  <1> DEFINE f == RewriteObject(u.fields)
  <1>1. CASE IsObject(u)
    <2>1. Object(f).fields = f /\ IsObject(Object(f))
      BY DEF Object, IsObject
    <2> HIDE DEF f
    <2>2. \A k \in DOMAIN f : f[k] \in RewriteParts(u)
      BY <1>1, <2>1, PartsOf DEF RewriteParts, f
    <2>3. [k \in DOMAIN f |-> d[f[k]]] = [k \in DOMAIN f |-> e[f[k]]]
      BY <2>2
    <2>4. ASSUME NEW c PROVE Descended(u, c) = Object([k \in DOMAIN f |-> c[f[k]]])
      <3>1. ~ IsArray(u)
        BY <1>1 DEF IsObject, IsArray
      <3> QED BY <1>1, <3>1 DEF Descended, f
    <2> QED BY <2>3, <2>4
  <1>2. CASE IsArray(u)
    <2>1. ~ IsObject(u)
      BY <1>2 DEF IsArray, IsObject
    <2>2. \A i \in DOMAIN u.items : u.items[i] \in RewriteParts(u)
      BY <1>2, <2>1, PartsOf DEF RewriteParts
    <2>3. [i \in DOMAIN u.items |-> d[u.items[i]]] = [i \in DOMAIN u.items |-> e[u.items[i]]]
      BY <2>2
    <2> QED BY <1>2, <2>1, <2>3 DEF Descended
  <1>3. CASE ~ IsObject(u) /\ ~ IsArray(u)
    BY <1>3 DEF Descended
  <1> QED BY <1>1, <1>2, <1>3

LEMMA DescendsThere ==
    ASSUME NEW v, RewriteLevels(v)[Depth] = {}
    PROVE  \E d : Descends(d, RewriteNodes(v)) /\ Descend(v) = d[v]
  <1> DEFINE L == RewriteLevels(v)
             S(n) == UNION {L[m] : m \in n..Depth}
             Into(u, d) == Descended(u, d)
             Walk(d, K) == [u \in K |-> Into(u, d)]
             Good == {n \in Nat : n <= Depth => \E d : d = Walk(d, S(Depth - n))}
  <1>1. \A n \in 0..Depth : \A u \in S(n) : RewriteParts(u) \subseteq S(n)
    <2> TAKE n \in 0..Depth
    <2> TAKE u \in S(n)
    <2>1. PICK m \in n..Depth : u \in L[m]
      OBVIOUS
    <2>2. m # Depth
      BY <2>1
    <2>3. m + 1 \in 1..Depth /\ m + 1 \in n..Depth /\ (m + 1) - 1 = m
      BY <2>1, <2>2, DepthAssumption
    <2>4. RewriteParts(u) \subseteq L[m + 1]
      BY <2>1, <2>3, RewriteLevelsThere DEF RewriteLevelsOf
    <2> QED BY <2>3, <2>4
  <1>2. \A n \in 1..Depth : \A u \in L[n - 1] : RewriteParts(u) \subseteq S(n)
    <2> TAKE n \in 1..Depth
    <2> TAKE u \in L[n - 1]
    <2>1. RewriteParts(u) \subseteq L[n] /\ n \in n..Depth
      BY RewriteLevelsThere DEF RewriteLevelsOf
    <2> QED BY <2>1
  <1>3. \A n \in 1..Depth : S(n - 1) = L[n - 1] \cup S(n)
    <2> TAKE n \in 1..Depth
    <2>1. (n - 1)..Depth = {n - 1} \cup n..Depth
      BY DepthAssumption
    <2> HIDE DEF L
    <2> QED BY <2>1
  <1>4. S(0) = RewriteNodes(v)
    BY DEF RewriteNodes
  <1>5. S(Depth) = {}
    <2>1. Depth..Depth = {Depth}
      BY DepthAssumption
    <2> QED BY <2>1
  <1>6. ASSUME NEW u, NEW d, NEW e, \A w \in RewriteParts(u) : d[w] = e[w]
        PROVE  Into(u, d) = Into(u, e)
    BY <1>6, DescendByParts DEF Into
  <1> HIDE DEF L, S, Into
  <1>7. 0 \in Good
    <2> DEFINE d == [u \in {} |-> u]
    <2>1. d = Walk(d, {})
      OBVIOUS
    <2> HIDE DEF Walk
    <2>2. Depth - 0 = Depth
      BY DepthAssumption
    <2> QED BY <1>5, <2>1, <2>2
  <1>8. ASSUME NEW n \in Nat, n \in Good
        PROVE  n + 1 \in Good
    <2> SUFFICES ASSUME n + 1 <= Depth
                 PROVE  \E d : d = Walk(d, S(Depth - (n + 1)))
      OBVIOUS
    <2> DEFINE m == Depth - n
    <2>1. m \in 1..Depth /\ Depth - (n + 1) = m - 1 /\ n <= Depth
      BY DepthAssumption
    <2>2. PICK d : d = Walk(d, S(m))
      BY <1>8, <2>1
    <2> HIDE DEF m
    <2> DEFINE e == [u \in S(m - 1) |-> IF u \in S(m) THEN d[u] ELSE Into(u, d)]
    <2>3. S(m - 1) = L[m - 1] \cup S(m)
      BY <1>3, <2>1
    <2>4. \A u \in S(m) : e[u] = d[u] /\ d[u] = Into(u, d)
      BY <2>2, <2>3
    <2>5. \A u \in S(m - 1) : e[u] = Into(u, d)
      BY <2>4
    <2>6. \A u \in S(m - 1) : RewriteParts(u) \subseteq S(m)
      <3>1. m \in 0..Depth
        BY <2>1
      <3> QED BY <1>1, <1>2, <2>1, <2>3, <3>1
    <2> HIDE DEF e
    <2>7. \A u \in S(m - 1) : e[u] = Into(u, e)
      <3> TAKE u \in S(m - 1)
      <3>1. \A w \in RewriteParts(u) : d[w] = e[w]
        BY <2>4, <2>6
      <3>2. Into(u, d) = Into(u, e)
        BY <1>6, <3>1
      <3> QED BY <2>5, <3>2
    <2>8. e = Walk(e, S(m - 1))
      <3>1. e = [u \in S(m - 1) |-> e[u]]
        BY DEF e
      <3> QED BY <2>7, <3>1
    <2> HIDE DEF Walk
    <2> QED BY <2>1, <2>8
  <1>9. Nat \subseteq Good
    <2> HIDE DEF Good
    <2> QED BY <1>7, <1>8, NatSetInduction
  <1>10. \E d : d = Walk(d, RewriteNodes(v))
    <2>1. Depth \in Good /\ Depth - Depth = 0
      BY <1>9, DepthAssumption
    <2> HIDE DEF Walk
    <2> QED BY <1>4, <2>1
  <1> DEFINE d == CHOOSE d : d = Walk(d, RewriteNodes(v))
  <1>11. d = Walk(d, RewriteNodes(v))
    <2> HIDE DEF Walk
    <2> QED BY <1>10
  <1>12. Descend(v) = d[v]
    BY DEF Descend, Into, Descended, DescendInto
  <1> HIDE DEF d
  <1>13. \A u \in RewriteNodes(v) : d[u] = Into(u, d)
    BY <1>11
  <1>14. Descends(d, RewriteNodes(v))
    BY <1>13 DEF Descends, Into, Descended, DescendInto
  <1> QED BY <1>12, <1>14

-----------------------------------------------------------------------------
\* Sets of JSON values

LEMMA JsonInMore ==
    ASSUME NEW J, NEW K, J \subseteq K, NEW v, JsonIn(v, J)
    PROVE  JsonIn(v, K)
BY DEF JsonIn

LEMMA KindsOfJson ==
    /\ \A f : /\ IsObject(Object(f)) /\ Object(f).fields = f
              /\ ~ IsArray(Object(f)) /\ ~ IsString(Object(f))
    /\ \A s : /\ IsArray(Array(s)) /\ Array(s).items = s
              /\ ~ IsObject(Array(s)) /\ ~ IsString(Array(s))
    /\ \A x : /\ IsString(String(x)) /\ String(x).str = x
              /\ ~ IsObject(String(x)) /\ ~ IsArray(String(x))
BY DEF Object, Array, String, IsObject, IsArray, IsString

LEMMA JsonObject ==
    ASSUME NEW J, NEW keys, NEW f \in [keys -> J]
    PROVE  JsonIn(Object(f), J)
  <1>1. DOMAIN f = keys
    OBVIOUS
  <1> QED BY <1>1, KindsOfJson DEF JsonIn

LEMMA JsonArray ==
    ASSUME NEW J, NEW s \in Seq(J)
    PROVE  JsonIn(Array(s), J)
BY KindsOfJson DEF JsonIn

LEMMA JsonString ==
    ASSUME NEW J, NEW x
    PROVE  JsonIn(String(x), J)
BY KindsOfJson DEF JsonIn

LEMMA JsonMakers ==
    ASSUME NEW J
    PROVE  /\ \A keys : \A f \in [keys -> J] : JsonIn(Object(f), J)
           /\ \A s \in Seq(J) : JsonIn(Array(s), J)
           /\ \A x : JsonIn(String(x), J)
BY JsonObject, JsonArray, JsonString

LEMMA JsonInShape ==
    ASSUME NEW J, NEW v, JsonIn(v, J)
    PROVE  /\ IsObject(v) => v.fields \in [DOMAIN v.fields -> J] /\ v = Object(v.fields)
           /\ IsArray(v)  => v.items \in Seq(J) /\ v = Array(v.items)
           /\ IsString(v) => v = String(v.str)
BY DEF JsonIn, IsObject, IsArray, IsString, Null

\* Parts of a JSON value.
LEMMA JsonInParts ==
    ASSUME NEW J, NEW v, JsonIn(v, J)
    PROVE  Parts(v) \subseteq J
  <1>1. CASE IsObject(v)
    <2>1. v.fields \in [DOMAIN v.fields -> J]
      BY <1>1, JsonInShape
    <2>2. Parts(v) = {v.fields[k] : k \in DOMAIN v.fields}
      BY <1>1 DEF Parts, IsObject, IsArray
    <2> QED BY <2>1, <2>2
  <1>2. CASE IsArray(v)
    <2>1. v.items \in Seq(J)
      BY <1>2, JsonInShape
    <2>2. Parts(v) = {v.items[i] : i \in DOMAIN v.items}
      BY <1>2 DEF Parts, IsObject, IsArray
    <2>3. \A i \in DOMAIN v.items : v.items[i] \in J
      BY <2>1
    <2> QED BY <2>2, <2>3
  <1>3. CASE ~ IsObject(v) /\ ~ IsArray(v)
    BY <1>3 DEF Parts
  <1> QED BY <1>1, <1>2, <1>3

\* What is closed under parts, in JSON, is JSON.
LEMMA JsonSub ==
    ASSUME NEW K, Json(K), NEW J, J \subseteq K, \A v \in J : Parts(v) \subseteq J
    PROVE  Json(J)
  <1> SUFFICES ASSUME NEW v \in J
               PROVE  JsonIn(v, J)
    BY DEF Json
  <1>1. JsonIn(v, K)
    BY DEF Json
  <1>2. CASE IsObject(v)
    <2>1. v.fields \in [DOMAIN v.fields -> K] /\ v = Object(v.fields)
      BY <1>1, <1>2, JsonInShape
    <2>2. \A k \in DOMAIN v.fields : v.fields[k] \in J
      BY <1>2, PartsOf
    <2>3. v.fields \in [DOMAIN v.fields -> J]
      BY <2>1, <2>2
    <2> QED BY <1>2, <2>1, <2>3 DEF JsonIn
  <1>3. CASE IsArray(v)
    <2>1. v.items \in Seq(K) /\ v = Array(v.items)
      BY <1>1, <1>3, JsonInShape
    <2>2. \A i \in DOMAIN v.items : v.items[i] \in J
      BY <1>3, PartsOf
    <2>3. v.items \in Seq(J)
      BY <2>1, <2>2
    <2> QED BY <1>3, <2>1, <2>3 DEF JsonIn
  <1>4. CASE ~ IsObject(v) /\ ~ IsArray(v)
    BY <1>1, <1>4 DEF JsonIn
  <1> QED BY <1>2, <1>3, <1>4

\* A part nests less deep.
LEMMA PartNestsLess ==
    ASSUME NEW v, Levels(v)[Depth] = {}, NEW u \in Parts(v)
    PROVE  Levels(u)[Depth] = {}
  <1> DEFINE L == Levels(v)
             M == Levels(u)
             Good == {n \in Nat : n < Depth => M[n] \subseteq L[n + 1]}
  <1>1. /\ L[0] = {v} /\ \A n \in 1..Depth : L[n] = UNION {Parts(w) : w \in L[n - 1]}
        /\ M[0] = {u} /\ \A n \in 1..Depth : M[n] = UNION {Parts(w) : w \in M[n - 1]}
    BY LevelsThere DEF LevelsOf
  <1>2. L[Depth] = {} /\ Depth # 0 /\ Depth \in 1..Depth /\ Depth - 1 \in Nat
    BY <1>1, DepthAssumption
  <1> HIDE DEF L, M
  <1>3. 0 \in Good
    <2>1. 1 \in 1..Depth /\ 1 - 1 = 0 /\ 0 + 1 = 1
      BY <1>2
    <2> QED BY <1>1, <2>1
  <1>4. ASSUME NEW n \in Nat, n \in Good
        PROVE  n + 1 \in Good
    <2> SUFFICES ASSUME n + 1 < Depth
                 PROVE  M[n + 1] \subseteq L[(n + 1) + 1]
      OBVIOUS
    <2>1. /\ n + 1 \in 1..Depth /\ (n + 1) - 1 = n /\ n < Depth
          /\ (n + 1) + 1 \in 1..Depth /\ ((n + 1) + 1) - 1 = n + 1
      BY DepthAssumption
    <2>2. M[n] \subseteq L[n + 1]
      BY <1>4, <2>1
    <2>3. M[n + 1] = UNION {Parts(w) : w \in M[n]}
      BY <1>1, <2>1
    <2>4. L[(n + 1) + 1] = UNION {Parts(w) : w \in L[n + 1]}
      BY <1>1, <2>1
    <2> HIDE DEF Good
    <2> QED BY <2>2, <2>3, <2>4
  <1>5. Nat \subseteq Good
    <2> HIDE DEF Good
    <2> QED BY <1>3, <1>4, NatSetInduction
  <1>6. M[Depth - 1] \subseteq L[Depth]
    <2>1. Depth - 1 \in Good /\ Depth - 1 < Depth /\ (Depth - 1) + 1 = Depth
      BY <1>2, <1>5, DepthAssumption
    <2> QED BY <2>1
  <1>7. M[Depth] = UNION {Parts(w) : w \in M[Depth - 1]}
    BY <1>1, <1>2
  <1>8. M[Depth] = {}
    BY <1>2, <1>6, <1>7
  <1> QED BY <1>8 DEF M

LEMMA NodesBelow ==
    ASSUME NEW v, Levels(v)[Depth] = {}, NEW u \in Nodes(v)
    PROVE  Nodes(u) \subseteq Nodes(v)
  <1>1. \A w \in Nodes(v) : Parts(w) \subseteq Nodes(v)
    BY NodesClosed
  <1> QED BY <1>1, NodesLeast

-----------------------------------------------------------------------------
\* The document after lifting

\* What a schema that is synthesised for x consists of, with the reference to it.
Pieces(x) ==
    {OneOrArray(x), Array(<<Ref(x), Object(ArrayOf(x))>>), Ref(x), Object(ArrayOf(x)),
     String(x), String("array"), Ref(LiftedName(x)), String(LiftedName(x))}

LEMMA RefIsReference ==
    ASSUME NEW x
    PROVE  IsReference(Ref(x)) /\ Ref(x).fields["$ref"].str = x
  <1>1. Field("$ref", String(x))["$ref"] = String(x) /\ DOMAIN Field("$ref", String(x)) = {"$ref"}
    BY DEF Field
  <1> QED BY <1>1, KindsOfJson DEF Ref, IsReference, Has

LEMMA PiecesAreJson ==
    ASSUME NEW x
    PROVE  /\ Json(Pieces(x))
           /\ \A w \in Pieces(x) : IsReference(w) => w = Ref(x) \/ w = Ref(LiftedName(x))
  <1> DEFINE P == Pieces(x)
             s == <<Ref(x), Object(ArrayOf(x))>>
  <1>1. String(x) \in P /\ String("array") \in P /\ String(LiftedName(x)) \in P
        /\ Ref(x) \in P /\ Object(ArrayOf(x)) \in P /\ Array(s) \in P
    BY DEF Pieces
  <1>2. /\ Field("$ref", String(x)) \in [{"$ref"} -> P]
        /\ Field("$ref", String(LiftedName(x))) \in [{"$ref"} -> P]
        /\ Field("anyOf", Array(s)) \in [{"anyOf"} -> P]
    BY <1>1 DEF Field
  <1>3. ArrayOf(x) \in [{"type", "items"} -> P]
    BY <1>1 DEF ArrayOf
  <1>4. s \in Seq(P)
    BY <1>1
  <1> HIDE DEF P, s
  <1>5. \A w \in P : w \in {Object(Field("anyOf", Array(s))), Array(s), Object(Field("$ref", String(x))),
                            Object(ArrayOf(x)), String(x), String("array"),
                            Object(Field("$ref", String(LiftedName(x)))), String(LiftedName(x))}
    BY DEF P, s, Pieces, Ref, OneOrArray
  <1>6. \A w \in P : JsonIn(w, P)
    <2> TAKE w \in P
    <2>1. CASE w \in {Array(s), String(x), String("array"), String(LiftedName(x))}
      BY <1>4, <2>1, JsonMakers
    <2>2. CASE w \in {Object(Field("$ref", String(x))), Object(Field("$ref", String(LiftedName(x)))),
                      Object(Field("anyOf", Array(s)))}
      BY <1>2, <2>2, JsonMakers
    <2>3. CASE w = Object(ArrayOf(x))
      BY <1>3, <2>3, JsonMakers
    <2> QED BY <1>5, <2>1, <2>2, <2>3
  <1>7. \A w \in P : IsReference(w) => w = Ref(x) \/ w = Ref(LiftedName(x))
    <2>1. DOMAIN Field("anyOf", Array(s)) = {"anyOf"} /\ DOMAIN ArrayOf(x) = {"type", "items"}
      BY DEF Field, ArrayOf
    <2>2. ~ IsReference(Object(Field("anyOf", Array(s)))) /\ ~ IsReference(Object(ArrayOf(x)))
      BY <2>1, KindsOfJson DEF IsReference, Has
    <2>3. \A w \in {Array(s), String(x), String("array"), String(LiftedName(x))} : ~ IsReference(w)
      BY KindsOfJson DEF IsReference
    <2> QED BY <1>5, <2>2, <2>3 DEF Ref
  <1> QED BY <1>6, <1>7 DEF P, Json

\* The value that lift_descend makes of u, by the kind of u.
LEMMA LiftedPatterns ==
    ASSUME NEW d, NEW J, Lifts(d, J), NEW u \in J, IsObject(u), IsOneOrArray(u.fields)
    PROVE  d[u] = Ref(LiftedName(InnerRef(u.fields))) /\ ~ IsArray(u)
  <1>1. ~ IsArray(u)
    BY DEF IsObject, IsArray
  <1> QED BY <1>1 DEF Lifts, LiftedInto

LEMMA LiftedObjects ==
    ASSUME NEW d, NEW J, Lifts(d, J), NEW u \in J, IsObject(u), ~ IsOneOrArray(u.fields)
    PROVE  d[u] = Object([k \in DOMAIN u.fields |-> d[u.fields[k]]]) /\ ~ IsArray(u)
  <1>1. ~ IsArray(u)
    BY DEF IsObject, IsArray
  <1> QED BY <1>1 DEF Lifts, LiftedInto

LEMMA LiftedArrays ==
    ASSUME NEW d, NEW J, Lifts(d, J), NEW u \in J, IsArray(u)
    PROVE  d[u] = Array([i \in DOMAIN u.items |-> d[u.items[i]]]) /\ ~ IsObject(u)
  <1>1. ~ IsObject(u)
    BY DEF IsObject, IsArray
  <1> QED BY <1>1 DEF Lifts, LiftedInto

LEMMA LiftedScalars ==
    ASSUME NEW d, NEW J, Lifts(d, J), NEW u \in J, ~ IsObject(u), ~ IsArray(u)
    PROVE  d[u] = u
BY DEF Lifts, LiftedInto

LEMMA LiftedKindsStay ==
    ASSUME NEW d, NEW J, Lifts(d, J), NEW u \in J
    PROVE  /\ IsObject(u) => IsObject(d[u]) /\ ~ IsString(d[u])
           /\ IsArray(u) => IsArray(d[u]) /\ ~ IsObject(d[u]) /\ ~ IsString(d[u])
  <1>1. CASE IsObject(u) /\ IsOneOrArray(u.fields)
    <2>1. ~ IsArray(u) /\ d[u] = Ref(LiftedName(InnerRef(u.fields)))
      BY <1>1, LiftedPatterns
    <2> QED BY <2>1, KindsOfJson DEF Ref
  <1>2. CASE IsObject(u) /\ ~ IsOneOrArray(u.fields)
    <2> DEFINE g == [k \in DOMAIN u.fields |-> d[u.fields[k]]]
    <2>1. ~ IsArray(u) /\ d[u] = Object(g)
      BY <1>2, LiftedObjects
    <2> HIDE DEF g
    <2> QED BY <2>1, KindsOfJson
  <1>3. CASE IsArray(u)
    <2> DEFINE s == [i \in DOMAIN u.items |-> d[u.items[i]]]
    <2>1. ~ IsObject(u) /\ d[u] = Array(s)
      BY <1>3, LiftedArrays
    <2> HIDE DEF s
    <2> QED BY <1>3, <2>1, KindsOfJson
  <1> QED BY <1>1, <1>2, <1>3

LEMMA LiftedIsJson ==
    ASSUME NEW J, Json(J), NEW d, Lifts(d, J), NEW u \in J,
           NEW K, \A w \in J : d[w] \in K,
           (IsObject(u) /\ IsOneOrArray(u.fields)) => Pieces(InnerRef(u.fields)) \subseteq K
    PROVE  JsonIn(d[u], K)
  <1>1. CASE IsObject(u) /\ IsOneOrArray(u.fields)
    <2> DEFINE x == InnerRef(u.fields)
    <2>1. d[u] = Ref(LiftedName(x)) /\ Pieces(x) \subseteq K
      BY <1>1, LiftedPatterns
    <2>2. Ref(LiftedName(x)) \in Pieces(x)
      BY DEF Pieces
    <2>3. JsonIn(Ref(LiftedName(x)), Pieces(x))
      BY <2>2, PiecesAreJson DEF Json
    <2> QED BY <2>1, <2>3, JsonInMore
  <1>2. CASE IsObject(u) /\ ~ IsOneOrArray(u.fields)
    <2> DEFINE g == [k \in DOMAIN u.fields |-> d[u.fields[k]]]
    <2>1. d[u] = Object(g)
      BY <1>2, LiftedObjects
    <2>2. \A k \in DOMAIN u.fields : u.fields[k] \in J
      BY <1>2, JsonParts
    <2>3. g \in [DOMAIN u.fields -> K]
      BY <2>2
    <2> HIDE DEF g
    <2> QED BY <2>1, <2>3, JsonObject
  <1>3. CASE IsArray(u)
    <2> DEFINE s == [i \in DOMAIN u.items |-> d[u.items[i]]]
    <2>1. d[u] = Array(s)
      BY <1>3, LiftedArrays
    <2>2. u.items \in Seq(J)
      BY <1>3, JsonParts
    <2>3. /\ DOMAIN u.items = 1..Len(u.items) /\ Len(u.items) \in Nat
          /\ \A i \in DOMAIN u.items : u.items[i] \in J
      BY <2>2
    <2>4. s \in [1..Len(u.items) -> K]
      BY <2>3
    <2> HIDE DEF s
    <2>5. s \in Seq(K)
      BY <2>3, <2>4
    <2> QED BY <2>1, <2>5, JsonArray
  <1>4. CASE ~ IsObject(u) /\ ~ IsArray(u)
    <2>1. d[u] = u /\ JsonIn(u, J)
      BY <1>4, LiftedScalars DEF Json
    <2>2. JsonIn(u, K)
      BY <1>4, <2>1 DEF JsonIn
    <2> QED BY <2>1, <2>2
  <1> QED BY <1>1, <1>2, <1>3, <1>4

\* A reference of the outcome was one before, or was put there.
LEMMA LiftedReference ==
    ASSUME NEW J, Json(J), NEW d, Lifts(d, J), NEW u \in J, IsReference(d[u])
    PROVE  \/ /\ IsObject(u) /\ IsOneOrArray(u.fields)
              /\ d[u].fields["$ref"].str = LiftedName(InnerRef(u.fields))
           \/ IsReference(u) /\ d[u].fields["$ref"].str = u.fields["$ref"].str
  <1>1. CASE IsObject(u) /\ IsOneOrArray(u.fields)
    BY <1>1, LiftedPatterns, RefIsReference
  <1>2. CASE IsObject(u) /\ ~ IsOneOrArray(u.fields)
    <2> DEFINE g == [k \in DOMAIN u.fields |-> d[u.fields[k]]]
               r == u.fields["$ref"]
    <2>1. d[u] = Object(g)
      BY <1>2, LiftedObjects
    <2>2. d[u].fields = g
      BY <2>1, KindsOfJson
    <2>3. "$ref" \in DOMAIN u.fields /\ g["$ref"] = d[r] /\ IsString(d[r])
      BY <2>2 DEF IsReference, Has
    <2>4. r \in J
      BY <1>2, <2>3, JsonParts
    <2>5. ~ IsObject(r) /\ ~ IsArray(r)
      BY <2>3, <2>4, LiftedKindsStay
    <2>6. d[r] = r
      BY <2>4, <2>5, LiftedScalars
    <2> QED BY <1>2, <2>2, <2>3, <2>6 DEF IsReference, Has
  <1>3. CASE IsArray(u)
    BY <1>3, LiftedKindsStay DEF IsReference
  <1>4. CASE ~ IsObject(u) /\ ~ IsArray(u)
    BY <1>4, LiftedScalars DEF IsReference
  <1> QED BY <1>1, <1>2, <1>3, <1>4

\* The pattern holds a reference itself.
LEMMA PatternReference ==
    ASSUME NEW J, Json(J), NEW u \in J, IsObject(u), IsOneOrArray(u.fields)
    PROVE  \E w \in J : IsReference(w) /\ w.fields["$ref"].str = InnerRef(u.fields)
  <1> DEFINE a == u.fields.anyOf
  <1>1. a \in J /\ IsArray(a)
    BY JsonParts DEF IsOneOrArray
  <1>2. a.items \in Seq(J) /\ Len(a.items) = 2
    BY <1>1, JsonParts DEF IsOneOrArray
  <1>3. a.items[1] \in J
    BY <1>2
  <1>4. IsPlainRef(a.items[1])
    BY DEF IsOneOrArray
  <1> QED BY <1>3, <1>4 DEF IsPlainRef, IsReference, InnerRef, Has

\* M holds all that the document consists of, and its references are in names.
Sound(M, doc, names) ==
    /\ Json(M) /\ Object(doc) \in M
    /\ \A w \in M : IsReference(w) => w.fields["$ref"].str \in names

\* What `const` and `enum` list in the object f are scalars.
PlainConstants(f) ==
    /\ Has(f, "const") => IsScalar(f["const"])
    /\ HasArray(f, "enum") => \A i \in DOMAIN f["enum"].items : IsScalar(f["enum"].items[i])

Plain(M) == \A w \in M : IsObject(w) => PlainConstants(w.fields)

\* The function of the walk over v.
LiftWalk(v) == CHOOSE d : Lifts(d, Nodes(v)) /\ LiftDescend(v) = d[v]

\* What lifting makes of what it meets in a document.
LiftPairs(doc) ==
    UNION {{<<u, LiftWalk(doc[name])[u]>> : u \in Nodes(doc[name])} : name \in DOMAIN doc}

\* What the document consists of then.
LiftNodes(doc) == {p[2] : p \in LiftPairs(doc)} \cup UNION {Pieces(x) : x \in Inner(doc)}

LEMMA LiftWalks ==
    ASSUME NEW doc \in Specs, NEW name \in DOMAIN doc
    PROVE  LET J == Nodes(doc[name])
               d == LiftWalk(doc[name])
           IN  /\ J \subseteq Nodes(Object(doc)) /\ Json(J) /\ doc[name] \in J
               /\ \A u \in J : Parts(u) \subseteq J
               /\ Levels(doc[name])[Depth] = {}
               /\ Lifts(d, J) /\ LiftDescend(doc[name]) = d[doc[name]]
               /\ \A u \in J : <<u, d[u]>> \in LiftPairs(doc) /\ d[u] \in LiftNodes(doc)
               /\ \A u \in J : (IsObject(u) /\ IsOneOrArray(u.fields)) =>
                                   InnerRef(u.fields) \in Inner(doc)
  <1> DEFINE v  == doc[name]
             J0 == Nodes(Object(doc))
             J  == Nodes(v)
             d  == LiftWalk(v)
  <1>1. Json(J0) /\ \A u \in J0 : Parts(u) \subseteq J0
    BY SpecsAssumption, NodesClosed
  <1>2. v \in Parts(Object(doc))
    BY PartsOf, KindsOfJson
  <1>3. Levels(v)[Depth] = {}
    BY <1>2, PartNestsLess, SpecsAssumption
  <1>4. v \in J0
    BY <1>1, <1>2, NodesStart
  <1>5. J \subseteq J0
    BY <1>4, NodesBelow, SpecsAssumption
  <1>6. \A u \in J : Parts(u) \subseteq J
    BY <1>3, NodesClosed
  <1>7. Json(J)
    BY <1>1, <1>5, <1>6, JsonSub
  <1>8. v \in J
    BY NodesStart
  <1>9. Lifts(d, J) /\ LiftDescend(v) = d[v]
    <2>1. \E e : Lifts(e, J) /\ LiftDescend(v) = e[v]
      BY <1>3, LiftDescends
    <2> QED BY <2>1 DEF LiftWalk
  <1>10. ASSUME NEW u \in J
         PROVE  <<u, d[u]>> \in LiftPairs(doc) /\ d[u] \in LiftNodes(doc)
    <2> DEFINE Of(n) == {<<w, LiftWalk(doc[n])[w]>> : w \in Nodes(doc[n])}
    <2>1. <<u, d[u]>> \in Of(name)
      OBVIOUS
    <2>2. LiftPairs(doc) = UNION {Of(n) : n \in DOMAIN doc}
      BY DEF LiftPairs
    <2> HIDE DEF Of, d
    <2>3. <<u, d[u]>> \in LiftPairs(doc)
      BY <2>1, <2>2
    <2> DEFINE p == <<u, d[u]>>
    <2>4. p[2] = d[u]
      OBVIOUS
    <2> HIDE DEF p
    <2>5. p[2] \in {q[2] : q \in LiftPairs(doc)}
      BY <2>3 DEF p
    <2> QED BY <2>3, <2>4, <2>5 DEF LiftNodes
  <1>11. ASSUME NEW u \in J, IsObject(u), IsOneOrArray(u.fields)
         PROVE  InnerRef(u.fields) \in Inner(doc)
    <2>1. InnerRef(u.fields) \in Synthesised(v)
      BY <1>11 DEF Synthesised
    <2> HIDE DEF v
    <2>2. Synthesised(v) \in {Synthesised(doc[n]) : n \in DOMAIN doc}
      BY DEF v
    <2> QED BY <2>1, <2>2 DEF Inner
  <1> QED BY <1>3, <1>5, <1>6, <1>7, <1>8, <1>9, <1>10, <1>11

LEMMA LiftPairWalk ==
    ASSUME NEW doc, NEW p \in LiftPairs(doc)
    PROVE  \E name \in DOMAIN doc :
               /\ p[1] \in Nodes(doc[name]) /\ p[2] = LiftWalk(doc[name])[p[1]]
               /\ p = <<p[1], p[2]>>
  <1> DEFINE Of(n) == {<<w, LiftWalk(doc[n])[w]>> : w \in Nodes(doc[n])}
  <1>1. LiftPairs(doc) = UNION {Of(n) : n \in DOMAIN doc}
    BY DEF LiftPairs
  <1> HIDE DEF Of
  <1>2. PICK name \in DOMAIN doc : p \in Of(name)
    BY <1>1
  <1>3. PICK w \in Nodes(doc[name]) : p = <<w, LiftWalk(doc[name])[w]>>
    BY <1>2 DEF Of
  <1>4. p[1] = w /\ p[2] = LiftWalk(doc[name])[w]
    BY <1>3
  <1> QED BY <1>3, <1>4

LEMMA LiftNodesKinds ==
    ASSUME NEW doc, NEW w \in LiftNodes(doc)
    PROVE  \/ \E name \in DOMAIN doc : \E u \in Nodes(doc[name]) : w = LiftWalk(doc[name])[u]
           \/ \E x \in Inner(doc) : w \in Pieces(x)
  <1>1. CASE w \in {p[2] : p \in LiftPairs(doc)}
    <2>1. PICK p \in LiftPairs(doc) : w = p[2]
      BY <1>1
    <2> QED BY <2>1, LiftPairWalk
  <1>2. CASE w \in UNION {Pieces(x) : x \in Inner(doc)}
    BY <1>2
  <1> QED BY <1>1, <1>2 DEF LiftNodes

\* The schemas that are synthesised, and the names of the document.
LEMMA LiftedNames ==
    ASSUME NEW doc, NEW new, new = DOMAIN LiftedSchemas(doc),
           NEW doc1, doc1 = LiftInlineOneOrArrayRefs(doc)
    PROVE  /\ \A l \in new : \E x \in Inner(doc) :
                  l = LiftedName(x) /\ LiftedSchemas(doc)[l] = OneOrArray(x)
           /\ \A x \in Inner(doc) : LiftedName(x) \in new
           /\ DOMAIN doc1 = DOMAIN doc \cup new
           /\ \A name \in DOMAIN doc : doc1[name] = LiftDescend(doc[name])
           /\ \A l \in new \ DOMAIN doc : doc1[l] = LiftedSchemas(doc)[l]
           /\ doc1 = [name \in DOMAIN doc1 |-> doc1[name]]
  <1>1. new = {LiftedName(x) : x \in Inner(doc)}
    BY DEF LiftedSchemas
  <1>2. ASSUME NEW l \in new
        PROVE  \E x \in Inner(doc) : l = LiftedName(x) /\ LiftedSchemas(doc)[l] = OneOrArray(x)
    <2> DEFINE x == CHOOSE x \in Inner(doc) : LiftedName(x) = l
    <2>1. LiftedSchemas(doc)[l] = OneOrArray(x)
      BY <1>1 DEF LiftedSchemas
    <2>2. \E y \in Inner(doc) : LiftedName(y) = l
      BY <1>1
    <2>3. x \in Inner(doc) /\ LiftedName(x) = l
      BY <2>2
    <2> HIDE DEF x
    <2> QED BY <2>1, <2>3
  <1>3. /\ DOMAIN doc1 = DOMAIN doc \cup new
        /\ \A name \in DOMAIN doc : doc1[name] = LiftDescend(doc[name])
        /\ \A l \in new \ DOMAIN doc : doc1[l] = LiftedSchemas(doc)[l]
        /\ doc1 = [name \in DOMAIN doc1 |-> doc1[name]]
    BY DEF LiftInlineOneOrArrayRefs
  <1> QED BY <1>1, <1>2, <1>3

LEMMA LiftNodesAreJson ==
    ASSUME NEW doc \in Specs
    PROVE  LET M0   == LiftNodes(doc)
               doc1 == LiftInlineOneOrArrayRefs(doc)
           IN  doc1 \in [DOMAIN doc1 -> M0] /\ Json(M0 \cup {Object(doc1)})
  <1> DEFINE M0   == LiftNodes(doc)
             new  == DOMAIN LiftedSchemas(doc)
             doc1 == LiftInlineOneOrArrayRefs(doc)
             M    == M0 \cup {Object(doc1)}
  <1>0. /\ \A l \in new : \E x \in Inner(doc) :
               l = LiftedName(x) /\ LiftedSchemas(doc)[l] = OneOrArray(x)
        /\ \A x \in Inner(doc) : LiftedName(x) \in new
        /\ DOMAIN doc1 = DOMAIN doc \cup new
        /\ \A name \in DOMAIN doc : doc1[name] = LiftDescend(doc[name])
        /\ \A l \in new \ DOMAIN doc : doc1[l] = LiftedSchemas(doc)[l]
        /\ doc1 = [name \in DOMAIN doc1 |-> doc1[name]]
    BY LiftedNames
  <1>1. \A x \in Inner(doc) : Pieces(x) \subseteq M0
    BY DEF LiftNodes
  <1>2. doc1 \in [DOMAIN doc1 -> M0]
    <2>1. ASSUME NEW name \in DOMAIN doc PROVE doc1[name] \in M0
      <3>1. LiftDescend(doc[name]) = LiftWalk(doc[name])[doc[name]] /\ doc[name] \in Nodes(doc[name])
        BY LiftWalks
      <3>2. LiftWalk(doc[name])[doc[name]] \in M0
        BY <3>1, LiftWalks
      <3> QED BY <1>0, <3>1, <3>2
    <2>2. ASSUME NEW l \in new \ DOMAIN doc PROVE doc1[l] \in M0
      <3>1. PICK x \in Inner(doc) : doc1[l] = OneOrArray(x)
        BY <1>0
      <3>2. OneOrArray(x) \in Pieces(x)
        BY DEF Pieces
      <3> QED BY <1>1, <3>1, <3>2
    <2>3. DOMAIN doc1 = DOMAIN doc \cup new /\ doc1 = [name \in DOMAIN doc1 |-> doc1[name]]
      BY <1>0
    <2> HIDE DEF M0, new, doc1
    <2> QED BY <2>1, <2>2, <2>3
  <1>3. ASSUME NEW w \in M0
        PROVE  JsonIn(w, M0)
    <2>1. ASSUME NEW name \in DOMAIN doc, NEW u \in Nodes(doc[name]), w = LiftWalk(doc[name])[u]
          PROVE  JsonIn(w, M0)
      <3> DEFINE J == Nodes(doc[name])
                 d == LiftWalk(doc[name])
      <3>1. /\ Json(J) /\ Lifts(d, J) /\ \A z \in J : d[z] \in M0
            /\ (IsObject(u) /\ IsOneOrArray(u.fields)) => Pieces(InnerRef(u.fields)) \subseteq M0
        BY <1>1, LiftWalks
      <3> HIDE DEF J, d, M0
      <3>2. u \in J /\ w = d[u]
        BY <2>1 DEF J, d
      <3> QED BY <3>1, <3>2, LiftedIsJson
    <2>2. ASSUME NEW x \in Inner(doc), w \in Pieces(x)
          PROVE  JsonIn(w, M0)
      <3>1. JsonIn(w, Pieces(x))
        BY <2>2, PiecesAreJson DEF Json
      <3> QED BY <1>1, <3>1, JsonInMore
    <2> QED BY <2>1, <2>2, LiftNodesKinds
  <1> HIDE DEF M0, doc1
  <1>4. JsonIn(Object(doc1), M0)
    BY <1>2, JsonObject
  <1>5. Json(M)
    <2>1. \A w \in M : JsonIn(w, M0)
      BY <1>3, <1>4
    <2> QED BY <2>1, JsonInMore DEF Json
  <1> QED BY <1>2, <1>5 DEF M0, doc1

LEMMA LiftKeepsSound ==
    ASSUME NEW doc \in Specs, NEW names, Sound(Nodes(Object(doc)), doc, names)
    PROVE  Sound(LiftNodes(doc) \cup {Object(LiftInlineOneOrArrayRefs(doc))},
                 LiftInlineOneOrArrayRefs(doc), names \cup DOMAIN LiftedSchemas(doc))
  <1> DEFINE J0   == Nodes(Object(doc))
             new  == DOMAIN LiftedSchemas(doc)
             doc1 == LiftInlineOneOrArrayRefs(doc)
             M0   == LiftNodes(doc)
             M    == M0 \cup {Object(doc1)}
  <1>0. /\ \A l \in new : \E x \in Inner(doc) :
               l = LiftedName(x) /\ LiftedSchemas(doc)[l] = OneOrArray(x)
        /\ \A x \in Inner(doc) : LiftedName(x) \in new
        /\ DOMAIN doc1 = DOMAIN doc \cup new
        /\ \A name \in DOMAIN doc : doc1[name] = LiftDescend(doc[name])
        /\ \A l \in new \ DOMAIN doc : doc1[l] = LiftedSchemas(doc)[l]
        /\ doc1 = [name \in DOMAIN doc1 |-> doc1[name]]
    BY LiftedNames
  <1>1. Json(M)
    BY LiftNodesAreJson
  <1>2. ASSUME NEW x \in Inner(doc)
        PROVE  x \in names /\ LiftedName(x) \in new
    <2>1. PICK name \in DOMAIN doc : x \in Synthesised(doc[name])
      BY DEF Inner
    <2>2. PICK u \in Nodes(doc[name]) :
              IsObject(u) /\ IsOneOrArray(u.fields) /\ x = InnerRef(u.fields)
      BY <2>1 DEF Synthesised
    <2>3. PICK w \in Nodes(doc[name]) : IsReference(w) /\ w.fields["$ref"].str = x
      BY <2>2, LiftWalks, PatternReference
    <2>4. w \in J0
      BY LiftWalks
    <2> QED BY <1>0, <2>3, <2>4 DEF Sound
  <1>3. ASSUME NEW w \in M0, IsReference(w)
        PROVE  w.fields["$ref"].str \in names \cup new
    <2>1. ASSUME NEW name \in DOMAIN doc, NEW u \in Nodes(doc[name]), w = LiftWalk(doc[name])[u]
          PROVE  w.fields["$ref"].str \in names \cup new
      <3> DEFINE J == Nodes(doc[name])
                 d == LiftWalk(doc[name])
      <3>1. /\ Json(J) /\ Lifts(d, J) /\ u \in J0
            /\ (IsObject(u) /\ IsOneOrArray(u.fields)) => InnerRef(u.fields) \in Inner(doc)
        BY LiftWalks
      <3> HIDE DEF J, d
      <3>2. u \in J /\ w = d[u]
        BY <2>1 DEF J, d
      <3>3. \/ /\ IsObject(u) /\ IsOneOrArray(u.fields)
               /\ w.fields["$ref"].str = LiftedName(InnerRef(u.fields))
            \/ IsReference(u) /\ w.fields["$ref"].str = u.fields["$ref"].str
        BY <1>3, <3>1, <3>2, LiftedReference
      <3> QED BY <1>2, <3>1, <3>3 DEF Sound
    <2>2. ASSUME NEW x \in Inner(doc), w \in Pieces(x)
          PROVE  w.fields["$ref"].str \in names \cup new
      <3>1. w = Ref(x) \/ w = Ref(LiftedName(x))
        BY <1>3, <2>2, PiecesAreJson
      <3> QED BY <1>2, <3>1, RefIsReference
    <2> QED BY <2>1, <2>2, LiftNodesKinds
  <1>4. ASSUME IsReference(Object(doc1))
        PROVE  Object(doc1).fields["$ref"].str \in names \cup new
    <2>1. Object(doc1).fields = doc1 /\ "$ref" \in DOMAIN doc1 /\ IsString(doc1["$ref"])
      BY <1>4, KindsOfJson DEF IsReference, Has
    <2>2. CASE "$ref" \in DOMAIN doc
      <3> DEFINE v == doc["$ref"]
                 e == LiftWalk(v)
      <3>1. doc1["$ref"] = e[v] /\ Lifts(e, Nodes(v)) /\ v \in Nodes(v)
        BY <1>0, <2>2, LiftWalks
      <3>2. ~ IsObject(v) /\ ~ IsArray(v)
        BY <2>1, <3>1, LiftedKindsStay
      <3>3. doc1["$ref"] = v
        BY <3>1, <3>2, LiftedScalars
      <3>4. Object(doc) \in J0 /\ IsReference(Object(doc)) /\ Object(doc).fields["$ref"] = v
        BY <2>1, <2>2, <3>3, KindsOfJson, NodesStart DEF IsReference, Has
      <3> QED BY <2>1, <3>3, <3>4 DEF Sound
    <2>3. CASE "$ref" \notin DOMAIN doc
      <3>1. PICK x \in Inner(doc) : doc1["$ref"] = OneOrArray(x)
        BY <1>0, <2>1, <2>3
      <3> QED BY <2>1, <3>1, KindsOfJson DEF OneOrArray
    <2> QED BY <2>2, <2>3
  <1> QED BY <1>1, <1>3, <1>4 DEF Sound

\* Lifting leaves the constants alone.
LEMMA LiftedPlain ==
    ASSUME NEW J, Json(J), Plain(J), NEW d, Lifts(d, J), NEW u \in J, IsObject(d[u])
    PROVE  PlainConstants(d[u].fields)
  <1>1. CASE IsObject(u) /\ IsOneOrArray(u.fields)
    <2>1. d[u].fields = Field("$ref", String(LiftedName(InnerRef(u.fields))))
      BY <1>1, LiftedPatterns, KindsOfJson DEF Ref
    <2>2. DOMAIN d[u].fields = {"$ref"}
      BY <2>1 DEF Field
    <2> QED BY <2>2 DEF PlainConstants, HasArray, Has
  <1>2. CASE IsObject(u) /\ ~ IsOneOrArray(u.fields)
    <2> DEFINE f == u.fields
               g == [k \in DOMAIN f |-> d[f[k]]]
    <2>1. d[u] = Object(g)
      BY <1>2, LiftedObjects
    <2>2. d[u].fields = g
      BY <2>1, KindsOfJson
    <2>3. PlainConstants(f) /\ \A k \in DOMAIN f : f[k] \in J
      BY <1>2, JsonParts DEF Plain
    <2> HIDE DEF f
    <2>4. DOMAIN g = DOMAIN f /\ \A k \in DOMAIN f : g[k] = d[f[k]]
      OBVIOUS
    <2> HIDE DEF g
    <2>5. Has(g, "const") => IsScalar(g["const"])
      BY <2>3, <2>4, LiftedScalars DEF PlainConstants, Has, IsScalar
    <2>6. ASSUME HasArray(g, "enum"), NEW i \in DOMAIN g["enum"].items
          PROVE  IsScalar(g["enum"].items[i])
      <3> DEFINE e == f["enum"]
                 t == [j \in DOMAIN e.items |-> d[e.items[j]]]
      <3>1. "enum" \in DOMAIN f /\ e \in J /\ g["enum"] = d[e] /\ IsArray(d[e])
        BY <2>3, <2>4, <2>6 DEF HasArray, Has
      <3>2. IsArray(e)
        BY <3>1, LiftedKindsStay, LiftedScalars DEF IsArray, IsObject
      <3>3. d[e] = Array(t) /\ e.items \in Seq(J)
        BY <3>1, <3>2, LiftedArrays, JsonParts
      <3>4. \A j \in DOMAIN e.items : IsScalar(e.items[j]) /\ e.items[j] \in J
        BY <2>3, <3>1, <3>2, <3>3 DEF PlainConstants, HasArray, Has
      <3> HIDE DEF e
      <3>5. DOMAIN t = DOMAIN e.items /\ \A j \in DOMAIN e.items : t[j] = d[e.items[j]]
        OBVIOUS
      <3> HIDE DEF t
      <3>6. g["enum"].items = t
        BY <3>1, <3>3, KindsOfJson
      <3> QED BY <2>6, <3>4, <3>5, <3>6, LiftedScalars DEF IsScalar
    <2> QED BY <2>2, <2>5, <2>6 DEF PlainConstants
  <1>3. CASE ~ IsObject(u)
    BY <1>3, LiftedKindsStay, LiftedScalars
  <1> QED BY <1>1, <1>2, <1>3

LEMMA LiftKeepsPlain ==
    ASSUME NEW doc \in Specs, Plain(Nodes(Object(doc)))
    PROVE  Plain(LiftNodes(doc) \cup {Object(LiftInlineOneOrArrayRefs(doc))})
  <1> DEFINE doc1 == LiftInlineOneOrArrayRefs(doc)
  <1>1. ASSUME NEW w \in LiftNodes(doc), IsObject(w)
        PROVE  PlainConstants(w.fields)
    <2>1. ASSUME NEW name \in DOMAIN doc, NEW u \in Nodes(doc[name]), w = LiftWalk(doc[name])[u]
          PROVE  PlainConstants(w.fields)
      <3> DEFINE J == Nodes(doc[name])
                 d == LiftWalk(doc[name])
      <3>1. Json(J) /\ Lifts(d, J) /\ Plain(J)
        BY LiftWalks DEF Plain
      <3> HIDE DEF J, d
      <3>2. u \in J /\ w = d[u]
        BY <2>1 DEF J, d
      <3> QED BY <1>1, <3>1, <3>2, LiftedPlain
    <2>2. ASSUME NEW x \in Inner(doc), w \in Pieces(x)
          PROVE  PlainConstants(w.fields)
      <3> DEFINE s == Array(<<Ref(x), Object(ArrayOf(x))>>)
      <3>1. w \in {Object(Field("anyOf", s)), Object(Field("$ref", String(x))), Object(ArrayOf(x)),
                   Object(Field("$ref", String(LiftedName(x))))}
        BY <1>1, <2>2, KindsOfJson DEF Pieces, Ref, OneOrArray
      <3>2. DOMAIN w.fields \in {{"anyOf"}, {"$ref"}, {"type", "items"}}
        <4>1. /\ DOMAIN Field("anyOf", s) = {"anyOf"} /\ DOMAIN Field("$ref", String(x)) = {"$ref"}
              /\ DOMAIN ArrayOf(x) = {"type", "items"}
              /\ DOMAIN Field("$ref", String(LiftedName(x))) = {"$ref"}
          BY DEF Field, ArrayOf
        <4> HIDE DEF s
        <4> QED BY <3>1, <4>1, KindsOfJson
      <3>3. ~ Has(w.fields, "const") /\ ~ Has(w.fields, "enum")
        BY <3>2 DEF Has
      <3> QED BY <3>3 DEF PlainConstants, HasArray
    <2> QED BY <2>1, <2>2, LiftNodesKinds
  <1>2. PlainConstants(Object(doc1).fields)
    <2>1. DOMAIN doc1 \cap RuleKeys = {} /\ Object(doc1).fields = doc1
      BY NamesAssumption, KindsOfJson
    <2> HIDE DEF doc1
    <2> QED BY <2>1 DEF PlainConstants, HasArray, Has, RuleKeys
  <1> QED BY <1>1, <1>2 DEF Plain

-----------------------------------------------------------------------------
\* The document after the required fields are relaxed

LEMMA RetainedItems ==
    ASSUME NEW S, NEW required \in Seq(S), NEW name
    PROVE  Retained(name, required) \in Seq(S)
  <1> DEFINE N == Len(required)
             step == [n \in 0..(N - 1) |-> [s \in Seq(S) |->
                         IF Drifted(name, required[n + 1]) THEN s ELSE Append(s, required[n + 1])]]
             Body(f) == [n \in 0..N |->
                            IF n = 0 THEN <<>>
                            ELSE IF Drifted(name, required[n]) THEN f[n - 1]
                            ELSE Append(f[n - 1], required[n])]
             kept == CHOOSE f : f = Body(f)
  <1>1. N \in Nat /\ <<>> \in Seq(S)
    OBVIOUS
  <1>2. \A n \in 0..(N - 1) : step[n] \in [Seq(S) -> Seq(S)]
    <2> TAKE n \in 0..(N - 1)
    <2>1. n + 1 \in 1..Len(required)
      OBVIOUS
    <2>2. required[n + 1] \in S
      BY <2>1
    <2> QED BY <2>2
  <1>3. \A n \in 0..(N - 1) : \A s \in Seq(S) :
            step[n][s] = IF Drifted(name, required[n + 1]) THEN s ELSE Append(s, required[n + 1])
    OBVIOUS
  <1> HIDE DEF N, step
  <1>4. PICK f \in [0..N -> Seq(S)] : f[0] = <<>> /\ \A n \in 0..(N - 1) : f[n + 1] = step[n][f[n]]
    <2>1. \E g \in [0..N -> Seq(S)] : Follows(g, N, <<>>, step)
      BY <1>1, <1>2, FiniteRecursion
    <2> QED BY <2>1 DEF Follows
  <1>5. \A n \in 0..N : f[n] = IF n = 0 THEN <<>>
                               ELSE IF Drifted(name, required[n]) THEN f[n - 1]
                               ELSE Append(f[n - 1], required[n])
    <2> TAKE n \in 0..N
    <2>1. CASE n = 0
      BY <1>4, <2>1
    <2>2. CASE n # 0
      <3>1. n - 1 \in 0..(N - 1) /\ (n - 1) + 1 = n /\ n - 1 \in 0..N
        BY <1>1, <2>2
      <3>2. f[n - 1] \in Seq(S) /\ f[n] = step[n - 1][f[n - 1]]
        BY <1>4, <3>1
      <3> QED BY <1>3, <2>2, <3>1, <3>2
    <2> QED BY <2>1, <2>2
  <1>6. f = Body(f)
    <2>1. f = [n \in 0..N |-> f[n]]
      OBVIOUS
    <2> QED BY <1>5, <2>1
  <1>7. kept = Body(kept)
    <2> HIDE DEF Body
    <2> QED BY <1>6
  <1>8. Retained(name, required) = kept[N]
    BY DEF Retained, N
  <1> HIDE DEF kept
  <1>9. \A n \in 0..N : kept[n] = IF n = 0 THEN <<>>
                                  ELSE IF Drifted(name, required[n]) THEN kept[n - 1]
                                  ELSE Append(kept[n - 1], required[n])
    BY <1>7
  <1> HIDE DEF Body
  <1> DEFINE Good == {n \in Nat : n <= N => kept[n] \in Seq(S)}
  <1>10. 0 \in Good
    <2>1. 0 \in 0..N
      BY <1>1
    <2>2. kept[0] = <<>>
      BY <1>9, <2>1
    <2> QED BY <1>1, <2>2
  <1>11. ASSUME NEW n \in Nat, n \in Good
         PROVE  n + 1 \in Good
    <2> SUFFICES ASSUME n + 1 <= N
                 PROVE  kept[n + 1] \in Seq(S)
      OBVIOUS
    <2>1. n + 1 \in 0..N /\ n + 1 # 0 /\ (n + 1) - 1 = n /\ n <= N /\ n + 1 \in 1..Len(required)
      BY <1>1 DEF N
    <2>2. kept[n] \in Seq(S) /\ required[n + 1] \in S
      BY <1>11, <2>1
    <2>3. kept[n + 1] = IF Drifted(name, required[n + 1]) THEN kept[n] ELSE Append(kept[n], required[n + 1])
      BY <1>9, <2>1
    <2> QED BY <2>2, <2>3
  <1>12. Nat \subseteq Good
    <2> HIDE DEF Good
    <2> QED BY <1>10, <1>11, NatSetInduction
  <1> QED BY <1>1, <1>8, <1>12

LEMMA RelaxKeepsSound ==
    ASSUME NEW M, NEW doc, NEW names, Sound(M, doc, names)
    PROVE  \E K : Sound(K, RelaxDriftedRequiredFields(doc), names) /\ (Plain(M) => Plain(K))
  <1> DEFINE doc2 == RelaxDriftedRequiredFields(doc)
             Left(name) == Array(Retained(name, doc[name].fields.required.items))
             Touched(name) == IsObject(doc[name]) /\ HasArray(doc[name].fields, "required")
             some == {name \in DOMAIN doc : Touched(name)}
             Lefts == {Left(name) : name \in some}
             News == {doc2[name] : name \in DOMAIN doc}
             K == M \cup Lefts \cup News \cup {Object(doc2)}
  <1>1. /\ Json(M) /\ Object(doc) \in M
        /\ doc = [name \in DOMAIN doc |-> doc[name]]
        /\ \A name \in DOMAIN doc : doc[name] \in M
    <2>1. Object(doc) \in M /\ IsObject(Object(doc)) /\ Object(doc).fields = doc
      BY KindsOfJson DEF Sound
    <2>2. doc \in [DOMAIN doc -> M]
      BY <2>1, JsonParts DEF Sound
    <2> QED BY <2>1, <2>2 DEF Sound
  <1>2. /\ DOMAIN doc2 = DOMAIN doc /\ doc2 = [name \in DOMAIN doc2 |-> doc2[name]]
        /\ \A name \in DOMAIN doc : ~ Touched(name) => doc2[name] = doc[name]
        /\ \A name \in some : doc2[name] = Object(With(doc[name].fields, "required", Left(name)))
    BY DEF RelaxDriftedRequiredFields
  <1> HIDE DEF doc2
  <1>3. ASSUME NEW name \in some
        PROVE  JsonIn(Left(name), M)
    <2>1. doc[name].fields.required \in M /\ IsArray(doc[name].fields.required)
      BY <1>1, JsonParts DEF HasArray, Has
    <2>2. doc[name].fields.required.items \in Seq(M)
      BY <1>1, <2>1, JsonParts
    <2>3. Retained(name, doc[name].fields.required.items) \in Seq(M)
      BY <2>2, RetainedItems
    <2> QED BY <2>3, JsonArray
  <1>4. ASSUME NEW name \in some
        PROVE  JsonIn(doc2[name], M \cup Lefts)
    <2> DEFINE f == doc[name].fields
               g == With(f, "required", Left(name))
    <2>1. f \in [DOMAIN f -> M]
      BY <1>1, JsonParts
    <2>2. Left(name) \in Lefts
      OBVIOUS
    <2> HIDE DEF f, Left, Lefts
    <2>3. g \in [DOMAIN f \cup {"required"} -> M \cup Lefts]
      BY <2>1, <2>2 DEF With
    <2>4. doc2[name] = Object(g)
      BY <1>2 DEF f
    <2> HIDE DEF g
    <2> QED BY <2>3, <2>4, JsonObject
  <1>5. ASSUME NEW name \in some, IsReference(doc2[name])
        PROVE  doc2[name].fields["$ref"].str \in names
    <2> DEFINE f == doc[name].fields
               g == With(f, "required", Left(name))
    <2>1. doc2[name].fields = g
      BY <1>2, KindsOfJson
    <2>2. "$ref" \in DOMAIN g => "$ref" \in DOMAIN f /\ g["$ref"] = f["$ref"]
      BY DEF With
    <2> HIDE DEF g
    <2>3. IsReference(doc[name]) /\ g["$ref"] = doc[name].fields["$ref"]
      BY <1>5, <2>1, <2>2 DEF IsReference, Has
    <2> QED BY <1>1, <2>1, <2>3 DEF Sound
  <1>6. \A name \in DOMAIN doc : doc2[name] \in News
    OBVIOUS
  <1>7. \A w \in News : w \in M \/ \E name \in some : w = doc2[name]
    BY <1>1, <1>2
  <1>8. \A w \in Lefts : \E name \in some : w = Left(name)
    OBVIOUS
  <1> HIDE DEF Left, Lefts, News
  <1>9. JsonIn(Object(doc2), K)
    <2>1. doc2 \in [DOMAIN doc2 -> K]
      BY <1>2, <1>6
    <2> QED BY <2>1, JsonObject
  <1>10. ASSUME NEW w \in K
         PROVE  JsonIn(w, K)
    <2>1. CASE w \in M
      <3>1. JsonIn(w, M) /\ M \subseteq K
        BY <1>1, <2>1 DEF Json
      <3> QED BY <3>1, JsonInMore
    <2>2. CASE w \in Lefts
      <3>1. JsonIn(w, M) /\ M \subseteq K
        BY <1>3, <1>8, <2>2
      <3> QED BY <3>1, JsonInMore
    <2>3. CASE w \in News \ M
      <3>1. JsonIn(w, M \cup Lefts) /\ M \cup Lefts \subseteq K
        BY <1>4, <1>7, <2>3
      <3> QED BY <3>1, JsonInMore
    <2> QED BY <1>9, <2>1, <2>2, <2>3
  <1>11. ASSUME NEW w \in K, IsReference(w)
         PROVE  w.fields["$ref"].str \in names
    <2>1. CASE w \in M
      BY <1>11, <2>1 DEF Sound
    <2>2. CASE w \in Lefts
      BY <1>8, <1>11, <2>2, KindsOfJson DEF IsReference, Left
    <2>3. CASE w \in News \ M
      BY <1>5, <1>7, <1>11, <2>3
    <2>4. CASE w = Object(doc2)
      <3>1. w.fields = doc2 /\ "$ref" \in DOMAIN doc /\ IsString(doc2["$ref"])
        BY <1>2, <1>11, <2>4, KindsOfJson DEF IsReference, Has
      <3>2. ~ IsObject(doc2["$ref"])
        BY <3>1 DEF IsString, IsObject
      <3>3. doc2["$ref"] = doc["$ref"]
        BY <1>2, <3>1, <3>2, KindsOfJson
      <3>4. IsReference(Object(doc)) /\ Object(doc).fields = doc
        BY <3>1, <3>3, KindsOfJson DEF IsReference, Has
      <3> QED BY <1>1, <3>1, <3>3, <3>4 DEF Sound
    <2> QED BY <2>1, <2>2, <2>3, <2>4
  <1>12. Sound(K, doc2, names)
    BY <1>10, <1>11 DEF Sound, Json
  <1>13. ASSUME Plain(M), NEW w \in K, IsObject(w)
         PROVE  PlainConstants(w.fields)
    <2>1. CASE w \in M
      BY <1>13, <2>1 DEF Plain
    <2>2. CASE w \in Lefts
      BY <1>8, <1>13, <2>2, KindsOfJson DEF Left
    <2>3. CASE w \in News \ M
      <3>1. PICK name \in some : w = doc2[name]
        BY <1>7, <2>3
      <3> DEFINE f == doc[name].fields
                 g == With(f, "required", Left(name))
      <3>2. w.fields = g /\ PlainConstants(f)
        BY <1>1, <1>2, <1>13, <3>1, KindsOfJson DEF Plain
      <3>3. \A k \in {"const", "enum"} :
                /\ k \in DOMAIN g => k \in DOMAIN f
                /\ k \in DOMAIN g => g[k] = f[k]
        BY DEF With
      <3> HIDE DEF f, g
      <3>4. PlainConstants(g)
        BY <3>2, <3>3 DEF PlainConstants, HasArray, Has
      <3> QED BY <3>2, <3>4
    <2>4. CASE w = Object(doc2)
      <3>1. w.fields = doc2 /\ PlainConstants(doc)
        BY <1>1, <1>13, <2>4, KindsOfJson DEF Plain
      <3>2. \A name \in DOMAIN doc : ~ IsObject(doc2[name]) => doc2[name] = doc[name]
        BY <1>2, KindsOfJson
      <3>3. Has(doc2, "const") => IsScalar(doc2["const"])
        <4>1. Has(doc2, "const") => IsScalar(doc["const"])
          BY <1>2, <3>1 DEF PlainConstants, Has
        <4>2. \A name \in DOMAIN doc : ~ IsObject(doc[name]) => doc2[name] = doc[name]
          BY <1>2
        <4> QED BY <1>2, <4>1, <4>2 DEF IsScalar, Has
      <3>4. HasArray(doc2, "enum") => HasArray(doc, "enum") /\ doc2["enum"] = doc["enum"]
        <4>1. \A v : IsArray(v) => ~ IsObject(v)
          BY DEF IsArray, IsObject
        <4> QED BY <1>2, <3>2, <4>1 DEF HasArray, Has
      <3>5. PlainConstants(doc2)
        BY <3>1, <3>3, <3>4 DEF PlainConstants
      <3> QED BY <3>1, <3>5
    <2> QED BY <2>1, <2>2, <2>3, <2>4
  <1> QED BY <1>12, <1>13 DEF doc2, Plain

-----------------------------------------------------------------------------
\* What the walk with the rules meets

\* Where x, the value that the rules leave under k in an object f, comes from.
Origin(f, k, x, M) ==
    \/ k \in DOMAIN f /\ x = f[k]
    \/ \E s \in Seq({Object(Field("type", t)) : t \in M}) : x = Array(s)
    \/ \E c \in M : x = Array(<<c>>)
    \/ k = "$ref" /\ \E r \in M : IsReference(r) /\ x = r.fields["$ref"]

LEMMA RewriteOrigins ==
    ASSUME NEW M, Json(M), NEW f, f \in [DOMAIN f -> M], NEW k \in DOMAIN RewriteObject(f)
    PROVE  Origin(f, k, RewriteObject(f)[k], M)
  <1> DEFINE g1 == ExpandNullableTypeArray(f)
             g2 == ConstToEnum(g1)
             g3 == FlattenSingletonAllOf(g2)
             g4 == StripAdditionalProperties(g3)
             g5 == DropCollisionProneEnum(g4)
             g6 == DropDriftedAudioEnum(g5)
             alts == [i \in DOMAIN f.type.items |-> Object(Field("type", f.type.items[i]))]
  <1>1. /\ Keeps(f, g1, {"type", "anyOf"})
        /\ ~ IsNullableTypeArray(f) => g1 = f
        /\ IsNullableTypeArray(f) => ~ Has(g1, "type") /\ g1.anyOf = Array(alts)
    BY ExpandKeeps
  <1>2. /\ Keeps(g1, g2, {"const", "enum"}) /\ ~ Has(g2, "const")
        /\ ~ Has(g1, "const") => g2 = g1
        /\ Has(g1, "const") => g2.enum = Array(<<g1.const>>)
    BY ConstKeeps
  <1>3. /\ Keeps(g2, g3, {"allOf", "additionalProperties", "$ref"})
        /\ ~ IsSingletonAllOf(g2) => g3 = g2
        /\ IsSingletonAllOf(g2) => /\ ~ Has(g3, "allOf") /\ ~ Has(g3, "additionalProperties")
                                   /\ g3["$ref"] = g2.allOf.items[1].fields["$ref"]
    BY FlattenKeeps
  <1>4. /\ Drops(g3, g4, {"additionalProperties"})
        /\ Drops(g4, g5, {"enum"}) /\ Drops(g5, g6, {"enum"})
    BY StripDrops, CollisionDrops, AudioDrops
  <1>5. RewriteObject(f) = g6
    BY DEF RewriteObject
  <1> HIDE DEF g1, g2, g3, g4, g5, g6
  <1>6. IsNullableTypeArray(f) => alts \in Seq({Object(Field("type", t)) : t \in M})
    <2> SUFFICES ASSUME IsNullableTypeArray(f)
                 PROVE  alts \in Seq({Object(Field("type", t)) : t \in M})
      OBVIOUS
    <2> DEFINE s == f.type.items
    <2>1. f.type \in M /\ IsArray(f.type)
      BY DEF IsNullableTypeArray, HasArray, Has
    <2>2. s \in Seq(M)
      BY <2>1, JsonParts
    <2>3. DOMAIN s = 1..Len(s) /\ Len(s) \in Nat /\ \A i \in DOMAIN s : s[i] \in M
      BY <2>2
    <2> HIDE DEF s
    <2>4. [i \in DOMAIN s |-> Object(Field("type", s[i]))]
              \in [1..Len(s) -> {Object(Field("type", t)) : t \in M}]
      BY <2>3
    <2>5. [i \in DOMAIN s |-> Object(Field("type", s[i]))] \in Seq({Object(Field("type", t)) : t \in M})
      BY <2>3, <2>4
    <2> QED BY <2>5 DEF s
  <1> HIDE DEF alts
  <1>7. \A n \in DOMAIN g1 : Origin(f, n, g1[n], M)
    BY <1>1, <1>6 DEF Keeps, Has, Origin
  <1>8. \A n \in DOMAIN g2 : Origin(f, n, g2[n], M)
    <2>1. Has(g1, "const") => g1.const \in M
      BY <1>1 DEF Keeps, Has
    <2> QED BY <1>2, <1>7, <2>1 DEF Keeps, Has, Origin
  <1>9. IsSingletonAllOf(g2) =>
            \E r \in M : IsReference(r) /\ g2.allOf.items[1].fields["$ref"] = r.fields["$ref"]
    <2> SUFFICES ASSUME IsSingletonAllOf(g2)
                 PROVE  \E r \in M : /\ IsReference(r)
                                     /\ g2.allOf.items[1].fields["$ref"] = r.fields["$ref"]
      OBVIOUS
    <2>1. /\ "allOf" \in DOMAIN g2 /\ IsArray(g2.allOf)
          /\ Len(g2.allOf.items) = 1 /\ IsPlainRef(g2.allOf.items[1])
      BY DEF IsSingletonAllOf, HasArray, Has
    <2>2. "allOf" \in DOMAIN f /\ g2.allOf = f.allOf
      BY <1>1, <1>2, <2>1 DEF Keeps
    <2>3. f.allOf \in M
      BY <2>2
    <2>4. f.allOf.items \in Seq(M)
      BY <2>1, <2>2, <2>3, JsonParts
    <2>5. f.allOf.items[1] \in M
      BY <2>1, <2>2, <2>4
    <2>6. IsReference(f.allOf.items[1])
      BY <2>1, <2>2 DEF IsPlainRef, IsReference, Has
    <2> QED BY <2>2, <2>5, <2>6
  <1>10. \A n \in DOMAIN g3 : Origin(f, n, g3[n], M)
    <2> TAKE n \in DOMAIN g3
    <2>1. CASE ~ IsSingletonAllOf(g2)
      BY <1>3, <1>8, <2>1
    <2>2. CASE IsSingletonAllOf(g2) /\ n = "$ref"
      BY <1>3, <1>9, <2>2 DEF Origin
    <2>3. CASE IsSingletonAllOf(g2) /\ n # "$ref"
      <3>1. n \in DOMAIN g2 /\ g3[n] = g2[n]
        BY <1>3, <2>3 DEF Keeps, Has
      <3> QED BY <1>8, <3>1
    <2> QED BY <2>1, <2>2, <2>3
  <1>11. k \in DOMAIN g3 /\ g6[k] = g3[k]
    BY <1>4, <1>5 DEF Drops
  <1> QED BY <1>5, <1>10, <1>11

\* M with all that the rules can make of it.
TypeObjects(M) == {Object(Field("type", t)) : t \in M}
Grown(M) == M \cup TypeObjects(M) \cup {Array(s) : s \in Seq(M \cup TypeObjects(M))}

LEMMA GrownObjects ==
    ASSUME NEW M, Json(M), NEW v \in Grown(M), IsObject(v)
    PROVE  /\ v.fields \in [DOMAIN v.fields -> M]
           /\ IsReference(v) => v \in M
  <1>1. CASE v \in M
    BY <1>1, JsonParts
  <1>2. CASE v \in TypeObjects(M)
    <2>1. PICK t \in M : v = Object(Field("type", t))
      BY <1>2 DEF TypeObjects
    <2>2. Field("type", t) \in [{"type"} -> M] /\ DOMAIN Field("type", t) = {"type"}
      BY DEF Field
    <2>3. v.fields = Field("type", t)
      BY <2>1, KindsOfJson
    <2> QED BY <2>2, <2>3 DEF IsReference, Has
  <1>3. CASE \E s : v = Array(s)
    BY <1>3, KindsOfJson
  <1> QED BY <1>1, <1>2, <1>3 DEF Grown

LEMMA GrownIsClosed ==
    ASSUME NEW M, Json(M)
    PROVE  Documents(Grown(M))
  <1> DEFINE T == TypeObjects(M)
             G == Grown(M)
  <1>0. M \subseteq G /\ T \subseteq G /\ \A s \in Seq(M \cup T) : Array(s) \in G
    BY DEF Grown
  <1>1. ASSUME NEW v \in G
        PROVE  JsonIn(v, G)
    <2>1. CASE v \in M
      <3>1. JsonIn(v, M) /\ M \subseteq G
        BY <2>1 DEF Json, Grown
      <3> QED BY <3>1, JsonInMore
    <2>2. CASE v \in T
      <3>1. PICK t \in M : v = Object(Field("type", t))
        BY <2>2 DEF TypeObjects
      <3>2. Field("type", t) \in [{"type"} -> M]
        BY DEF Field
      <3>3. JsonIn(v, M) /\ M \subseteq G
        BY <3>1, <3>2, JsonObject DEF Grown
      <3> QED BY <3>3, JsonInMore
    <2>3. CASE \E s \in Seq(M \cup T) : v = Array(s)
      <3>1. JsonIn(v, M \cup T)
        BY <2>3, JsonArray
      <3>2. M \cup T \subseteq G
        BY DEF Grown
      <3> QED BY <3>1, <3>2, JsonInMore
    <2> QED BY <2>1, <2>2, <2>3 DEF Grown
  <1>2. ASSUME NEW v \in G, IsObject(v), NEW k \in DOMAIN RewriteObject(v.fields)
        PROVE  RewriteObject(v.fields)[k] \in G
    <2> DEFINE f == v.fields
               x == RewriteObject(f)[k]
    <2>1. f \in [DOMAIN f -> M]
      BY <1>2, GrownObjects
    <2>2. Origin(f, k, x, M)
      BY <2>1, RewriteOrigins
    <2> HIDE DEF f, x, G
    <2>3. x \in G
      <3>1. CASE k \in DOMAIN f /\ x = f[k]
        BY <1>0, <2>1, <3>1
      <3>2. CASE \E s \in Seq(T) : x = Array(s)
        <4> HIDE DEF T
        <4>1. Seq(T) \subseteq Seq(M \cup T)
          OBVIOUS
        <4> QED BY <1>0, <3>2, <4>1
      <3>3. CASE \E c \in M : x = Array(<<c>>)
        <4> HIDE DEF T
        <4>1. PICK c \in M : x = Array(<<c>>)
          BY <3>3
        <4>2. <<c>> \in Seq(M \cup T)
          OBVIOUS
        <4> QED BY <1>0, <4>1, <4>2
      <3>4. CASE \E r \in M : IsReference(r) /\ x = r.fields["$ref"]
        <4>1. PICK r \in M : IsReference(r) /\ x = r.fields["$ref"]
          BY <3>4
        <4>2. r.fields \in [DOMAIN r.fields -> M] /\ "$ref" \in DOMAIN r.fields
          BY <4>1, JsonParts DEF IsReference, Has
        <4>3. x \in M
          BY <4>1, <4>2
        <4> QED BY <1>0, <4>3
      <3> QED BY <2>2, <3>1, <3>2, <3>3, <3>4 DEF Origin, TypeObjects
    <2> QED BY <2>3 DEF x, f
  <1> HIDE DEF G
  <1>3. Documents(G)
    BY <1>1, <1>2 DEF Documents, Json
  <1> QED BY <1>3 DEF G

\* The walk with the rules stays in what can be made of the document.
LEMMA RewriteNodesAreDocuments ==
    ASSUME NEW M, NEW doc, NEW names, Sound(M, doc, names), ShallowRewrite(doc)
    PROVE  LET J == RewriteNodes(Object(doc))
           IN  J \subseteq Grown(M) /\ Documents(J) /\ Object(doc) \in J
  <1> DEFINE v == Object(doc)
             J == RewriteNodes(v)
             G == Grown(M)
  <1>1. Json(M) /\ v \in M
    BY DEF Sound
  <1>2. Documents(G) /\ v \in G
    BY <1>1, GrownIsClosed DEF Grown
  <1>3. ASSUME NEW u \in G
        PROVE  RewriteParts(u) \subseteq G
    <2>1. Parts(u) \subseteq G
      BY <1>2, JsonInParts DEF Documents, Json
    <2>2. ASSUME IsObject(u)
          PROVE  Parts(Object(RewriteObject(u.fields))) \subseteq G
      <3> DEFINE g == RewriteObject(u.fields)
      <3>1. \A k \in DOMAIN g : g[k] \in G
        BY <1>2, <2>2 DEF Documents
      <3> HIDE DEF g, G
      <3>2. Parts(Object(g)) = {g[k] : k \in DOMAIN g}
        BY KindsOfJson DEF Parts
      <3>3. Parts(Object(g)) \subseteq G
        BY <3>1, <3>2
      <3> QED BY <3>3 DEF g
    <2> QED BY <2>1, <2>2 DEF RewriteParts
  <1> HIDE DEF G
  <1>4. J \subseteq G
    BY <1>2, <1>3, RewriteNodesLeast
  <1>5. v \in J /\ \A u \in J : RewriteParts(u) \subseteq J
    BY RewriteNodesStart, RewriteNodesClosed DEF ShallowRewrite
  <1> HIDE DEF v, J
  <1>6. Json(J)
    <2>1. \A u \in J : Parts(u) \subseteq J
      BY <1>5 DEF RewriteParts
    <2> QED BY <1>2, <1>4, <2>1, JsonSub DEF Documents
  <1>7. ASSUME NEW u \in J, IsObject(u), NEW k \in DOMAIN RewriteObject(u.fields)
        PROVE  RewriteObject(u.fields)[k] \in J
    <2> DEFINE g == RewriteObject(u.fields)
    <2>1. Parts(Object(g)) \subseteq J
      BY <1>5, <1>7 DEF RewriteParts
    <2> HIDE DEF g
    <2>2. \A n \in DOMAIN g : g[n] \in Parts(Object(g))
      BY PartsOf, KindsOfJson
    <2> QED BY <1>7, <2>1, <2>2 DEF g
  <1>8. Documents(J)
    BY <1>6, <1>7 DEF Documents
  <1> QED BY <1>4, <1>5, <1>8 DEF v, J, G

LEMMA ReferencesDescend ==
    ASSUME NEW M, NEW doc, NEW names, Sound(M, doc, names),
           NEW J, J \subseteq Grown(M), Documents(J), NEW D, Descends(D, J),
           NEW u \in J, IsReference(D[u])
    PROVE  D[u].fields["$ref"].str \in names
  <1> DEFINE f == RewriteObject(u.fields)
             g == [k \in DOMAIN f |-> D[f[k]]]
             r == f["$ref"]
  <1>1. Json(M)
    BY DEF Sound
  <1>2. IsObject(u)
    BY KindsStay DEF IsReference
  <1>3. D[u] = Object(g)
    BY <1>2, ObjectsDescend
  <1>4. D[u].fields = g
    BY <1>3, KindsOfJson
  <1>5. "$ref" \in DOMAIN f /\ g["$ref"] = D[r] /\ IsString(D[r])
    BY <1>4 DEF IsReference, Has
  <1>6. r \in J
    BY <1>2, <1>5 DEF Documents
  <1>7. IsString(r) /\ D[r] = r
    BY <1>5, <1>6, KindsStay
  <1>8. u.fields \in [DOMAIN u.fields -> M] /\ (IsReference(u) => u \in M)
    BY <1>1, <1>2, GrownObjects
  <1>9. Origin(u.fields, "$ref", r, M)
    BY <1>1, <1>5, <1>8, RewriteOrigins
  <1> HIDE DEF f, g, r
  <1>10. r.str \in names
    <2>1. CASE "$ref" \in DOMAIN u.fields /\ r = u.fields["$ref"]
      <3>1. IsReference(u)
        BY <1>2, <1>7, <2>1 DEF IsReference, Has
      <3> QED BY <1>8, <2>1, <3>1 DEF Sound
    <2>2. CASE \E s : r = Array(s)
      BY <1>7, <2>2, KindsOfJson
    <2>3. CASE \E w \in M : IsReference(w) /\ r = w.fields["$ref"]
      BY <2>3 DEF Sound
    <2> QED BY <1>9, <2>1, <2>2, <2>3 DEF Origin
  <1> QED BY <1>4, <1>5, <1>7, <1>10

\* The rules leave a map alone that has none of the keys they look for.
LEMMA RulesNeedKeys ==
    ASSUME NEW f, DOMAIN f \cap RuleKeys = {}
    PROVE  RewriteObject(f) = f
  <1>1. ~ Has(f, "type") /\ ~ Has(f, "const") /\ ~ Has(f, "allOf")
        /\ ~ Has(f, "additionalProperties") /\ ~ Has(f, "enum")
    BY DEF RuleKeys, Has
  <1>2. /\ ExpandNullableTypeArray(f) = f /\ ConstToEnum(f) = f /\ FlattenSingletonAllOf(f) = f
        /\ StripAdditionalProperties(f) = f /\ DropCollisionProneEnum(f) = f
        /\ DropDriftedAudioEnum(f) = f
    BY <1>1 DEF ExpandNullableTypeArray, IsNullableTypeArray, ConstToEnum, FlattenSingletonAllOf,
                IsSingletonAllOf, StripAdditionalProperties, DropCollisionProneEnum,
                DropDriftedAudioEnum, HasArray
  <1> QED BY <1>2 DEF RewriteObject

\* The document at the end, by the function of the walk.
LEMMA Preprocessed ==
    ASSUME NEW M, NEW doc, NEW names, Sound(M, doc, names), ShallowRewrite(doc)
    PROVE  LET J    == RewriteNodes(Object(doc))
               doc3 == Descend(Object(doc)).fields
           IN  \E D : /\ Documents(J) /\ Descends(D, J)
                      /\ \A u \in Nodes(Object(doc3)) : \E w \in J : u = D[w]
                      /\ \A w \in J : IsReference(D[w]) => D[w].fields["$ref"].str \in names
                      /\ DOMAIN doc \cap RuleKeys = {} => DOMAIN doc3 = DOMAIN doc
  <1> DEFINE v == Object(doc)
             J == RewriteNodes(v)
             doc3 == Descend(v).fields
             f == RewriteObject(doc)
  <1>1. J \subseteq Grown(M) /\ Documents(J) /\ v \in J
    BY RewriteNodesAreDocuments
  <1>2. PICK D : Descends(D, J) /\ Descend(v) = D[v]
    BY DescendsThere DEF ShallowRewrite
  <1> DEFINE g == [k \in DOMAIN f |-> D[f[k]]]
  <1>3. IsObject(v) /\ v.fields = doc
    BY KindsOfJson
  <1>4. D[v] = Object(g)
    BY <1>1, <1>2, <1>3, ObjectsDescend
  <1>5. DOMAIN g = DOMAIN f
    OBVIOUS
  <1> HIDE DEF g, f, v, J
  <1>6. doc3 = g /\ Object(doc3) = D[v]
    BY <1>2, <1>4, KindsOfJson
  <1> HIDE DEF doc3
  <1>7. \A u \in Nodes(Object(doc3)) : \E w \in J : u = D[w]
    <2> DEFINE K == {D[w] : w \in J}
    <2>1. \A u \in K : Parts(u) \subseteq K
      BY <1>1, <1>2, PartsDescend
    <2>2. Object(doc3) \in K
      BY <1>1, <1>6
    <2>3. Nodes(Object(doc3)) \subseteq K
      <3> HIDE DEF K
      <3> QED BY <2>1, <2>2, NodesLeast
    <2> QED BY <2>3
  <1>8. \A w \in J : IsReference(D[w]) => D[w].fields["$ref"].str \in names
    BY <1>1, <1>2, ReferencesDescend
  <1>9. DOMAIN doc \cap RuleKeys = {} => DOMAIN doc3 = DOMAIN doc
    BY <1>5, <1>6, RulesNeedKeys DEF f
  <1> QED BY <1>1, <1>2, <1>7, <1>8, <1>9 DEF v, J, doc3

-----------------------------------------------------------------------------
\* The state: what is left of the document is given by the passes so far.

Relaxed(doc) == RelaxDriftedRequiredFields(LiftInlineOneOrArrayRefs(doc))

IInv ==
    /\ original \in Specs
    /\ stage \in {"raw", "lifted", "relaxed", "done"}
    /\ stage = "raw" => schemas = original
    /\ stage = "lifted" => schemas = LiftInlineOneOrArrayRefs(original)
    /\ stage = "relaxed" => schemas = Relaxed(original)
    /\ stage = "done" => /\ ShallowRewrite(Relaxed(original))
                         /\ schemas = Descend(Object(Relaxed(original))).fields

LEMMA Passes == Spec => []IInv
  <1>1. Init => IInv
    BY DEF Init, IInv
  <1>2. IInv /\ [Next]_vars => IInv'
    <2> SUFFICES ASSUME IInv, [Next]_vars
                 PROVE  IInv'
      OBVIOUS
    <2>1. CASE Lift
      BY <2>1 DEF IInv, Lift
    <2>2. CASE Relax
      BY <2>2 DEF IInv, Relax, Relaxed
    <2>3. CASE Preprocess
      BY <2>3 DEF IInv, Preprocess
    <2>4. CASE UNCHANGED vars
      BY <2>4 DEF IInv, vars
    <2> QED BY <2>1, <2>2, <2>3, <2>4 DEF Next
  <1> QED BY <1>1, <1>2, PTL DEF Spec

LEMMA SpecIsSound ==
    ASSUME NEW doc \in Specs, NEW names, References(doc) \subseteq names
    PROVE  Sound(Nodes(Object(doc)), doc, names)
  <1>1. Json(Nodes(Object(doc))) /\ Object(doc) \in Nodes(Object(doc))
    BY SpecsAssumption, NodesStart
  <1> QED BY <1>1 DEF Sound, References

LEMMA RelaxedIsSound ==
    ASSUME NEW doc \in Specs, NEW names, References(doc) \subseteq names
    PROVE  \E M : /\ Sound(M, Relaxed(doc), names \cup DOMAIN LiftedSchemas(doc))
                  /\ Plain(Nodes(Object(doc))) => Plain(M)
BY SpecIsSound, LiftKeepsSound, LiftKeepsPlain, RelaxKeepsSound DEF Relaxed

\* TypifyReady, for every document: a value at the end is what the walk makes of
\* one it met, none of these has one of the three excluded shapes, and
\* ObjectSettles has the rest.
THEOREM TypifyReadyHolds == Spec => []TypifyReady
  <1>1. IInv => TypifyReady
    <2> SUFFICES ASSUME IInv, stage = "done", WithinReach(Object(Relaxed(original))),
                        NEW u \in Nodes(Object(schemas)), IsObject(u)
                 PROVE  ~ Indigestible(u.fields)
      BY DEF TypifyReady, Relaxed
    <2> DEFINE doc == Relaxed(original)
               J   == RewriteNodes(Object(doc))
    <2>1. original \in Specs /\ ShallowRewrite(doc) /\ schemas = Descend(Object(doc)).fields
      BY DEF IInv
    <2>2. PICK M : Sound(M, doc, References(original) \cup DOMAIN LiftedSchemas(original))
      BY <2>1, RelaxedIsSound
    <2> HIDE DEF doc
    <2>3. PICK D : /\ Documents(J) /\ Descends(D, J)
                   /\ \A z \in Nodes(Object(schemas)) : \E w \in J : z = D[w]
      BY <2>1, <2>2, Preprocessed
    <2>4. PICK w \in J : u = D[w]
      BY <2>3
    <2>5. IsObject(w)
      BY <2>3, <2>4, KindsStay
    <2>6. ~ OutOfReach(w.fields)
      BY <2>4, <2>5 DEF WithinReach, doc
    <2> QED BY <2>3, <2>4, <2>5, <2>6, ObjectSettles
  <1> QED BY <1>1, Passes, PTL

\* RefsResolve, for every document: lifting refers to the schemas that it adds and
\* leaves the others alone, and the rules only move a reference that was there.
THEOREM RefsResolveHolds == Spec => []RefsResolve
  <1>1. IInv => RefsResolve
    <2> SUFFICES ASSUME IInv, References(original) \subseteq DOMAIN original
                 PROVE  References(schemas) \subseteq DOMAIN schemas
      BY DEF RefsResolve
    <2> DEFINE names == DOMAIN original \cup DOMAIN LiftedSchemas(original)
               doc1  == LiftInlineOneOrArrayRefs(original)
               doc2  == Relaxed(original)
    <2>1. original \in Specs
      BY DEF IInv
    <2>2. DOMAIN doc1 = names /\ DOMAIN doc2 = names
      BY DEF LiftInlineOneOrArrayRefs, Relaxed, RelaxDriftedRequiredFields
    <2>3. \E M : Sound(M, doc1, names)
      BY <2>1, SpecIsSound, LiftKeepsSound
    <2>4. \E M : Sound(M, doc2, names)
      BY <2>1, RelaxedIsSound
    <2>5. DOMAIN doc2 \cap RuleKeys = {}
      BY <2>1, <2>2, NamesAssumption
    <2> HIDE DEF doc1, doc2, names
    <2>6. ASSUME NEW M, NEW doc, Sound(M, doc, names)
          PROVE  References(doc) \subseteq names
      <3>1. \A u \in M : Parts(u) \subseteq M
        BY <2>6, JsonInParts DEF Sound, Json
      <3>2. Nodes(Object(doc)) \subseteq M
        BY <2>6, <3>1, NodesLeast DEF Sound
      <3> QED BY <2>6, <3>2 DEF References, Sound
    <2>7. CASE stage = "raw"
      BY <2>7 DEF IInv
    <2>8. CASE stage = "lifted"
      BY <2>2, <2>3, <2>6, <2>8 DEF IInv, doc1
    <2>9. CASE stage = "relaxed"
      BY <2>2, <2>4, <2>6, <2>9 DEF IInv, doc2
    <2>10. CASE stage = "done"
      <3>1. ShallowRewrite(doc2) /\ schemas = Descend(Object(doc2)).fields
        BY <2>10 DEF IInv, doc2
      <3>2. PICK M : Sound(M, doc2, names)
        BY <2>4
      <3>3. PICK D : /\ \A u \in Nodes(Object(schemas)) : \E w \in RewriteNodes(Object(doc2)) : u = D[w]
                     /\ \A w \in RewriteNodes(Object(doc2)) :
                            IsReference(D[w]) => D[w].fields["$ref"].str \in names
                     /\ DOMAIN doc2 \cap RuleKeys = {} => DOMAIN schemas = DOMAIN doc2
        BY <3>1, <3>2, Preprocessed
      <3> QED BY <2>2, <2>5, <3>3 DEF References
    <2> QED BY <2>7, <2>8, <2>9, <2>10 DEF IInv
  <1> QED BY <1>1, Passes, PTL

=============================================================================
