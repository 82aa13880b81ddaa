---------------------------- MODULE SpecMeaning ----------------------------
(***************************************************************************)
(* What the passes of SpecRewrite do to the meaning of a schema, which is  *)
(* the set of the JSON values that it accepts.                             *)
(***************************************************************************)
EXTENDS SpecRewrite

CONSTANTS Instances,  \* JSON values for which the meaning of a schema is compared
          Steps       \* how many steps into subschemas and along references are compared

ASSUME InstancesAssumption == Json(Instances)

ASSUME StepsAssumption == Steps \in Nat

\* Names that differ do so with the ending, too.
ASSUME EndingAssumption ==
    \A doc \in Specs : \A x, y \in Inner(doc) : LiftedName(x) = LiftedName(y) => x = y

\* The constants of a schema are scalars, and nothing else is called `const`:
\* the rules apply to every object, whether it is a schema or not.
ASSUME ConstantsAssumption ==
    \A doc \in Specs : \A u \in Nodes(Object(doc)) :
        IsObject(u) =>
            /\ Has(u.fields, "const") => IsScalar(u.fields.const)
            /\ HasArray(u.fields, "enum") =>
                   \A i \in DOMAIN u.fields.enum.items : IsScalar(u.fields.enum.items[i])

-----------------------------------------------------------------------------
\* The meaning of a schema

TypeOf(x) ==
    CASE IsObject(x) -> "object" [] IsArray(x) -> "array" [] IsString(x) -> "string"
      [] x = Null -> "null" [] OTHER -> "other"

IsStrings(v) == IsArray(v) /\ \A i \in DOMAIN v.items : IsString(v.items[i])

\* The keywords have values of the kinds that JSON Schema gives them.
IsSchema(v) ==
    /\ IsObject(v)
    /\ LET f == v.fields
       IN  /\ Has(f, "type") => IsString(f.type) \/ IsStrings(f.type)
           /\ Has(f, "$ref") => IsString(f["$ref"])
           /\ \A key \in Combinators \cup {"enum"} : Has(f, key) => IsArray(f[key])
           /\ Has(f, "minItems") => DOMAIN f.minItems = {"num"}
           /\ Has(f, "required") => IsStrings(f.required)
           /\ Has(f, "properties") =>
                  /\ IsObject(f.properties)
                  /\ \A p \in DOMAIN f.properties.fields : IsObject(f.properties.fields[p])

\* What the object f of a schema says of the JSON value x, where Sub says what
\* its subschemas accept and Named what the schemas it refers to do.  The
\* generated type of a oneOf is an untagged enum, so that oneOf means what anyOf
\* does.
Says(f, x, Sub(_, _), Named(_, _)) ==
    LET Some(key)   == \E i \in DOMAIN f[key].items : Sub(f[key].items[i], x)
        Declared(p) == Has(f, "properties") /\ Has(f.properties.fields, p)
    IN  /\ Has(f, "type") =>
               IF IsArray(f.type) THEN InArray(String(TypeOf(x)), f, "type")
               ELSE f.type = String(TypeOf(x))
        /\ Has(f, "const") => x = f.const
        /\ Has(f, "enum") => InArray(x, f, "enum")
        /\ Has(f, "$ref") => Named(f["$ref"].str, x)
        /\ Has(f, "anyOf") => Some("anyOf")
        /\ Has(f, "oneOf") => Some("oneOf")
        /\ Has(f, "allOf") => \A i \in DOMAIN f.allOf.items : Sub(f.allOf.items[i], x)
        /\ (IsArray(x) /\ Has(f, "minItems")) => Len(x.items) >= f.minItems.num
        /\ (IsArray(x) /\ Has(f, "items")) =>
               \A i \in DOMAIN x.items : Sub(f.items, x.items[i])
        /\ IsObject(x) =>
               \A p \in DOMAIN x.fields :
                   IF Declared(p) THEN Sub(f.properties.fields[p], x.fields[p])
                   ELSE Has(f, "additionalProperties") =>
                            /\ f.additionalProperties # False
                            /\ IsObject(f.additionalProperties) =>
                                   Sub(f.additionalProperties, x.fields[p])
        /\ (IsObject(x) /\ Has(f, "required")) =>
               \A i \in DOMAIN f.required.items : Has(x.fields, f.required.items[i].str)

\* Accepts(doc)[n] says which values the schemas of a document accept in n steps:
\* a schema refers to others, and to itself, and the meaning is what is accepted
\* in some number of steps.
Accepts(doc) ==
    LET pairs == Nodes(Object(doc)) \X Instances
        accepts[n \in Nat] ==
            [p \in pairs |->
                LET Sub(schema, y) ==
                        n > 0 /\ <<schema, y>> \in pairs /\ accepts[n - 1][<<schema, y>>]
                    Named(name, y) == name \in DOMAIN doc /\ Sub(doc[name], y)
                IN  IsSchema(p[1]) /\ Says(p[1].fields, p[2], Sub, Named)]
    IN  accepts

Means(doc, name, n) == LET accepts == Accepts(doc) IN {x \in Instances : accepts[n][<<doc[name], x>>]}

-----------------------------------------------------------------------------
\* A document that defines a schema where lifting would put one, or refers to it.
DefinesLifted  == DOMAIN LiftedSchemas(original) \cap DOMAIN original # {}
RefersToLifted == DOMAIN LiftedSchemas(original) \cap References(original) # {}

\* Lifting keeps the meaning of every schema: a variant of the pattern with
\* constraints of its own is left alone.  A pattern that is lifted takes one step
\* more.
LiftExact ==
    (stage = "lifted" /\ ~ DefinesLifted /\ ~ RefersToLifted) =>
        \A name \in DOMAIN original :
            /\ Means(original, name, Steps) \subseteq Means(schemas, name, 2 * Steps)
            /\ Means(schemas, name, Steps) \subseteq Means(original, name, Steps)

\* No pass makes a schema stricter: what the server may send according to the
\* document, the generated types accept.  An alternative in place of a type array
\* takes one step more.
OnlyRelaxed ==
    ~ DefinesLifted =>
        \A name \in DOMAIN original :
            Means(original, name, Steps) \subseteq Means(schemas, name, 2 * Steps + 1)

\* "We only insert; never overwrite, so a spec that already happens to define
\* `viewerIdOrArray` wins": such a schema keeps its meaning.
ExistingSchemaWins ==
    \A name \in DOMAIN LiftedSchemas(original) \cap DOMAIN original :
        Means(original, name, Steps) \subseteq Means(schemas, name, 2 * Steps + 1)
=============================================================================
