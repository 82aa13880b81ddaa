---------------------------- MODULE SpecRewrite ----------------------------
(***************************************************************************)
(* The passes over the OpenAPI document before code generation             *)
(* (src/crates/ferro-protect/build_support/spec_rewrite.rs): the document  *)
(* is a JSON tree, of which the generator takes components.schemas.  What  *)
(* is done to one object is in SpecRules.                                  *)
(*                                                                         *)
(* A walk over a tree is a function on the values that it meets, and these *)
(* are collected level by level, Depth levels down.                        *)
(***************************************************************************)
EXTENDS SpecRules

CONSTANTS Specs,  \* the documents: components.schemas as a function of names
          Depth   \* how deep a document may nest

ASSUME DepthAssumption == Depth \in Nat

VARIABLES original,  \* the document as it was published
          schemas,   \* the document so far
          stage      \* the last pass that is over

vars == <<original, schemas, stage>>

Init ==
    /\ original \in Specs
    /\ schemas = original
    /\ stage = "raw"

-----------------------------------------------------------------------------
\* Levels(v)[n] is what a walk meets n steps below v.
Levels(v) ==
    LET level[n \in 0..Depth] ==
            IF n = 0 THEN {v} ELSE UNION {Parts(u) : u \in level[n - 1]}
    IN  level

Nodes(v) == LET level == Levels(v) IN UNION {level[n] : n \in 0..Depth}

\* The same for a walk that applies the rules on its way down.
RewriteLevels(v) ==
    LET level[n \in 0..Depth] ==
            IF n = 0 THEN {v} ELSE UNION {RewriteParts(u) : u \in level[n - 1]}
    IN  level

RewriteNodes(v) == LET level == RewriteLevels(v) IN UNION {level[n] : n \in 0..Depth}

\* The documents are JSON, and nest less deep than the bound.
ASSUME SpecsAssumption ==
    \A doc \in Specs : Levels(Object(doc))[Depth] = {} /\ Json(Nodes(Object(doc)))

-----------------------------------------------------------------------------
\* lift_inline_one_or_array_refs

LiftedName(name) == name \o "OrArray"

\* The tree after lift_descend, and the names it has synthesised schemas for.
LiftDescend(v) ==
    LET lifted[u \in Nodes(v)] ==
            CASE IsObject(u) ->
                     IF IsOneOrArray(u.fields) THEN Ref(LiftedName(InnerRef(u.fields)))
                     ELSE Object([k \in DOMAIN u.fields |-> lifted[u.fields[k]]])
              [] IsArray(u) -> Array([i \in DOMAIN u.items |-> lifted[u.items[i]]])
              [] OTHER -> u
    IN  lifted[v]

Synthesised(v) ==
    {InnerRef(u.fields) : u \in {w \in Nodes(v) : IsObject(w) /\ IsOneOrArray(w.fields)}}

\* All names for which a schema is synthesised.
Inner(doc) == UNION {Synthesised(doc[name]) : name \in DOMAIN doc}

LiftedSchemas(doc) ==
    [lifted \in {LiftedName(name) : name \in Inner(doc)} |->
        OneOrArray(CHOOSE name \in Inner(doc) : LiftedName(name) = lifted)]

\* Mutant of LiftInlineOneOrArrayRefs: what was synthesised is not added.
LiftInlineOnly(doc) == [name \in DOMAIN doc |-> LiftDescend(doc[name])]

\* A schema of the document wins over a synthesised one of the same name.
LiftInlineOneOrArrayRefs(doc) ==
    LET lifted == LiftedSchemas(doc)
    IN  [name \in DOMAIN doc \cup DOMAIN lifted |->
            IF name \in DOMAIN doc THEN LiftDescend(doc[name]) ELSE lifted[name]]

\* The keys by which the rules know an object that they change.  No schema has
\* such a name: the rules would take the map of the schemas for a schema.
RuleKeys == {"type", "const", "allOf", "additionalProperties", "enum"}

ASSUME NamesAssumption ==
    \A doc \in Specs : DOMAIN LiftInlineOneOrArrayRefs(doc) \cap RuleKeys = {}

-----------------------------------------------------------------------------
\* relax_drifted_required_fields

DriftedRequiredFields == {<<"camera", "lcdMessage">>}

Drifted(name, property) ==
    IsString(property) /\ <<name, property.str>> \in DriftedRequiredFields

\* Vec::retain
Retained(name, required) ==
    LET kept[n \in 0..Len(required)] ==
            IF n = 0 THEN <<>>
            ELSE IF Drifted(name, required[n]) THEN kept[n - 1]
            ELSE Append(kept[n - 1], required[n])
    IN  kept[Len(required)]

RelaxDriftedRequiredFields(doc) ==
    [name \in DOMAIN doc |->
        IF IsObject(doc[name]) /\ HasArray(doc[name].fields, "required")
        THEN Object(With(doc[name].fields, "required",
                         Array(Retained(name, doc[name].fields.required.items))))
        ELSE doc[name]]

-----------------------------------------------------------------------------
\* preprocess_for_typify

\* Every object of the tree, whether it is a schema or not.
Descend(v) ==
    LET rewritten[u \in RewriteNodes(v)] == LET Sub(w) == rewritten[w] IN DescendInto(u, Sub)
    IN  rewritten[v]

-----------------------------------------------------------------------------
\* rewrite

\* The walk with the rules ends within the bound.
ShallowRewrite(doc) == RewriteLevels(Object(doc))[Depth] = {}

Lift ==
    /\ stage = "raw"
    /\ stage' = "lifted"
    /\ schemas' = LiftInlineOneOrArrayRefs(schemas)
    /\ UNCHANGED original

Relax ==
    /\ stage = "lifted"
    /\ stage' = "relaxed"
    /\ schemas' = RelaxDriftedRequiredFields(schemas)
    /\ UNCHANGED original

Preprocess ==
    /\ stage = "relaxed"
    /\ ShallowRewrite(schemas)
    /\ stage' = "done"
    /\ schemas' = Descend(Object(schemas)).fields
    /\ UNCHANGED original

Next == Lift \/ Relax \/ Preprocess

Spec == Init /\ [][Next]_vars

-----------------------------------------------------------------------------
IsReference(v) == IsObject(v) /\ Has(v.fields, "$ref") /\ IsString(v.fields["$ref"])

References(doc) == {u.fields["$ref"].str : u \in {w \in Nodes(Object(doc)) : IsReference(w)}}

\* A reference that a pass writes finds its schema, and so does one that was
\* there, if it did.
RefsResolve ==
    References(original) \subseteq DOMAIN original => References(schemas) \subseteq DOMAIN schemas

\* No object that the walk with the rules meets has one of the three shapes.
WithinReach(v) == \A u \in RewriteNodes(v) : IsObject(u) => ~ OutOfReach(u.fields)

\* One traversal is enough: whatever the combination of keywords, nothing that
\* the comments of the rules promise to keep from typify is left, although the
\* rules make and remove the shapes that other rules look for.  Three shapes of
\* the input are excluded, for which the code breaks that promise (README.md):
\* an allOf in an allOf, of the spec itself or made by lifting the pattern out of
\* one; a nullable type array beside anyOf or oneOf; an enum with strings of one
\* name that has other values too, or whose type is not "string".
TypifyReady ==
    (stage = "done" /\ WithinReach(
                           Object(RelaxDriftedRequiredFields(LiftInlineOneOrArrayRefs(original)))))
        => \A u \in Nodes(Object(schemas)) : IsObject(u) => ~ Indigestible(u.fields)
=============================================================================
