--------------------------- MODULE MCSpecRewrite ---------------------------
(***************************************************************************)
(* SpecRewrite for TLC: one schema with every combination of the keywords  *)
(* that the rules look at, in every position a schema can have, beside     *)
(* the schemas it refers to.                                               *)
(***************************************************************************)
EXTENDS SpecMeaning, TLC

CONSTANT Absent  \* a keyword that is not there

Strings(values) == Array([i \in DOMAIN values |-> String(values[i])])

\* The keywords of f that are there.
Present(f) == Object([k \in {key \in DOMAIN f : f[key] # Absent} |-> f[k]])

Types == {Absent, String("string"), Strings(<<"string", "null">>), Strings(<<"array", "object">>)}

Enums == {Absent, Strings(<<"a", "b">>), Strings(<<"a-b", "ab">>),
          Strings(<<"a", "alrmCmonx">>), Array(<<String("+"), Null, String("-")>>)}

MCStripped == "+" :> "" @@ "-" :> "" @@ "a-b" :> "ab"

Consts == {Absent, String("alrmCmonx")}

AllOfs == {Absent, Array(<<Ref("viewerId")>>), Array(<<Ref("viewerId"), Ref("camera")>>),
           Array(<<Object([type |-> String("object"), required |-> Strings(<<"p">>)])>>),
           Array(<<Object([allOf |-> Array(<<Ref("viewerId")>>)])>>)}

Closed == {Absent, False}

\* "One entity ID or an array of entity IDs", and schemas that look like it.
Branches ==
    {<<Ref("viewerId"), Object(ArrayOf("viewerId"))>>,
     <<Ref("viewerId"), Object(ArrayOf("viewerId") @@ [minItems |-> Number(2)])>>,
     <<Ref("viewerId"), Object(ArrayOf("camera"))>>,
     <<Ref("viewerId"), Object(ArrayOf("viewerId")), Object("type" :> String("null"))>>}

AnyOfs == {Absent} \cup {Array(branches) : branches \in Branches}

Sites ==
    {Present([type |-> t, enum |-> e, const |-> c, allOf |-> all, anyOf |-> any,
              additionalProperties |-> closed]) :
        t \in Types, e \in Enums, c \in Consts, all \in AllOfs, any \in AnyOfs, closed \in Closed}

\* The same for oneOf, which no rule but two looks at.
OneOfs ==
    {Array(<<Ref("viewerId"), Object(ArrayOf("viewerId"))>>),
     Array(<<Ref("camera"), Object("type" :> String("null"))>>)}

OneOfSites ==
    {Present([type |-> t, allOf |-> all, oneOf |-> one, additionalProperties |-> closed]) :
        t \in Types, all \in {Absent, Array(<<Ref("viewerId")>>)}, one \in OneOfs,
        closed \in Closed}

\* A schema in each position.
Positions(site) ==
    {site,
     Object([type |-> String("object"), additionalProperties |-> False,
             properties |-> Object([type |-> Object("type" :> String("string")), p |-> site])]),
     Object([type |-> String("array"), items |-> site])}

Base == [viewerId |-> Object([type |-> String("string"), enum |-> Strings(<<"a", "b">>)]),
         camera   |-> Object([type |-> String("object"),
                              required |-> Strings(<<"type", "lcdMessage">>)])]

\* The document of a version that lifts one schema itself.
OwnLifted ==
    {Base @@ [viewerIdOrArray |-> own, bulk |-> OneOrArray("viewerId")] :
        own \in {OneOrArray("viewerId"),
                 Object([anyOf |-> Array(<<Ref("viewerId"), Object(ArrayOf("viewerId"))>>),
                         description |-> String("a")])}}

\* All documents.
MCSpecs ==
    {Base @@ ("bulk" :> schema) : schema \in UNION {Positions(site) : site \in Sites \cup OneOfSites}}
        \cup OwnLifted

Values ==
    {Null, String("a"), String("b"), String("-"), String("alrmCmonx"), Array(<<>>),
     Array(<<String("a")>>), Array(<<String("a"), String("b")>>), Object("type" :> String("a"))}

MCInstances ==
    Values \cup {Array(<<v>>) : v \in Values}
           \cup {Object([type |-> String("a"), p |-> v]) : v \in Values}
=============================================================================
