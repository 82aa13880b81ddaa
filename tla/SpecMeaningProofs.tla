------------------------- MODULE SpecMeaningProofs -------------------------
(***************************************************************************)
(* What spec_rewrite.rs does to the meaning of a document, for every       *)
(* document, every set of JSON values and every number of steps: lifting   *)
(* keeps it, and no pass makes a schema stricter.  Accepts first becomes a *)
(* relation on what a document consists of (Taken), which one document     *)
(* hands on to the next where the object of each schema says no less than  *)
(* before (Carried).  The passes follow one by one.                        *)
(***************************************************************************)
EXTENDS SpecRewriteProofs, SpecMeaning

-----------------------------------------------------------------------------
\* How deep a value nests: one level deeper than its parts.

\* What is n + 1 levels below a value is n levels below one of its parts.
LEMMA LevelsByParts ==
    ASSUME NEW v, NEW n \in Nat, n + 1 <= Depth
    PROVE  \A z : z \in Levels(v)[n + 1] <=> \E w \in Parts(v) : z \in Levels(w)[n]
  <1> DEFINE Good == {m \in Nat : m + 1 <= Depth =>
                          \A z : z \in Levels(v)[m + 1] <=> \E w \in Parts(v) : z \in Levels(w)[m]}
  <1>1. 0 \in Good
    <2> SUFFICES ASSUME 0 + 1 <= Depth
                 PROVE  \A z : z \in Levels(v)[0 + 1] <=> \E w \in Parts(v) : z \in Levels(w)[0]
      OBVIOUS
    <2>1. 1 \in 1..Depth /\ 1 - 1 = 0 /\ 0 + 1 = 1
      BY DepthAssumption
    <2>2. Levels(v)[1] = UNION {Parts(u) : u \in {v}}
      BY <2>1, LevelsThere DEF LevelsOf
    <2>3. \A w : Levels(w)[0] = {w}
      BY LevelsThere DEF LevelsOf
    <2> QED BY <2>1, <2>2, <2>3
  <1>2. ASSUME NEW m \in Nat, m \in Good
        PROVE  m + 1 \in Good
    <2> SUFFICES ASSUME (m + 1) + 1 <= Depth
                 PROVE  \A z : z \in Levels(v)[(m + 1) + 1]
                                   <=> \E w \in Parts(v) : z \in Levels(w)[m + 1]
      OBVIOUS
    <2>1. /\ m + 1 <= Depth /\ m + 1 \in 1..Depth /\ (m + 1) - 1 = m
          /\ (m + 1) + 1 \in 1..Depth /\ ((m + 1) + 1) - 1 = m + 1
      BY DepthAssumption
    <2>2. \A z : z \in Levels(v)[m + 1] <=> \E w \in Parts(v) : z \in Levels(w)[m]
      BY <1>2, <2>1
    <2>3. Levels(v)[(m + 1) + 1] = UNION {Parts(u) : u \in Levels(v)[m + 1]}
      BY <2>1, LevelsThere DEF LevelsOf
    <2>4. \A w : Levels(w)[m + 1] = UNION {Parts(u) : u \in Levels(w)[m]}
      BY <2>1, LevelsThere DEF LevelsOf
    <2> HIDE DEF Good
    <2> QED BY <2>2, <2>3, <2>4
  <1>3. Nat \subseteq Good
    <2> HIDE DEF Good
    <2> QED BY <1>1, <1>2, NatSetInduction
  <1> QED BY <1>3

\* The same of the levels that the rules are applied on.
LEMMA RewriteLevelsByParts ==
    ASSUME NEW v, NEW n \in Nat, n + 1 <= Depth
    PROVE  \A z : z \in RewriteLevels(v)[n + 1]
                      <=> \E w \in RewriteParts(v) : z \in RewriteLevels(w)[n]
  <1> DEFINE Good == {m \in Nat : m + 1 <= Depth =>
                          \A z : z \in RewriteLevels(v)[m + 1]
                                     <=> \E w \in RewriteParts(v) : z \in RewriteLevels(w)[m]}
  <1>1. 0 \in Good
    <2> SUFFICES ASSUME 0 + 1 <= Depth
                 PROVE  \A z : z \in RewriteLevels(v)[0 + 1]
                                   <=> \E w \in RewriteParts(v) : z \in RewriteLevels(w)[0]
      OBVIOUS
    <2>1. 1 \in 1..Depth /\ 1 - 1 = 0 /\ 0 + 1 = 1
      BY DepthAssumption
    <2>2. RewriteLevels(v)[1] = UNION {RewriteParts(u) : u \in {v}}
      BY <2>1, RewriteLevelsThere DEF RewriteLevelsOf
    <2>3. \A w : RewriteLevels(w)[0] = {w}
      BY RewriteLevelsThere DEF RewriteLevelsOf
    <2> QED BY <2>1, <2>2, <2>3
  <1>2. ASSUME NEW m \in Nat, m \in Good
        PROVE  m + 1 \in Good
    <2> SUFFICES ASSUME (m + 1) + 1 <= Depth
                 PROVE  \A z : z \in RewriteLevels(v)[(m + 1) + 1]
                                   <=> \E w \in RewriteParts(v) : z \in RewriteLevels(w)[m + 1]
      OBVIOUS
    <2>1. /\ m + 1 <= Depth /\ m + 1 \in 1..Depth /\ (m + 1) - 1 = m
          /\ (m + 1) + 1 \in 1..Depth /\ ((m + 1) + 1) - 1 = m + 1
      BY DepthAssumption
    <2>2. \A z : z \in RewriteLevels(v)[m + 1] <=> \E w \in RewriteParts(v) : z \in RewriteLevels(w)[m]
      BY <1>2, <2>1
    <2>3. RewriteLevels(v)[(m + 1) + 1] = UNION {RewriteParts(u) : u \in RewriteLevels(v)[m + 1]}
      BY <2>1, RewriteLevelsThere DEF RewriteLevelsOf
    <2>4. \A w : RewriteLevels(w)[m + 1] = UNION {RewriteParts(u) : u \in RewriteLevels(w)[m]}
      BY <2>1, RewriteLevelsThere DEF RewriteLevelsOf
    <2> HIDE DEF Good
    <2> QED BY <2>2, <2>3, <2>4
  <1>3. Nat \subseteq Good
    <2> HIDE DEF Good
    <2> QED BY <1>1, <1>2, NatSetInduction
  <1> QED BY <1>3

\* v nests less than n levels deep.
Nests(v, n) == n \in 0..Depth /\ Levels(v)[n] = {}

\* A value nests one level deeper than its parts.
LEMMA NestsByParts ==
    ASSUME NEW v, NEW n
    PROVE  /\ Nests(v, n) => n \in 1..Depth /\ \A w \in Parts(v) : Nests(w, n - 1)
           /\ (n \in 1..Depth /\ \A w \in Parts(v) : Nests(w, n - 1)) => Nests(v, n)
  <1>1. ASSUME Nests(v, n)
        PROVE  n \in 1..Depth
    <2>1. n \in 0..Depth /\ n # 0
      BY <1>1, LevelsThere DEF Nests, LevelsOf
    <2> QED BY <2>1, DepthAssumption
  <1>2. ASSUME n \in 1..Depth
        PROVE  Nests(v, n) <=> \A w \in Parts(v) : Nests(w, n - 1)
    <2>1. n - 1 \in Nat /\ (n - 1) + 1 = n /\ n <= Depth /\ n \in 0..Depth /\ n - 1 \in 0..Depth
      BY <1>2, DepthAssumption
    <2>2. \A z : z \in Levels(v)[n] <=> \E w \in Parts(v) : z \in Levels(w)[n - 1]
      BY <2>1, LevelsByParts
    <2> QED BY <2>1, <2>2 DEF Nests
  <1> QED BY <1>1, <1>2

\* A bound on the nesting may be raised.
LEMMA NestsAbove ==
    ASSUME NEW v, NEW n, Nests(v, n), n + 1 <= Depth
    PROVE  Nests(v, n + 1)
  <1>1. n + 1 \in 1..Depth /\ (n + 1) - 1 = n /\ n + 1 \in 0..Depth
    BY DepthAssumption DEF Nests
  <1> QED BY <1>1, LevelsThere DEF Nests, LevelsOf

\* What v consists of nests less deep than v.
LEMMA NodesNest ==
    ASSUME NEW v, Nests(v, Depth), NEW n, Nests(v, n), NEW u \in Nodes(v)
    PROVE  Nests(u, n)
  <1> DEFINE K == {w \in Nodes(v) : Nests(w, n)}
  <1>1. v \in K
    BY NodesStart
  <1>2. ASSUME NEW w \in K, NEW z \in Parts(w)
        PROVE  z \in K
    <2>1. z \in Nodes(v)
      BY NodesClosed DEF Nests
    <2>2. n \in 1..Depth /\ Nests(z, n - 1)
      BY NestsByParts
    <2>3. (n - 1) + 1 = n /\ n <= Depth
      BY <2>2, DepthAssumption
    <2> QED BY <2>1, <2>2, <2>3, NestsAbove
  <1> HIDE DEF K
  <1>3. Nodes(v) \subseteq K
    BY <1>1, <1>2, NodesLeast
  <1> QED BY <1>3 DEF K

\* The parts of an object are its values.
LEMMA PartsOfObject ==
    ASSUME NEW f
    PROVE  Parts(Object(f)) = {f[k] : k \in DOMAIN f}
BY KindsOfJson DEF Parts

\* The parts of an array are its items.
LEMMA PartsOfArray ==
    ASSUME NEW s
    PROVE  Parts(Array(s)) = {s[i] : i \in DOMAIN s}
BY KindsOfJson DEF Parts

\* A reference nests two levels deep.
LEMMA RefNests ==
    ASSUME NEW x, NEW n \in 1..Depth, n # 1
    PROVE  Nests(Ref(x), n)
  <1>1. n \in 1..Depth /\ n - 1 \in 1..Depth
    BY DepthAssumption
  <1>2. Parts(String(x)) = {}
    BY KindsOfJson DEF Parts
  <1>3. Nests(String(x), n - 1)
    BY <1>1, <1>2, NestsByParts
  <1>4. Parts(Ref(x)) = {String(x)}
    <2>1. DOMAIN Field("$ref", String(x)) = {"$ref"} /\ Field("$ref", String(x))["$ref"] = String(x)
      BY DEF Field
    <2> QED BY <2>1, PartsOfObject DEF Ref
  <1> QED BY <1>1, <1>3, <1>4, NestsByParts

\* Lifting does not nest deeper.
LEMMA LiftNests ==
    ASSUME NEW J, Json(J), NEW d, Lifts(d, J), NEW n, NEW u \in J, Nests(u, n)
    PROVE  Nests(d[u], n)
  <1> DEFINE Good == {m \in Nat : \A w \in J : Nests(w, m) => Nests(d[w], m)}
  <1>1. 0 \in Good
    BY NestsByParts
  <1>2. ASSUME NEW m \in Nat, m \in Good
        PROVE  m + 1 \in Good
    <2> SUFFICES ASSUME NEW w \in J, Nests(w, m + 1)
                 PROVE  Nests(d[w], m + 1)
      OBVIOUS
    <2>1. m + 1 \in 1..Depth /\ (m + 1) - 1 = m /\ \A z \in Parts(w) : Nests(z, m)
      BY NestsByParts
    <2>2. ASSUME NEW z \in Parts(w)
          PROVE  z \in J /\ Nests(d[z], m)
      <3>1. JsonIn(w, J)
        BY DEF Json
      <3>2. z \in J
        BY <3>1, JsonInParts
      <3> QED BY <1>2, <2>1, <3>2
    <2>3. CASE IsObject(w) /\ IsOneOrArray(w.fields)
      <3>1. d[w] = Ref(LiftedName(InnerRef(w.fields)))
        BY <2>3, LiftedPatterns
      <3>2. Parts(w) # {}
        <4>1. DOMAIN w.fields # {}
          BY <2>3 DEF IsOneOrArray
        <4>2. \A k \in DOMAIN w.fields : w.fields[k] \in Parts(w)
          BY <2>3, PartsOf
        <4> QED BY <4>1, <4>2
      <3>3. m # 0
        BY <2>1, <3>2, NestsByParts
      <3> QED BY <2>1, <3>1, <3>3, RefNests
    <2>4. CASE IsObject(w) /\ ~ IsOneOrArray(w.fields)
      <3> DEFINE g == [k \in DOMAIN w.fields |-> d[w.fields[k]]]
      <3>1. d[w] = Object(g)
        BY <2>4, LiftedObjects
      <3>2. Parts(Object(g)) = {g[k] : k \in DOMAIN g}
        BY PartsOfObject
      <3>3. \A k \in DOMAIN g : w.fields[k] \in Parts(w) /\ g[k] = d[w.fields[k]]
        BY <2>4, PartsOf
      <3> HIDE DEF g
      <3>4. \A z \in Parts(d[w]) : Nests(z, m)
        BY <2>2, <3>1, <3>2, <3>3
      <3> QED BY <2>1, <3>4, NestsByParts
    <2>5. CASE IsArray(w)
      <3> DEFINE s == [i \in DOMAIN w.items |-> d[w.items[i]]]
      <3>1. d[w] = Array(s)
        BY <2>5, LiftedArrays
      <3>2. Parts(Array(s)) = {s[i] : i \in DOMAIN s}
        BY PartsOfArray
      <3>3. \A i \in DOMAIN s : w.items[i] \in Parts(w) /\ s[i] = d[w.items[i]]
        BY <2>5, PartsOf
      <3> HIDE DEF s
      <3>4. \A z \in Parts(d[w]) : Nests(z, m)
        BY <2>2, <3>1, <3>2, <3>3
      <3> QED BY <2>1, <3>4, NestsByParts
    <2>6. CASE ~ IsObject(w) /\ ~ IsArray(w)
      BY <2>6, LiftedScalars
    <2> QED BY <2>3, <2>4, <2>5, <2>6
  <1>3. Nat \subseteq Good
    <2> HIDE DEF Good
    <2> QED BY <1>1, <1>2, NatSetInduction
  <1>4. n \in Nat
    BY DEF Nests
  <1> QED BY <1>3, <1>4

\* The lifted document is still within Depth.
LEMMA LiftedDocumentNests ==
    ASSUME NEW doc \in Specs
    PROVE  Nests(Object(LiftInlineOneOrArrayRefs(doc)), Depth)
  <1> DEFINE doc1 == LiftInlineOneOrArrayRefs(doc)
             new  == DOMAIN LiftedSchemas(doc)
             N    == Depth - 1
  <1>1. Nests(Object(doc), Depth)
    BY SpecsAssumption, DepthAssumption DEF Nests
  <1>2. Depth \in 1..Depth /\ \A name \in DOMAIN doc : Nests(doc[name], N)
    <2>1. \A name \in DOMAIN doc : doc[name] \in Parts(Object(doc))
      BY PartsOfObject
    <2> QED BY <1>1, <2>1, NestsByParts
  <1>3. ASSUME NEW name \in DOMAIN doc, NEW u \in Nodes(doc[name])
        PROVE  Nests(u, N)
    <2>1. Nests(doc[name], Depth)
      BY LiftWalks, DepthAssumption DEF Nests
    <2> QED BY <1>2, <2>1, NodesNest
  <1>4. /\ \A l \in new : \E x \in Inner(doc) :
               l = LiftedName(x) /\ LiftedSchemas(doc)[l] = OneOrArray(x)
        /\ \A x \in Inner(doc) : LiftedName(x) \in new
        /\ DOMAIN doc1 = DOMAIN doc \cup new
        /\ \A name \in DOMAIN doc : doc1[name] = LiftDescend(doc[name])
        /\ \A l \in new \ DOMAIN doc : doc1[l] = LiftedSchemas(doc)[l]
        /\ doc1 = [name \in DOMAIN doc1 |-> doc1[name]]
    BY LiftedNames
  <1> HIDE DEF doc1, new
  <1>5. ASSUME NEW name \in DOMAIN doc
        PROVE  Nests(doc1[name], N)
    <2> DEFINE J == Nodes(doc[name])
               d == LiftWalk(doc[name])
    <2>1. Json(J) /\ Lifts(d, J) /\ doc[name] \in J /\ LiftDescend(doc[name]) = d[doc[name]]
      BY LiftWalks
    <2> HIDE DEF J, d
    <2>2. Nests(d[doc[name]], N)
      BY <1>2, <2>1, LiftNests
    <2> QED BY <1>4, <2>1, <2>2
  <1>6. ASSUME NEW x \in Inner(doc)
        PROVE  Nests(OneOrArray(x), N)
    <2>1. PICK name \in DOMAIN doc : x \in Synthesised(doc[name])
      BY DEF Inner
    <2>2. PICK u \in Nodes(doc[name]) :
              IsObject(u) /\ IsOneOrArray(u.fields) /\ x = InnerRef(u.fields)
      BY <2>1 DEF Synthesised
    <2>3. Json(Nodes(doc[name]))
      BY LiftWalks
    <2>4. u = Object(u.fields)
      BY <2>2, <2>3, JsonParts
    <2>5. u = OneOrArray(x)
      BY <2>2, <2>3, <2>4, LiftsOnlyThePattern
    <2> QED BY <1>3, <2>5
  <1>7. \A w \in Parts(Object(doc1)) : Nests(w, N)
    <2>1. \A name \in DOMAIN doc1 : Nests(doc1[name], N)
      BY <1>4, <1>5, <1>6
    <2> QED BY <2>1, PartsOfObject
  <1> QED BY <1>2, <1>7, NestsByParts DEF doc1

\* Vec::retain makes no new items.
LEMMA RetainedParts ==
    ASSUME NEW v, IsArray(v), NEW S, v.items \in Seq(S), NEW name
    PROVE  /\ Retained(name, v.items) \in Seq(Parts(v))
           /\ Parts(Array(Retained(name, v.items))) \subseteq Parts(v)
  <1> DEFINE s == Retained(name, v.items)
  <1>1. v.items \in Seq(Parts(v))
    <2>1. \A i \in DOMAIN v.items : v.items[i] \in Parts(v)
      BY PartsOf
    <2> QED BY <2>1
  <1>2. s \in Seq(Parts(v))
    BY <1>1, RetainedItems
  <1> HIDE DEF s
  <1>3. \A i \in DOMAIN s : s[i] \in Parts(v)
    BY <1>2
  <1>4. Parts(Array(s)) \subseteq Parts(v)
    BY <1>3, PartsOfArray
  <1> QED BY <1>2, <1>4 DEF s

\* Relaxing what is required does not make a document deeper.
LEMMA RelaxNests ==
    ASSUME NEW M, Json(M), NEW doc, Object(doc) \in M, Nests(Object(doc), Depth)
    PROVE  Nests(Object(RelaxDriftedRequiredFields(doc)), Depth)
  <1> DEFINE doc2 == RelaxDriftedRequiredFields(doc)
             N    == Depth - 1
             Left(name) == Array(Retained(name, doc[name].fields.required.items))
             Touched(name) == IsObject(doc[name]) /\ HasArray(doc[name].fields, "required")
  <1>1. Depth \in 1..Depth /\ \A name \in DOMAIN doc : Nests(doc[name], N)
    <2>1. \A name \in DOMAIN doc : doc[name] \in Parts(Object(doc))
      BY PartsOfObject
    <2> QED BY <2>1, NestsByParts
  <1>2. /\ DOMAIN doc2 = DOMAIN doc
        /\ \A name \in DOMAIN doc : ~ Touched(name) => doc2[name] = doc[name]
        /\ \A name \in DOMAIN doc :
               Touched(name) => doc2[name] = Object(With(doc[name].fields, "required", Left(name)))
    BY DEF RelaxDriftedRequiredFields
  <1> HIDE DEF doc2
  <1>3. ASSUME NEW name \in DOMAIN doc, Touched(name)
        PROVE  Nests(doc2[name], N)
    <2> DEFINE f == doc[name].fields
               g == With(f, "required", Left(name))
               r == f["required"]
    <2>1. N \in 1..Depth /\ \A w \in Parts(doc[name]) : Nests(w, N - 1)
      BY <1>1, NestsByParts
    <2>2. \A k \in DOMAIN f : f[k] \in Parts(doc[name])
      BY <1>3, PartsOf
    <2>3. "required" \in DOMAIN f /\ IsArray(r)
      BY <1>3 DEF HasArray, Has
    <2>4. r \in Parts(doc[name])
      BY <2>2, <2>3
    <2>5. N - 1 \in 1..Depth /\ \A w \in Parts(r) : Nests(w, N - 2)
      <3>1. Nests(r, N - 1)
        BY <2>1, <2>4
      <3>2. (N - 1) - 1 = N - 2
        BY DepthAssumption
      <3> QED BY <3>1, <3>2, NestsByParts
    <2>6. \A w \in Parts(Left(name)) : w \in Parts(r)
      <3>1. Object(doc).fields = doc /\ IsObject(Object(doc))
        BY KindsOfJson
      <3>2. doc[name] \in M
        BY <3>1, JsonParts
      <3>3. r \in M
        BY <1>3, <2>3, <3>2, JsonParts
      <3>4. r.items \in Seq(M)
        BY <2>3, <3>3, JsonParts
      <3>5. Left(name) = Array(Retained(name, r.items))
        OBVIOUS
      <3> HIDE DEF Left, r
      <3> QED BY <2>3, <3>4, <3>5, RetainedParts
    <2>7. Nests(Left(name), N - 1)
      <3>1. (N - 1) - 1 = N - 2
        BY DepthAssumption
      <3> QED BY <2>5, <2>6, <3>1, NestsByParts
    <2>8. \A k \in DOMAIN g : Nests(g[k], N - 1)
      <3>1. \A k \in DOMAIN f : Nests(f[k], N - 1)
        BY <2>1, <2>2
      <3>2. \A k \in DOMAIN g : g[k] = Left(name) \/ (k \in DOMAIN f /\ g[k] = f[k])
        BY DEF With
      <3> HIDE DEF g, f, Left
      <3> QED BY <2>7, <3>1, <3>2
    <2>9. doc2[name] = Object(g)
      BY <1>2, <1>3
    <2> HIDE DEF g
    <2>10. \A w \in Parts(Object(g)) : Nests(w, N - 1)
      BY <2>8, PartsOfObject
    <2> QED BY <2>1, <2>9, <2>10, NestsByParts
  <1>4. \A w \in Parts(Object(doc2)) : Nests(w, N)
    <2>1. \A name \in DOMAIN doc2 : Nests(doc2[name], N)
      BY <1>1, <1>2, <1>3
    <2> QED BY <2>1, PartsOfObject
  <1> QED BY <1>1, <1>4, NestsByParts DEF doc2

\* The walk with the rules does not, either, below what it may meet.
LEMMA DescendNests ==
    ASSUME NEW J, Documents(J), NEW D, Descends(D, J), \A u \in J : RewriteParts(u) \subseteq J,
           NEW n \in 0..Depth, NEW u \in J, RewriteLevels(u)[n] = {}
    PROVE  Nests(D[u], n)
  <1> DEFINE Good == {m \in Nat : \A w \in J :
                          (m <= Depth /\ RewriteLevels(w)[m] = {}) => Nests(D[w], m)}
  <1>1. 0 \in Good
    BY RewriteLevelsThere DEF RewriteLevelsOf
  <1>2. ASSUME NEW m \in Nat, m \in Good
        PROVE  m + 1 \in Good
    <2> SUFFICES ASSUME NEW w \in J, m + 1 <= Depth, RewriteLevels(w)[m + 1] = {}
                 PROVE  Nests(D[w], m + 1)
      OBVIOUS
    <2>1. m + 1 \in 1..Depth /\ (m + 1) - 1 = m /\ m <= Depth
      BY DepthAssumption
    <2>2. \A z \in RewriteParts(w) : RewriteLevels(z)[m] = {}
      BY RewriteLevelsByParts
    <2>3. \A z \in RewriteParts(w) : z \in J /\ Nests(D[z], m)
      BY <1>2, <2>1, <2>2
    <2>4. \A z \in Parts(D[w]) : \E y \in J \cap RewriteParts(w) : z = D[y]
      BY PartsDescend
    <2> QED BY <2>1, <2>3, <2>4, NestsByParts
  <1>3. Nat \subseteq Good
    <2> HIDE DEF Good
    <2> QED BY <1>1, <1>2, NatSetInduction
  <1>4. n \in Nat /\ n <= Depth
    BY DepthAssumption
  <1> QED BY <1>3, <1>4

-----------------------------------------------------------------------------
\* The meaning of schemas, step by step

\* Says, where what the subschemas and the named schemas accept are sets of pairs.
Holds(f, x, accepts, named) ==
    LET Sub(sub, y)    == <<sub, y>> \in accepts
        Named(name, y) == <<name, y>> \in named
    IN  Says(f, x, Sub, Named)

\* What the meaning of a document is about: its schemas, and the values compared.
Pairs(doc) == Nodes(Object(doc)) \X Instances

\* What the schemas of doc accept in fewer than n steps.
Taken(doc, n) == {p \in Pairs(doc) : n > 0 /\ Accepts(doc)[n - 1][p]}

\* A, in terms of the names of schemas.
NamedIn(doc, A) == {p \in (DOMAIN doc) \X Instances : <<doc[p[1]], p[2]>> \in A}


\* What the schemas of doc accept when their subschemas and the schemas that they
\* refer to accept A.
Row(doc, A) ==
    [p \in Pairs(doc) |-> IsSchema(p[1]) /\ Holds(p[1].fields, p[2], A, NamedIn(doc, A))]

\* What it means to be accepted by a schema of the document, by name.
LEMMA NamedInIs ==
    ASSUME NEW doc, NEW A \in SUBSET Pairs(doc)
    PROVE  \A s, y : <<s, y>> \in NamedIn(doc, A) <=> s \in DOMAIN doc /\ <<doc[s], y>> \in A
  <1>1. \A s, y : <<s, y>> \in A => y \in Instances
    BY DEF Pairs
  <1> QED BY <1>1 DEF NamedIn

\* The row of n in the recursive function that Accepts defines.
RowAfter(doc, accepts, n) ==
    [p \in Pairs(doc) |->
        LET Sub(schema, y) ==
                n > 0 /\ <<schema, y>> \in Pairs(doc) /\ accepts[n - 1][<<schema, y>>]
            Named(name, y) == name \in DOMAIN doc /\ Sub(doc[name], y)
        IN  IsSchema(p[1]) /\ Says(p[1].fields, p[2], Sub, Named)]

\* What Accepts computes in one step, without the operators that Says takes.
LEMMA SaysRow ==
    ASSUME NEW doc, NEW G, NEW n \in Nat, NEW A,
           A = {p \in Pairs(doc) : n > 0 /\ G[n - 1][p]}
    PROVE  RowAfter(doc, G, n) = Row(doc, A)
  <1> DEFINE Sub(schema, y) == n > 0 /\ <<schema, y>> \in Pairs(doc) /\ G[n - 1][<<schema, y>>]
             Named(name, y) == name \in DOMAIN doc /\ Sub(doc[name], y)
             B == NamedIn(doc, A)
  <1>1. \A s, y : Sub(s, y) <=> <<s, y>> \in A
    OBVIOUS
  <1>2. \A s, y : Named(s, y) <=> <<s, y>> \in B
    <2>1. A \in SUBSET Pairs(doc)
      OBVIOUS
    <2>2. \A s, y : <<s, y>> \in B <=> s \in DOMAIN doc /\ <<doc[s], y>> \in A
      BY <2>1, NamedInIs
    <2> HIDE DEF Sub
    <2> QED BY <1>1, <2>2
  <1>3. \A f, x : Says(f, x, Sub, Named) <=> Holds(f, x, A, B)
    <2> TAKE f, x
    <2> DEFINE Declared(p) == Has(f, "properties") /\ Has(f.properties.fields, p)
    <2>1. Says(f, x, Sub, Named) <=>
          /\ Has(f, "type") =>
                 IF IsArray(f.type) THEN InArray(String(TypeOf(x)), f, "type")
                 ELSE f.type = String(TypeOf(x))
          /\ Has(f, "const") => x = f.const
          /\ Has(f, "enum") => InArray(x, f, "enum")
          /\ Has(f, "$ref") => Named(f["$ref"].str, x)
          /\ Has(f, "anyOf") => \E i \in DOMAIN f["anyOf"].items : Sub(f["anyOf"].items[i], x)
          /\ Has(f, "oneOf") => \E i \in DOMAIN f["oneOf"].items : Sub(f["oneOf"].items[i], x)
          /\ Has(f, "allOf") => \A i \in DOMAIN f.allOf.items : Sub(f.allOf.items[i], x)
          /\ (IsArray(x) /\ Has(f, "minItems")) => Len(x.items) >= f.minItems.num
          /\ (IsArray(x) /\ Has(f, "items")) =>
                 \A i \in DOMAIN x.items : Sub(f.items, x.items[i])
          /\ IsObject(x) =>
                 \A p \in DOMAIN x.fields :
                     IF Declared(p) THEN Sub(f.properties.fields[p], x.fields[p])
                     ELSE Has(f, "additionalProperties") =>
                              /\ f.additionalProperties # False
                              /\ IsObject(f.additionalProperties) =>
                                     Sub(f.additionalProperties, x.fields[p])
          /\ (IsObject(x) /\ Has(f, "required")) =>
                 \A i \in DOMAIN f.required.items : Has(x.fields, f.required.items[i].str)
      BY DEF Says
    <2> HIDE DEF Sub, Named, B
    <2> QED BY <1>1, <1>2, <2>1 DEF Holds, Says
  <1> HIDE DEF Sub, Named
  <1>4. [p \in Pairs(doc) |-> IsSchema(p[1]) /\ Says(p[1].fields, p[2], Sub, Named)]
          = [p \in Pairs(doc) |-> IsSchema(p[1]) /\ Holds(p[1].fields, p[2], A, B)]
    BY <1>3
  <1> QED BY <1>4 DEF Sub, Named, Row, RowAfter

\* Accepts is given by its own equation, once a function satisfies that.
LEMMA AcceptsIsRecursive ==
    ASSUME NEW doc, \E g : g = [n \in Nat |-> RowAfter(doc, g, n)]
    PROVE  Accepts(doc) = [n \in Nat |-> RowAfter(doc, Accepts(doc), n)]
BY DEF Accepts, Pairs, RowAfter

\* That function exists, so that Accepts can be unfolded.
LEMMA AcceptsIsRows ==
    ASSUME NEW doc
    PROVE  Accepts(doc) = [n \in Nat |-> Row(doc, Taken(doc, n))]
  <1> DEFINE P == Pairs(doc)
             Next1(A) == {p \in P : Row(doc, A)[p]}
             step == [n \in Nat |-> [A \in SUBSET P |-> Next1(A)]]
             none == {}
             T(g, n) == {p \in P : n > 0 /\ g[n - 1][p]}
  <1>1. ASSUME NEW g, NEW n \in Nat
        PROVE  RowAfter(doc, g, n) = Row(doc, T(g, n))
    BY SaysRow
  <1>2. PICK h \in [Nat -> SUBSET P] : FollowsAlways(h, none, step)
    <2>1. none \in SUBSET P /\ \A n \in Nat : step[n] \in [SUBSET P -> SUBSET P]
      OBVIOUS
    <2> HIDE DEF step, none
    <2> QED BY <2>1, NatRecursion
  <1> DEFINE g == [n \in Nat |-> Row(doc, h[n])]
  <1>3. h[0] = {} /\ \A n \in Nat : h[n + 1] = Next1(h[n])
    <2>1. \A n \in Nat : step[n][h[n]] = Next1(h[n])
      OBVIOUS
    <2> HIDE DEF step, Next1
    <2> QED BY <1>2, <2>1 DEF FollowsAlways
  <1>4. ASSUME NEW n \in Nat
        PROVE  T(g, n) = h[n]
    <2>1. CASE n = 0
      BY <1>3, <2>1
    <2>2. CASE n # 0
      <3>1. n - 1 \in Nat /\ (n - 1) + 1 = n /\ n > 0
        BY <2>2
      <3>2. g[n - 1] = Row(doc, h[n - 1]) /\ h[n] = Next1(h[n - 1])
        <4>1. h[(n - 1) + 1] = Next1(h[n - 1])
          BY <1>3, <3>1
        <4> QED BY <3>1, <4>1
      <3> HIDE DEF g
      <3> QED BY <3>1, <3>2
    <2> QED BY <2>1, <2>2
  <1>5. g = [n \in Nat |-> RowAfter(doc, g, n)]
    <2>1. \A n \in Nat : RowAfter(doc, g, n) = Row(doc, h[n])
      <3> HIDE DEF T, g
      <3> QED BY <1>1, <1>4
    <2> DEFINE e == [n \in Nat |-> RowAfter(doc, g, n)]
    <2>2. e = [n \in Nat |-> Row(doc, h[n])]
      <3> HIDE DEF g
      <3> QED BY <2>1
    <2> HIDE DEF e
    <2>3. g = e
      BY <2>2 DEF g
    <2> QED BY <2>3 DEF e
  <1>6. Accepts(doc) = [n \in Nat |-> RowAfter(doc, Accepts(doc), n)]
    <2> HIDE DEF g
    <2>1. \E f : f = [n \in Nat |-> RowAfter(doc, f, n)]
      BY <1>5
    <2> QED BY <2>1, AcceptsIsRecursive
  <1>7. \A n \in Nat : RowAfter(doc, Accepts(doc), n) = Row(doc, Taken(doc, n))
    <2>1. \A n \in Nat : T(Accepts(doc), n) = Taken(doc, n)
      BY DEF Taken
    <2> HIDE DEF T
    <2> QED BY <1>1, <2>1
  <1> QED BY <1>6, <1>7

\* Accepts, as a relation: what one step more accepts.
LEMMA Takes ==
    ASSUME NEW doc, NEW n \in Nat
    PROVE  /\ Taken(doc, 0) = {}
           /\ \A s, x : <<s, x>> \in Taken(doc, n) => s \in Nodes(Object(doc)) /\ x \in Instances
           /\ \A s \in Nodes(Object(doc)), x \in Instances :
                  <<s, x>> \in Taken(doc, n + 1)
                      <=> /\ IsSchema(s)
                          /\ Holds(s.fields, x, Taken(doc, n), NamedIn(doc, Taken(doc, n)))
  <1>1. Taken(doc, 0) = {}
    BY DEF Taken
  <1>2. \A s, x : <<s, x>> \in Taken(doc, n) => s \in Nodes(Object(doc)) /\ x \in Instances
    BY DEF Taken, Pairs
  <1>3. ASSUME NEW s \in Nodes(Object(doc)), NEW x \in Instances
        PROVE  <<s, x>> \in Taken(doc, n + 1)
                   <=> /\ IsSchema(s)
                       /\ Holds(s.fields, x, Taken(doc, n), NamedIn(doc, Taken(doc, n)))
    <2> DEFINE p == <<s, x>>
               A == Taken(doc, n)
    <2>1. p \in Pairs(doc) /\ p[1] = s /\ p[2] = x
      BY DEF Pairs
    <2>2. Accepts(doc)[n] = Row(doc, A)
      BY AcceptsIsRows
    <2>3. (n + 1) - 1 = n /\ n + 1 > 0
      OBVIOUS
    <2>4. p \in Taken(doc, n + 1) <=> Accepts(doc)[n][p]
      BY <2>1, <2>3 DEF Taken
    <2> HIDE DEF p, A
    <2>5. Row(doc, A)[p] <=> IsSchema(s) /\ Holds(s.fields, x, A, NamedIn(doc, A))
      BY <2>1 DEF Row
    <2> QED BY <2>2, <2>4, <2>5 DEF p, A
  <1> QED BY <1>1, <1>2, <1>3

\* A schema that is referred to accepts what it accepts in its own place.
LEMMA NamedTaken ==
    ASSUME NEW doc, NEW n \in Nat
    PROVE  \A name, x : <<name, x>> \in NamedIn(doc, Taken(doc, n))
                            <=> name \in DOMAIN doc /\ <<doc[name], x>> \in Taken(doc, n)
  <1>1. Taken(doc, n) \in SUBSET Pairs(doc)
    BY DEF Taken
  <1> QED BY <1>1, NamedInIs

\* Means, in terms of that relation.
LEMMA MeansTaken ==
    ASSUME NEW doc, NEW name \in DOMAIN doc, NEW n \in Nat, doc[name] \in Nodes(Object(doc))
    PROVE  \A x : x \in Means(doc, name, n) <=> <<doc[name], x>> \in Taken(doc, n + 1)
  <1>1. (n + 1) - 1 = n /\ n + 1 > 0
    OBVIOUS
  <1>2. \A x : <<doc[name], x>> \in Pairs(doc) <=> x \in Instances
    BY DEF Pairs
  <1>3. \A x : <<doc[name], x>> \in Taken(doc, n + 1)
                  <=> x \in Instances /\ Accepts(doc)[n][<<doc[name], x>>]
    BY <1>1, <1>2 DEF Taken
  <1> QED BY <1>3 DEF Means

\* The more the subschemas accept, the more a schema does.
LEMMA HoldsMore ==
    ASSUME NEW f, NEW x, NEW A, NEW B, NEW C, NEW D, A \subseteq C, B \subseteq D,
           Holds(f, x, A, B)
    PROVE  Holds(f, x, C, D)
BY DEF Holds, Says

\* More steps accept more.
LEMMA TakenGrows ==
    ASSUME NEW doc, NEW n \in Nat, NEW m \in Nat, n <= m
    PROVE  Taken(doc, n) \subseteq Taken(doc, m)
  <1> DEFINE Good == {k \in Nat : Taken(doc, k) \subseteq Taken(doc, k + 1)}
             Above == {k \in Nat : Taken(doc, n) \subseteq Taken(doc, n + k)}
  <1>1. 0 \in Good
    BY Takes
  <1>2. ASSUME NEW k \in Nat, k \in Good
        PROVE  k + 1 \in Good
    <2> DEFINE A == Taken(doc, k)
               C == Taken(doc, k + 1)
    <2>1. A \subseteq C
      BY <1>2
    <2>2. NamedIn(doc, A) \subseteq NamedIn(doc, C)
      BY <2>1 DEF NamedIn
    <2>3. ASSUME NEW p \in Taken(doc, k + 1)
          PROVE  p \in Taken(doc, (k + 1) + 1)
      <3>1. PICK s \in Nodes(Object(doc)), x \in Instances : p = <<s, x>>
        BY DEF Taken, Pairs
      <3>2. IsSchema(s) /\ Holds(s.fields, x, A, NamedIn(doc, A))
        BY <2>3, <3>1, Takes
      <3>3. k + 1 \in Nat
        OBVIOUS
      <3> HIDE DEF A, C
      <3>4. Holds(s.fields, x, C, NamedIn(doc, C))
        BY <2>1, <2>2, <3>2, HoldsMore
      <3> QED BY <3>1, <3>2, <3>3, <3>4, Takes DEF C
    <2> QED BY <2>3
  <1>3. Nat \subseteq Good
    <2> HIDE DEF Good
    <2> QED BY <1>1, <1>2, NatSetInduction
  <1>4. 0 \in Above
    OBVIOUS
  <1>5. ASSUME NEW k \in Nat, k \in Above
        PROVE  k + 1 \in Above
    <2>1. n + k \in Nat /\ n + (k + 1) = (n + k) + 1
      OBVIOUS
    <2>2. Taken(doc, n + k) \subseteq Taken(doc, (n + k) + 1)
      BY <1>3, <2>1
    <2> QED BY <1>5, <2>1, <2>2
  <1>6. Nat \subseteq Above
    <2> HIDE DEF Above
    <2> QED BY <1>4, <1>5, NatSetInduction
  <1>7. m - n \in Nat /\ n + (m - n) = m
    OBVIOUS
  <1> QED BY <1>6, <1>7


\* g is the schema f with its subschemas replaced as E tells, and fewer of them
\* or less of them required.
Carried(f, g, E) ==
    /\ DOMAIN g = DOMAIN f
    /\ Has(f, "type") =>
           /\ IsArray(g.type) <=> IsArray(f.type)
           /\ ~ IsArray(f.type) => g.type = f.type
           /\ IsArray(f.type) => \A x : InArray(x, f, "type") => InArray(x, g, "type")
    /\ Has(f, "const") => g.const = f.const
    /\ Has(f, "enum") => \A x : InArray(x, f, "enum") => InArray(x, g, "enum")
    /\ Has(f, "$ref") => g["$ref"] = f["$ref"]
    /\ \A key \in Combinators :
           Has(f, key) =>
               /\ DOMAIN g[key].items = DOMAIN f[key].items
               /\ \A i \in DOMAIN f[key].items : <<f[key].items[i], g[key].items[i]>> \in E
    /\ Has(f, "minItems") => g.minItems = f.minItems
    /\ Has(f, "items") => <<f.items, g.items>> \in E
    /\ Has(f, "additionalProperties") =>
           /\ g.additionalProperties = False => f.additionalProperties = False
           /\ IsObject(g.additionalProperties) =>
                  /\ IsObject(f.additionalProperties)
                  /\ <<f.additionalProperties, g.additionalProperties>> \in E
    /\ Has(f, "required") =>
           \A j \in DOMAIN g.required.items : \E i \in DOMAIN f.required.items :
               g.required.items[j] = f.required.items[i]
    /\ Has(f, "properties") =>
           /\ DOMAIN g.properties.fields = DOMAIN f.properties.fields
           /\ \A p \in DOMAIN f.properties.fields :
                  <<f.properties.fields[p], g.properties.fields[p]>> \in E

\* If no subschema is made stricter, and no named schema, the schema is not, either.
LEMMA CarriedHolds ==
    ASSUME NEW E, NEW f, NEW g, Carried(f, g, E),
           NEW A, NEW B, NEW C, NEW D,
           \A s, t, y : (<<s, t>> \in E /\ <<s, y>> \in A) => <<t, y>> \in C,
           NEW x,
           Has(f, "$ref") => (<<f["$ref"].str, x>> \in B => <<f["$ref"].str, x>> \in D),
           Holds(f, x, A, B)
    PROVE  Holds(g, x, C, D)
  <1> DEFINE Declared(h, p) == Has(h, "properties") /\ Has(h.properties.fields, p)
  <1>1. \A k : Has(g, k) <=> Has(f, k)
    BY DEF Carried, Has
  <1>2. /\ Has(f, "type") =>
               IF IsArray(f.type) THEN InArray(String(TypeOf(x)), f, "type")
               ELSE f.type = String(TypeOf(x))
        /\ Has(f, "const") => x = f.const
        /\ Has(f, "enum") => InArray(x, f, "enum")
        /\ Has(f, "$ref") => <<f["$ref"].str, x>> \in B
        /\ (IsArray(x) /\ Has(f, "minItems")) => Len(x.items) >= f.minItems.num
        /\ (IsArray(x) /\ Has(f, "items")) =>
               \A i \in DOMAIN x.items : <<f.items, x.items[i]>> \in A
        /\ (IsObject(x) /\ Has(f, "required")) =>
               \A i \in DOMAIN f.required.items : Has(x.fields, f.required.items[i].str)
    BY DEF Holds, Says
  <1>3. Has(g, "type") =>
            IF IsArray(g.type) THEN InArray(String(TypeOf(x)), g, "type")
            ELSE g.type = String(TypeOf(x))
    BY <1>1, <1>2 DEF Carried
  <1>4. Has(g, "const") => x = g.const
    BY <1>1, <1>2 DEF Carried
  <1>5. Has(g, "enum") => InArray(x, g, "enum")
    BY <1>1, <1>2 DEF Carried
  <1>6. Has(g, "$ref") => <<g["$ref"].str, x>> \in D
    BY <1>1, <1>2 DEF Carried
  <1>7. \A key \in {"anyOf", "oneOf"} :
            Has(g, key) => \E i \in DOMAIN g[key].items : <<g[key].items[i], x>> \in C
    <2> TAKE key \in {"anyOf", "oneOf"}
    <2> HAVE Has(g, key)
    <2>1. PICK i \in DOMAIN f[key].items : <<f[key].items[i], x>> \in A
      BY <1>1 DEF Holds, Says
    <2>2. DOMAIN g[key].items = DOMAIN f[key].items /\ <<f[key].items[i], g[key].items[i]>> \in E
      BY <1>1, <2>1 DEF Carried, Combinators
    <2> QED BY <2>1, <2>2
  <1>8. Has(g, "allOf") => \A i \in DOMAIN g.allOf.items : <<g.allOf.items[i], x>> \in C
    <2> SUFFICES ASSUME Has(g, "allOf"), NEW i \in DOMAIN g["allOf"].items
                 PROVE  <<g["allOf"].items[i], x>> \in C
      OBVIOUS
    <2>1. i \in DOMAIN f["allOf"].items /\ <<f["allOf"].items[i], g["allOf"].items[i]>> \in E
      BY <1>1 DEF Carried, Combinators
    <2>2. <<f["allOf"].items[i], x>> \in A
      BY <1>1, <2>1 DEF Holds, Says
    <2> QED BY <2>1, <2>2
  <1>9. (IsArray(x) /\ Has(g, "minItems")) => Len(x.items) >= g.minItems.num
    BY <1>1, <1>2 DEF Carried
  <1>10. (IsArray(x) /\ Has(g, "items")) =>
             \A i \in DOMAIN x.items : <<g.items, x.items[i]>> \in C
    BY <1>1, <1>2 DEF Carried
  <1>11. IsObject(x) =>
             \A p \in DOMAIN x.fields :
                 IF Declared(g, p) THEN <<g.properties.fields[p], x.fields[p]>> \in C
                 ELSE Has(g, "additionalProperties") =>
                          /\ g.additionalProperties # False
                          /\ IsObject(g.additionalProperties) =>
                                 <<g.additionalProperties, x.fields[p]>> \in C
    <2> SUFFICES ASSUME IsObject(x), NEW p \in DOMAIN x.fields
                 PROVE  IF Declared(g, p) THEN <<g.properties.fields[p], x.fields[p]>> \in C
                        ELSE Has(g, "additionalProperties") =>
                                 /\ g.additionalProperties # False
                                 /\ IsObject(g.additionalProperties) =>
                                        <<g.additionalProperties, x.fields[p]>> \in C
      OBVIOUS
    <2>1. IF Declared(f, p) THEN <<f.properties.fields[p], x.fields[p]>> \in A
          ELSE Has(f, "additionalProperties") =>
                   /\ f.additionalProperties # False
                   /\ IsObject(f.additionalProperties) =>
                          <<f.additionalProperties, x.fields[p]>> \in A
      BY DEF Holds, Says
    <2>2. Declared(g, p) <=> Declared(f, p)
      BY <1>1 DEF Carried, Has
    <2>3. CASE Declared(g, p)
      <3>1. <<f.properties.fields[p], g.properties.fields[p]>> \in E
        BY <2>2, <2>3 DEF Carried, Has
      <3>2. <<f.properties.fields[p], x.fields[p]>> \in A
        BY <2>1, <2>2, <2>3
      <3> QED BY <2>3, <3>1, <3>2
    <2>4. CASE ~ Declared(g, p)
      <3>1. Has(f, "additionalProperties") =>
                /\ f.additionalProperties # False
                /\ IsObject(f.additionalProperties) =>
                       <<f.additionalProperties, x.fields[p]>> \in A
        BY <2>1, <2>2, <2>4
      <3>2. Has(g, "additionalProperties") =>
                /\ g.additionalProperties # False
                /\ IsObject(g.additionalProperties) =>
                       <<g.additionalProperties, x.fields[p]>> \in C
        BY <1>1, <3>1 DEF Carried
      <3> QED BY <2>4, <3>2
    <2> QED BY <2>3, <2>4
  <1>12. (IsObject(x) /\ Has(g, "required")) =>
             \A j \in DOMAIN g.required.items : Has(x.fields, g.required.items[j].str)
    BY <1>1, <1>2 DEF Carried
  <1> QED BY <1>3, <1>4, <1>5, <1>6, <1>7, <1>8, <1>9, <1>10, <1>11, <1>12 DEF Holds, Says


\* D leaves objects objects, goes into arrays and keeps the scalars.
Walks(D, J) ==
    \A u \in J :
        /\ IsObject(u) => IsObject(D[u])
        /\ IsArray(u) => D[u] = Array([i \in DOMAIN u.items |-> D[u.items[i]]])
        /\ IsScalar(u) => D[u] = u

\* A walk keeps the kind of every value and changes only objects.
LEMMA WalkKinds ==
    ASSUME NEW J, Json(J), NEW D, Walks(D, J), NEW u \in J
    PROVE  /\ IsObject(D[u]) <=> IsObject(u)
           /\ IsArray(D[u]) <=> IsArray(u)
           /\ (IsString(D[u]) \/ IsString(u) \/ IsScalar(D[u]) \/ IsScalar(u)
                  \/ DOMAIN D[u] = {"num"} \/ DOMAIN u = {"num"}) => D[u] = u
           /\ D[u] = False <=> u = False
           /\ IsArray(u) => /\ DOMAIN D[u].items = DOMAIN u.items
                            /\ \A i \in DOMAIN u.items :
                                   u.items[i] \in J /\ D[u].items[i] = D[u.items[i]]
  <1>1. IsArray(u) => /\ IsArray(D[u]) /\ DOMAIN D[u].items = DOMAIN u.items
                      /\ \A i \in DOMAIN u.items :
                             u.items[i] \in J /\ D[u].items[i] = D[u.items[i]]
    <2> SUFFICES ASSUME IsArray(u)
                 PROVE  /\ IsArray(D[u]) /\ DOMAIN D[u].items = DOMAIN u.items
                        /\ \A i \in DOMAIN u.items :
                               u.items[i] \in J /\ D[u].items[i] = D[u.items[i]]
      OBVIOUS
    <2> DEFINE s == [i \in DOMAIN u.items |-> D[u.items[i]]]
    <2>1. D[u] = Array(s)
      BY DEF Walks
    <2>2. u.items \in Seq(J)
      BY JsonParts
    <2>3. \A i \in DOMAIN u.items : u.items[i] \in J
      BY <2>2
    <2>4. DOMAIN s = DOMAIN u.items /\ \A i \in DOMAIN u.items : s[i] = D[u.items[i]]
      OBVIOUS
    <2> HIDE DEF s
    <2> QED BY <2>1, <2>3, <2>4, KindsOfJson
  <1>2. /\ IsObject(u) => IsObject(D[u])
        /\ IsScalar(u) => D[u] = u
    BY DEF Walks
  <1>3. \A v : /\ IsObject(v) => ~ IsArray(v) /\ ~ IsString(v) /\ DOMAIN v # {"num"} /\ v # False
               /\ IsArray(v) => ~ IsObject(v) /\ ~ IsString(v) /\ DOMAIN v # {"num"} /\ v # False
               /\ IsScalar(v) <=> ~ IsObject(v) /\ ~ IsArray(v)
    BY DEF IsObject, IsArray, IsString, IsScalar, False
  <1> QED BY <1>1, <1>2, <1>3

\* A walk leaves an array of strings as it was.
LEMMA StringsWalk ==
    ASSUME NEW J, Json(J), NEW D, Walks(D, J), NEW u \in J
    PROVE  /\ IsStrings(D[u]) <=> IsStrings(u)
           /\ IsStrings(u) => /\ DOMAIN D[u].items = DOMAIN u.items
                              /\ \A i \in DOMAIN u.items : D[u].items[i] = u.items[i]
  <1>1. CASE ~ IsArray(u)
    BY <1>1, WalkKinds DEF IsStrings
  <1>2. CASE IsArray(u)
    <2>1. /\ IsArray(D[u]) /\ DOMAIN D[u].items = DOMAIN u.items
          /\ \A i \in DOMAIN u.items : u.items[i] \in J /\ D[u].items[i] = D[u.items[i]]
      BY <1>2, WalkKinds
    <2>2. \A i \in DOMAIN u.items :
              (IsString(D[u.items[i]]) \/ IsString(u.items[i])) => D[u.items[i]] = u.items[i]
      BY <2>1, WalkKinds
    <2> QED BY <1>2, <2>1, <2>2 DEF IsStrings
  <1> QED BY <1>1, <1>2

\* A walk leaves an array of scalars as it was.
LEMMA ScalarsWalk ==
    ASSUME NEW J, Json(J), NEW D, Walks(D, J), NEW u \in J, IsArray(u),
           \A i \in DOMAIN u.items : IsScalar(u.items[i])
    PROVE  /\ DOMAIN D[u].items = DOMAIN u.items
           /\ \A i \in DOMAIN u.items : D[u].items[i] = u.items[i]
  <1>1. /\ DOMAIN D[u].items = DOMAIN u.items
        /\ \A i \in DOMAIN u.items : u.items[i] \in J /\ D[u].items[i] = D[u.items[i]]
    BY WalkKinds
  <1>2. \A i \in DOMAIN u.items : D[u.items[i]] = u.items[i]
    BY <1>1, WalkKinds
  <1> QED BY <1>1, <1>2



\* E the other way round.
Back(E) == {<<p[2], p[1]>> : p \in E}

\* f is a schema, and g is what the walk D makes of it.
Walked(f, g, J, D, N, E) ==
    /\ Json(J) /\ Walks(D, J)
    /\ \A v \in N : Parts(v) \subseteq N
    /\ \A u \in J : D[u] \in N => <<u, D[u]>> \in E
    /\ Object(g) \in N /\ DOMAIN g = DOMAIN f
    /\ \A k \in DOMAIN f : f[k] \in J /\ g[k] = D[f[k]]
    /\ (Has(f, "properties") /\ IsObject(f["properties"])) =>
           LET h == f["properties"].fields
           IN  D[f["properties"]] = Object([p \in DOMAIN h |-> D[h[p]]])

\* The parts of an object and of what it was walked to belong together.
LEMMA WalkedParts ==
    ASSUME NEW f, NEW g, NEW J, NEW D, NEW N, NEW E, Walked(f, g, J, D, N, E)
    PROVE  /\ \A k \in DOMAIN f : g[k] \in N /\ <<f[k], g[k]>> \in E
           /\ \A k \in DOMAIN f : IsArray(f[k]) =>
                  /\ IsArray(g[k]) /\ DOMAIN g[k].items = DOMAIN f[k].items
                  /\ \A i \in DOMAIN f[k].items : <<f[k].items[i], g[k].items[i]>> \in E
           /\ (Has(f, "properties") /\ IsObject(f["properties"])) =>
                  LET h == f["properties"].fields
                      q == g["properties"].fields
                  IN  /\ IsObject(g["properties"]) /\ DOMAIN q = DOMAIN h
                      /\ \A p \in DOMAIN h :
                             /\ <<h[p], q[p]>> \in E
                             /\ IsObject(h[p]) <=> IsObject(q[p])
  <1>0. /\ Json(J) /\ Walks(D, J)
        /\ \A v \in N : Parts(v) \subseteq N
        /\ \A u \in J : D[u] \in N => <<u, D[u]>> \in E
        /\ Object(g) \in N /\ DOMAIN g = DOMAIN f
        /\ \A k \in DOMAIN f : f[k] \in J /\ g[k] = D[f[k]]
    BY DEF Walked
  <1>1. \A k \in DOMAIN f : g[k] \in N /\ <<f[k], g[k]>> \in E
    <2>1. \A k \in DOMAIN g : g[k] \in N
      BY <1>0, PartsOfObject
    <2> QED BY <1>0, <2>1
  <1>2. ASSUME NEW k \in DOMAIN f, IsArray(f[k])
        PROVE  /\ IsArray(g[k]) /\ DOMAIN g[k].items = DOMAIN f[k].items
               /\ \A i \in DOMAIN f[k].items : <<f[k].items[i], g[k].items[i]>> \in E
    <2> DEFINE v == f[k]
               w == g[k]
    <2>1. v \in J /\ w = D[v] /\ w \in N /\ IsArray(v)
      BY <1>0, <1>1, <1>2
    <2> HIDE DEF v, w
    <2>2. /\ IsArray(w) /\ DOMAIN w.items = DOMAIN v.items
          /\ \A i \in DOMAIN v.items : v.items[i] \in J /\ w.items[i] = D[v.items[i]]
      BY <1>0, <2>1, WalkKinds
    <2>3. \A i \in DOMAIN w.items : w.items[i] \in N
      BY <1>0, <2>1, <2>2, PartsOf
    <2>4. \A i \in DOMAIN v.items : <<v.items[i], w.items[i]>> \in E
      BY <1>0, <2>2, <2>3
    <2> QED BY <2>2, <2>4 DEF v, w
  <1>3. ASSUME Has(f, "properties"), IsObject(f["properties"])
        PROVE  LET h == f["properties"].fields
                   q == g["properties"].fields
               IN  /\ IsObject(g["properties"]) /\ DOMAIN q = DOMAIN h
                   /\ \A p \in DOMAIN h :
                          /\ <<h[p], q[p]>> \in E
                          /\ IsObject(h[p]) <=> IsObject(q[p])
    <2> DEFINE v == f["properties"]
               w == g["properties"]
               h == v.fields
               s == [p \in DOMAIN h |-> D[h[p]]]
               q == w.fields
    <2>1. v \in J /\ w = D[v] /\ w \in N /\ IsObject(v)
      BY <1>0, <1>1, <1>3 DEF Has
    <2>2. D[v] = Object(s)
      BY <1>3 DEF Walked
    <2> HIDE DEF v, w
    <2>3. \A p \in DOMAIN h : h[p] \in J
      BY <1>0, <2>1, JsonParts
    <2>4. DOMAIN s = DOMAIN h /\ \A p \in DOMAIN h : s[p] = D[h[p]]
      OBVIOUS
    <2> HIDE DEF h, s
    <2>5. IsObject(w) /\ q = s
      BY <2>1, <2>2, KindsOfJson
    <2>6. \A p \in DOMAIN q : q[p] \in N
      BY <1>0, <2>1, <2>5, PartsOf
    <2>7. \A p \in DOMAIN h : <<h[p], q[p]>> \in E
      BY <1>0, <2>3, <2>4, <2>5, <2>6
    <2>8. \A p \in DOMAIN h : IsObject(h[p]) <=> IsObject(q[p])
      BY <1>0, <2>3, <2>4, <2>5, WalkKinds
    <2>9. /\ IsObject(w) /\ DOMAIN q = DOMAIN h
          /\ \A p \in DOMAIN h : <<h[p], q[p]>> \in E /\ (IsObject(h[p]) <=> IsObject(q[p]))
      BY <2>4, <2>5, <2>7, <2>8
    <2> QED BY <2>9 DEF v, w, h, q
  <1> QED BY <1>1, <1>2, <1>3

\* A walk neither makes nor breaks the kinds of the keywords' values.
LEMMA WalkedSchema ==
    ASSUME NEW f, NEW g, NEW J, NEW D, NEW N, NEW E, Walked(f, g, J, D, N, E)
    PROVE  IsSchema(Object(f)) <=> IsSchema(Object(g))
  <1>0. /\ Json(J) /\ Walks(D, J) /\ DOMAIN g = DOMAIN f
        /\ \A k \in DOMAIN f : f[k] \in J /\ g[k] = D[f[k]]
    BY DEF Walked
  <1>1. \A k : Has(g, k) <=> Has(f, k)
    BY <1>0 DEF Has
  <1>2. \A k \in DOMAIN f : /\ IsString(g[k]) <=> IsString(f[k])
                            /\ IsArray(g[k]) <=> IsArray(f[k])
                            /\ IsObject(g[k]) <=> IsObject(f[k])
                            /\ IsStrings(g[k]) <=> IsStrings(f[k])
                            /\ DOMAIN g[k] = {"num"} <=> DOMAIN f[k] = {"num"}
    <2> TAKE k \in DOMAIN f
    <2> DEFINE u == f[k]
               w == g[k]
    <2>1. u \in J /\ w = D[u]
      BY <1>0
    <2> HIDE DEF u, w
    <2>2. /\ IsString(w) <=> IsString(u)
          /\ DOMAIN w = {"num"} <=> DOMAIN u = {"num"}
      <3>1. (IsString(w) \/ IsString(u) \/ DOMAIN w = {"num"} \/ DOMAIN u = {"num"}) => w = u
        BY <1>0, <2>1, WalkKinds
      <3> QED BY <3>1
    <2>3. (IsArray(w) <=> IsArray(u)) /\ (IsObject(w) <=> IsObject(u))
      BY <1>0, <2>1, WalkKinds
    <2>4. IsStrings(w) <=> IsStrings(u)
      BY <1>0, <2>1, StringsWalk
    <2> QED BY <2>2, <2>3, <2>4 DEF u, w
  <1> DEFINE Kinds(e) ==
          /\ Has(e, "type") => IsString(e["type"]) \/ IsStrings(e["type"])
          /\ Has(e, "$ref") => IsString(e["$ref"])
          /\ \A key \in Combinators \cup {"enum"} : Has(e, key) => IsArray(e[key])
          /\ Has(e, "minItems") => DOMAIN e["minItems"] = {"num"}
          /\ Has(e, "required") => IsStrings(e["required"])
             Properties(e) ==
                 Has(e, "properties") =>
                     /\ IsObject(e["properties"])
                     /\ \A p \in DOMAIN e["properties"].fields : IsObject(e["properties"].fields[p])
  <1>3. \A e : IsSchema(Object(e)) <=> Kinds(e) /\ Properties(e)
    <2> TAKE e
    <2>1. IsObject(Object(e)) /\ Object(e).fields = e
      BY KindsOfJson
    <2> QED BY <2>1 DEF IsSchema
  <1>4. Kinds(f) <=> Kinds(g)
    BY <1>1, <1>2 DEF Has
  <1>5. (Has(f, "properties") => IsObject(f["properties"])) => (Properties(f) <=> Properties(g))
    <2> SUFFICES ASSUME Has(f, "properties"), IsObject(f["properties"])
                 PROVE  Properties(f) <=> Properties(g)
      BY <1>1
    <2> DEFINE h == f["properties"].fields
               q == g["properties"].fields
    <2>1. /\ IsObject(g["properties"]) /\ DOMAIN q = DOMAIN h
          /\ \A p \in DOMAIN h : IsObject(h[p]) <=> IsObject(q[p])
      BY WalkedParts
    <2> QED BY <1>1, <2>1
  <1>6. (Properties(f) \/ Properties(g)) => (Has(f, "properties") => IsObject(f["properties"]))
    BY <1>1, <1>2 DEF Has
  <1> HIDE DEF Kinds, Properties
  <1> QED BY <1>3, <1>4, <1>5, <1>6


\* An object whose parts are walked says what it said, of the parts walked.
LEMMA WalkedCarries ==
    ASSUME NEW f, NEW g, NEW J, NEW D, NEW N, NEW E, Walked(f, g, J, D, N, E),
           IsSchema(Object(f)), PlainConstants(f)
    PROVE  Carried(f, g, E) /\ Carried(g, f, Back(E))
  <1>0. /\ Json(J) /\ Walks(D, J) /\ DOMAIN g = DOMAIN f
        /\ \A k \in DOMAIN f : f[k] \in J /\ g[k] = D[f[k]]
        /\ \A k : Has(g, k) <=> Has(f, k)
    BY DEF Walked, Has
  <1>1. /\ Has(f, "type") => IsString(f["type"]) \/ IsStrings(f["type"])
        /\ Has(f, "$ref") => IsString(f["$ref"])
        /\ \A key \in Combinators \cup {"enum"} : Has(f, key) => IsArray(f[key])
        /\ Has(f, "minItems") => DOMAIN f["minItems"] = {"num"}
        /\ Has(f, "required") => IsStrings(f["required"])
        /\ Has(f, "properties") => IsObject(f["properties"])
    BY KindsOfJson DEF IsSchema
  <1>2. \A k \in DOMAIN f :
            /\ <<f[k], g[k]>> \in E
            /\ IsArray(f[k]) =>
                   /\ IsArray(g[k]) /\ DOMAIN g[k].items = DOMAIN f[k].items
                   /\ \A i \in DOMAIN f[k].items : <<f[k].items[i], g[k].items[i]>> \in E
    BY WalkedParts
  <1>3. Has(f, "properties") =>
            LET h == f["properties"].fields
                q == g["properties"].fields
            IN  DOMAIN q = DOMAIN h /\ \A p \in DOMAIN h : <<h[p], q[p]>> \in E
    BY <1>1, WalkedParts
  <1>4. \A s, t : <<s, t>> \in E => <<t, s>> \in Back(E)
    BY DEF Back
  <1>5. \A k \in DOMAIN f : IsStrings(f[k]) =>
            /\ IsArray(f[k]) /\ IsArray(g[k]) /\ DOMAIN g[k].items = DOMAIN f[k].items
            /\ \A i \in DOMAIN f[k].items : g[k].items[i] = f[k].items[i]
    <2>1. \A k \in DOMAIN f : IsStrings(f[k]) =>
              /\ DOMAIN g[k].items = DOMAIN f[k].items
              /\ \A i \in DOMAIN f[k].items : g[k].items[i] = f[k].items[i]
      BY <1>0, StringsWalk
    <2> QED BY <1>2, <2>1 DEF IsStrings
  <1>6. \A k \in DOMAIN f : (IsString(f[k]) \/ IsScalar(f[k]) \/ DOMAIN f[k] = {"num"}) => g[k] = f[k]
    BY <1>0, WalkKinds
  <1>7. Has(f, "type") =>
            /\ IsArray(g.type) <=> IsArray(f.type)
            /\ ~ IsArray(f.type) => g.type = f.type
            /\ IsArray(f.type) => \A x : InArray(x, f, "type") <=> InArray(x, g, "type")
    <2>1. CASE IsStrings(f["type"])
      BY <1>5, <2>1 DEF Has, InArray
    <2>2. CASE IsString(f["type"])
      <3>1. ~ IsArray(f["type"])
        BY <2>2 DEF IsString, IsArray
      <3> QED BY <1>6, <2>2, <3>1 DEF Has
    <2> QED BY <1>1, <2>1, <2>2
  <1>8. Has(f, "const") => g.const = f.const
    BY <1>6 DEF PlainConstants, Has
  <1>9. Has(f, "enum") => \A x : InArray(x, f, "enum") <=> InArray(x, g, "enum")
    <2> SUFFICES ASSUME Has(f, "enum")
                 PROVE  \A x : InArray(x, f, "enum") <=> InArray(x, g, "enum")
      OBVIOUS
    <2>1. IsArray(f["enum"]) /\ \A i \in DOMAIN f["enum"].items : IsScalar(f["enum"].items[i])
      BY <1>1 DEF PlainConstants, HasArray
    <2>2. /\ DOMAIN g["enum"].items = DOMAIN f["enum"].items
          /\ \A i \in DOMAIN f["enum"].items : g["enum"].items[i] = f["enum"].items[i]
      BY <1>0, <2>1, ScalarsWalk DEF Has
    <2> QED BY <2>2 DEF InArray
  <1>10. Has(f, "$ref") => g["$ref"] = f["$ref"]
    BY <1>1, <1>6 DEF Has
  <1>11. \A key \in Combinators :
            Has(f, key) =>
                /\ DOMAIN g[key].items = DOMAIN f[key].items
                /\ \A i \in DOMAIN f[key].items : <<f[key].items[i], g[key].items[i]>> \in E
    BY <1>1, <1>2 DEF Has
  <1>12. Has(f, "minItems") => g.minItems = f.minItems
    BY <1>1, <1>6 DEF Has
  <1>13. Has(f, "items") => <<f.items, g.items>> \in E
    BY <1>2 DEF Has
  <1>14. Has(f, "additionalProperties") =>
             /\ g.additionalProperties = False <=> f.additionalProperties = False
             /\ IsObject(g.additionalProperties) <=> IsObject(f.additionalProperties)
             /\ <<f.additionalProperties, g.additionalProperties>> \in E
    BY <1>0, <1>2, WalkKinds DEF Has
  <1>15. Has(f, "required") =>
             /\ DOMAIN g.required.items = DOMAIN f.required.items
             /\ \A i \in DOMAIN f.required.items : g.required.items[i] = f.required.items[i]
    BY <1>1, <1>5 DEF Has
  <1>16. Carried(f, g, E)
    BY <1>0, <1>3, <1>7, <1>8, <1>9, <1>10, <1>11, <1>12, <1>13, <1>14, <1>15 DEF Carried
  <1>17. Carried(g, f, Back(E))
    <2>1. \A key \in Combinators :
              Has(g, key) =>
                  /\ DOMAIN f[key].items = DOMAIN g[key].items
                  /\ \A i \in DOMAIN g[key].items : <<g[key].items[i], f[key].items[i]>> \in Back(E)
      BY <1>0, <1>4, <1>11
    <2>2. Has(g, "properties") =>
              /\ DOMAIN f.properties.fields = DOMAIN g.properties.fields
              /\ \A p \in DOMAIN g.properties.fields :
                     <<g.properties.fields[p], f.properties.fields[p]>> \in Back(E)
      BY <1>0, <1>3, <1>4
    <2>3. Has(g, "items") => <<g.items, f.items>> \in Back(E)
      BY <1>0, <1>4, <1>13
    <2>4. Has(g, "additionalProperties") =>
              <<g.additionalProperties, f.additionalProperties>> \in Back(E)
      BY <1>0, <1>4, <1>14
    <2> HIDE DEF Back
    <2> QED BY <1>0, <1>7, <1>8, <1>9, <1>10, <1>12, <1>14, <1>15, <2>1, <2>2, <2>3, <2>4 DEF Carried
  <1> QED BY <1>16, <1>17


-----------------------------------------------------------------------------
\* Lifting

\* What lifting makes of the schemas of doc that are still there.
LiftedTo(doc) ==
    {p \in LiftPairs(doc) : p[2] \in Nodes(Object(LiftInlineOneOrArrayRefs(doc)))}

\* The lifted document: what was there, walked, and the schemas of the patterns.
LEMMA LiftedNamesOf ==
    ASSUME NEW doc
    PROVE  LET new  == DOMAIN LiftedSchemas(doc)
               doc1 == LiftInlineOneOrArrayRefs(doc)
           IN  /\ \A l \in new : \E x \in Inner(doc) :
                      l = LiftedName(x) /\ LiftedSchemas(doc)[l] = OneOrArray(x)
               /\ \A x \in Inner(doc) : LiftedName(x) \in new
               /\ DOMAIN doc1 = DOMAIN doc \cup new
               /\ \A name \in DOMAIN doc : doc1[name] = LiftDescend(doc[name])
               /\ \A l \in new \ DOMAIN doc : doc1[l] = LiftedSchemas(doc)[l]
               /\ doc1 = [name \in DOMAIN doc1 |-> doc1[name]]
BY LiftedNames

\* It is closed under parts, and holds what each schema was walked to.
LEMMA LiftedDocument ==
    ASSUME NEW doc \in Specs, NEW doc1, doc1 = LiftInlineOneOrArrayRefs(doc)
    PROVE  /\ \A v \in Nodes(Object(doc1)) : Parts(v) \subseteq Nodes(Object(doc1))
           /\ \A name \in DOMAIN doc1 : doc1[name] \in Nodes(Object(doc1))
           /\ \A name \in DOMAIN doc : /\ name \in DOMAIN doc1
                                       /\ <<doc[name], doc1[name]>> \in LiftedTo(doc)
  <1>0. PICK new : new = DOMAIN LiftedSchemas(doc)
    OBVIOUS
  <1> DEFINE N == Nodes(Object(doc1))
  <1>1. \A v \in N : Parts(v) \subseteq N
    BY LiftedDocumentNests, NodesClosed DEF Nests
  <1>2. \A name \in DOMAIN doc1 : doc1[name] \in N
    <2>1. Object(doc1) \in N
      BY NodesStart
    <2> QED BY <1>1, <2>1, PartsOfObject
  <1>3. /\ \A l \in new : \E x \in Inner(doc) :
               l = LiftedName(x) /\ LiftedSchemas(doc)[l] = OneOrArray(x)
        /\ \A x \in Inner(doc) : LiftedName(x) \in new
        /\ DOMAIN doc1 = DOMAIN doc \cup new
        /\ \A name \in DOMAIN doc : doc1[name] = LiftDescend(doc[name])
        /\ \A l \in new \ DOMAIN doc : doc1[l] = LiftedSchemas(doc)[l]
        /\ doc1 = [name \in DOMAIN doc1 |-> doc1[name]]
    BY <1>0, LiftedNamesOf
  <1>4. ASSUME NEW name \in DOMAIN doc
        PROVE  name \in DOMAIN doc1 /\ <<doc[name], doc1[name]>> \in LiftedTo(doc)
    <2> DEFINE J == Nodes(doc[name])
               d == LiftWalk(doc[name])
    <2>1. /\ doc[name] \in J /\ LiftDescend(doc[name]) = d[doc[name]]
          /\ \A u \in J : <<u, d[u]>> \in LiftPairs(doc)
      BY LiftWalks
    <2> HIDE DEF J, d
    <2>2. name \in DOMAIN doc1 /\ <<doc[name], doc1[name]>> \in LiftPairs(doc)
      BY <1>3, <2>1
    <2> QED BY <1>2, <2>2 DEF LiftedTo
  <1> QED BY <1>1, <1>2, <1>4

\* The walk that a pair comes from.
LEMMA LiftedToWalk ==
    ASSUME NEW doc \in Specs, NEW doc1, doc1 = LiftInlineOneOrArrayRefs(doc),
           NEW s, NEW t, <<s, t>> \in LiftedTo(doc)
    PROVE  /\ s \in Nodes(Object(doc)) /\ t \in Nodes(Object(doc1))
           /\ \E J, d : /\ Json(J) /\ Lifts(d, J) /\ s \in J /\ t = d[s]
                        /\ \A u \in J : d[u] \in Nodes(Object(doc1)) => <<u, d[u]>> \in LiftedTo(doc)
                        /\ \A u \in J : (IsObject(u) /\ IsOneOrArray(u.fields)) =>
                                            InnerRef(u.fields) \in Inner(doc)
                        /\ J \subseteq Nodes(Object(doc))
  <1> DEFINE p == <<s, t>>
  <1>1. p \in LiftPairs(doc) /\ p[2] \in Nodes(Object(doc1)) /\ p[1] = s /\ p[2] = t
    BY DEF LiftedTo
  <1> HIDE DEF p
  <1>2. PICK name \in DOMAIN doc :
            p[1] \in Nodes(doc[name]) /\ p[2] = LiftWalk(doc[name])[p[1]]
    BY <1>1, LiftPairWalk
  <1> DEFINE J == Nodes(doc[name])
             d == LiftWalk(doc[name])
  <1>3. /\ J \subseteq Nodes(Object(doc)) /\ Json(J) /\ Lifts(d, J)
        /\ \A u \in J : <<u, d[u]>> \in LiftPairs(doc)
        /\ \A u \in J : (IsObject(u) /\ IsOneOrArray(u.fields)) =>
                            InnerRef(u.fields) \in Inner(doc)
    BY LiftWalks
  <1>4. s \in J /\ t = d[s]
    BY <1>1, <1>2
  <1> HIDE DEF J, d
  <1>5. \A u \in J : d[u] \in Nodes(Object(doc1)) => <<u, d[u]>> \in LiftedTo(doc)
    BY <1>3 DEF LiftedTo
  <1> QED BY <1>1, <1>3, <1>4, <1>5

\* LiftedTo consists of pairs.
LEMMA LiftedToPairs ==
    ASSUME NEW doc, NEW p \in LiftedTo(doc)
    PROVE  \E s, t : p = <<s, t>>
  <1>1. p \in LiftPairs(doc)
    BY DEF LiftedTo
  <1> QED BY <1>1, LiftPairWalk

\* lift_descend is a walk.
LEMMA LiftsWalks ==
    ASSUME NEW J, NEW d, Lifts(d, J)
    PROVE  Walks(d, J)
  <1>1. \A u \in J : IsObject(u) => IsObject(d[u])
    BY LiftedKindsStay
  <1>2. \A u \in J : IsArray(u) => d[u] = Array([i \in DOMAIN u.items |-> d[u.items[i]]])
    BY LiftedArrays
  <1>3. \A u \in J : IsScalar(u) => d[u] = u
    BY LiftedScalars DEF IsScalar
  <1> QED BY <1>1, <1>2, <1>3 DEF Walks

\* A pattern becomes a reference to a schema that is the pattern.
LEMMA LiftedPattern ==
    ASSUME NEW doc \in Specs, NEW doc1, doc1 = LiftInlineOneOrArrayRefs(doc),
           DOMAIN LiftedSchemas(doc) \cap DOMAIN doc = {},
           NEW s, NEW t, <<s, t>> \in LiftedTo(doc), IsObject(s), IsOneOrArray(s.fields)
    PROVE  \E r, l : /\ s = OneOrArray(r) /\ t = Ref(l)
                     /\ l \in DOMAIN doc1 /\ doc1[l] = s
                     /\ <<Ref(r), Ref(r)>> \in LiftedTo(doc)
                     /\ <<Object(ArrayOf(r)), Object(ArrayOf(r))>> \in LiftedTo(doc)
  <1>0. PICK new : new = DOMAIN LiftedSchemas(doc)
    OBVIOUS
  <1> DEFINE N   == Nodes(Object(doc1))
             r   == InnerRef(s.fields)
             l   == LiftedName(r)
  <1>1. PICK J, d : /\ Json(J) /\ Lifts(d, J) /\ s \in J /\ t = d[s]
                    /\ \A u \in J : d[u] \in N => <<u, d[u]>> \in LiftedTo(doc)
                    /\ \A u \in J : (IsObject(u) /\ IsOneOrArray(u.fields)) =>
                                        InnerRef(u.fields) \in Inner(doc)
    BY LiftedToWalk
  <1>2. s = OneOrArray(r) /\ t = Ref(l) /\ r \in Inner(doc)
    <2>1. s = Object(s.fields)
      BY <1>1, JsonParts
    <2> QED BY <1>1, <2>1, LiftsOnlyThePattern, LiftedPatterns
  <1>3. /\ \A k \in new : \E x \in Inner(doc) :
               k = LiftedName(x) /\ LiftedSchemas(doc)[k] = OneOrArray(x)
        /\ \A x \in Inner(doc) : LiftedName(x) \in new
        /\ DOMAIN doc1 = DOMAIN doc \cup new
        /\ \A name \in DOMAIN doc : doc1[name] = LiftDescend(doc[name])
        /\ \A k \in new \ DOMAIN doc : doc1[k] = LiftedSchemas(doc)[k]
        /\ doc1 = [name \in DOMAIN doc1 |-> doc1[name]]
    BY <1>0, LiftedNamesOf
  <1> HIDE DEF r
  <1>4. l \in DOMAIN doc1 /\ doc1[l] = s
    <2>1. l \in new /\ l \notin DOMAIN doc
      BY <1>0, <1>2, <1>3
    <2>2. PICK x \in Inner(doc) : l = LiftedName(x) /\ LiftedSchemas(doc)[l] = OneOrArray(x)
      BY <1>3, <2>1
    <2>3. x = r
      BY <1>2, <2>2, EndingAssumption
    <2> QED BY <1>2, <1>3, <2>1, <2>2, <2>3
  <1>5. /\ \A v \in N : Parts(v) \subseteq N
        /\ s \in N
    BY <1>4, LiftedDocument
  <1> HIDE DEF N
  <1> DEFINE pair == <<Ref(r), Object(ArrayOf(r))>>
             alts == Array(pair)
  <1>6. /\ Parts(OneOrArray(r)) = {alts}
        /\ Parts(alts) = {Ref(r), Object(ArrayOf(r))}
        /\ Parts(Ref(r)) = {String(r)}
        /\ Parts(Object(ArrayOf(r))) = {String("array"), Ref(r)}
    <2>1. DOMAIN Field("anyOf", alts) = {"anyOf"} /\ Field("anyOf", alts)["anyOf"] = alts
      BY DEF Field
    <2>2. DOMAIN pair = {1, 2} /\ pair[1] = Ref(r) /\ pair[2] = Object(ArrayOf(r))
      OBVIOUS
    <2>3. DOMAIN Field("$ref", String(r)) = {"$ref"} /\ Field("$ref", String(r))["$ref"] = String(r)
      BY DEF Field
    <2>4. /\ DOMAIN ArrayOf(r) = {"type", "items"}
          /\ ArrayOf(r)["type"] = String("array") /\ ArrayOf(r)["items"] = Ref(r)
      BY DEF ArrayOf
    <2>5. Parts(OneOrArray(r)) = {alts}
      <3>1. OneOrArray(r) = Object(Field("anyOf", alts))
        BY DEF OneOrArray
      <3> HIDE DEF alts
      <3> QED BY <2>1, <3>1, PartsOfObject
    <2>6. Parts(alts) = {Ref(r), Object(ArrayOf(r))}
      <3> HIDE DEF pair
      <3> QED BY <2>2, PartsOfArray
    <2>7. Parts(Ref(r)) = {String(r)}
      BY <2>3, PartsOfObject DEF Ref
    <2>8. Parts(Object(ArrayOf(r))) = {String("array"), Ref(r)}
      BY <2>4, PartsOfObject
    <2> QED BY <2>5, <2>6, <2>7, <2>8
  <1> HIDE DEF alts
  <1>7. /\ Ref(r) \in N /\ Object(ArrayOf(r)) \in N
        /\ Ref(r) \in J /\ Object(ArrayOf(r)) \in J /\ String("array") \in J /\ String(r) \in J
    <2>1. \A v \in J : Parts(v) \subseteq J
      BY <1>1, JsonInParts DEF Json
    <2> QED BY <1>1, <1>2, <1>5, <1>6, <2>1
  <1>8. d[Ref(r)] = Ref(r) /\ d[Object(ArrayOf(r))] = Object(ArrayOf(r))
    <2>1. ASSUME NEW f, Object(f) \in J, "anyOf" \notin DOMAIN f,
                 \A k \in DOMAIN f : d[f[k]] = f[k], f = [k \in DOMAIN f |-> f[k]]
          PROVE  d[Object(f)] = Object(f)
      <3>1. IsObject(Object(f)) /\ Object(f).fields = f
        BY KindsOfJson
      <3>2. ~ IsOneOrArray(f)
        BY <2>1 DEF IsOneOrArray
      <3>3. d[Object(f)] = Object([k \in DOMAIN f |-> d[f[k]]])
        BY <1>1, <2>1, <3>1, <3>2, LiftedObjects
      <3>4. [k \in DOMAIN f |-> d[f[k]]] = f
        BY <2>1
      <3> QED BY <3>3, <3>4
    <2>2. d[String(r)] = String(r) /\ d[String("array")] = String("array")
      BY <1>1, <1>7, KindsOfJson, LiftedScalars
    <2>3. d[Ref(r)] = Ref(r)
      <3> DEFINE f == Field("$ref", String(r))
      <3>1. DOMAIN f = {"$ref"} /\ f["$ref"] = String(r) /\ f = [k \in DOMAIN f |-> f[k]]
        BY DEF Field
      <3>2. Ref(r) = Object(f)
        BY DEF Ref
      <3> HIDE DEF f
      <3> QED BY <1>7, <2>1, <2>2, <3>1, <3>2
    <2>4. d[Object(ArrayOf(r))] = Object(ArrayOf(r))
      <3> DEFINE f == ArrayOf(r)
      <3>1. /\ DOMAIN f = {"type", "items"} /\ f["type"] = String("array") /\ f["items"] = Ref(r)
            /\ f = [k \in DOMAIN f |-> f[k]]
        BY DEF ArrayOf
      <3> HIDE DEF f
      <3>2. d[Object(f)] = Object(f)
        BY <1>7, <2>1, <2>2, <2>3, <3>1 DEF f
      <3> QED BY <3>2 DEF f
    <2> QED BY <2>3, <2>4
  <1>9. /\ <<Ref(r), Ref(r)>> \in LiftedTo(doc)
        /\ <<Object(ArrayOf(r)), Object(ArrayOf(r))>> \in LiftedTo(doc)
    <2>1. d[Ref(r)] \in N /\ d[Object(ArrayOf(r))] \in N
      BY <1>7, <1>8
    <2> QED BY <1>1, <1>7, <1>8, <2>1
  <1> QED BY <1>2, <1>4, <1>9


\* Another object is a schema as before, with its subschemas lifted.
LEMMA LiftedOther ==
    ASSUME NEW doc \in Specs, NEW s, NEW t, <<s, t>> \in LiftedTo(doc),
           ~ (IsObject(s) /\ IsOneOrArray(s.fields))
    PROVE  /\ IsSchema(s) <=> IsSchema(t)
           /\ IsSchema(s) => /\ Carried(s.fields, t.fields, LiftedTo(doc))
                             /\ Carried(t.fields, s.fields, Back(LiftedTo(doc)))
  <1> DEFINE doc1 == LiftInlineOneOrArrayRefs(doc)
             N    == Nodes(Object(doc1))
             E    == LiftedTo(doc)
             f    == s.fields
             g    == t.fields
  <1>1. PICK J, d : /\ Json(J) /\ Lifts(d, J) /\ s \in J /\ t = d[s]
                    /\ \A u \in J : d[u] \in N => <<u, d[u]>> \in E
                    /\ J \subseteq Nodes(Object(doc))
    BY LiftedToWalk
  <1>2. t \in N /\ \A v \in N : Parts(v) \subseteq N
    BY LiftedToWalk, LiftedDocument
  <1>3. Walks(d, J)
    BY <1>1, LiftsWalks
  <1> HIDE DEF N, E, f, g, doc1
  <1>4. IsObject(t) <=> IsObject(s)
    BY <1>1, <1>3, WalkKinds
  <1>5. CASE ~ IsObject(s)
    BY <1>4, <1>5 DEF IsSchema
  <1>6. CASE IsObject(s)
    <2>1. s = Object(f) /\ \A k \in DOMAIN f : f[k] \in J
      BY <1>1, <1>6, JsonParts DEF f
    <2>2. /\ t = Object(g) /\ DOMAIN g = DOMAIN f
          /\ \A k \in DOMAIN f : g[k] = d[f[k]]
      <3> DEFINE h == [k \in DOMAIN f |-> d[f[k]]]
      <3>1. t = Object(h)
        BY <1>1, <1>6, LiftedObjects DEF f
      <3>2. DOMAIN h = DOMAIN f /\ \A k \in DOMAIN f : h[k] = d[f[k]]
        OBVIOUS
      <3> HIDE DEF h
      <3>3. g = h
        BY <3>1, KindsOfJson DEF g
      <3> QED BY <3>1, <3>2, <3>3
    <2>3. CASE Has(f, "properties") /\ IsObject(f["properties"]) /\ IsOneOrArray(f["properties"].fields)
      <3> DEFINE v == f["properties"]
      <3>1. ~ IsSchema(s)
        <4>1. "anyOf" \in DOMAIN v.fields /\ ~ IsObject(v.fields["anyOf"])
          BY <2>3 DEF IsOneOrArray, IsObject, IsArray
        <4>2. s.fields = f
          BY DEF f
        <4> QED BY <2>3, <4>1, <4>2 DEF IsSchema
      <3>2. ~ IsSchema(t)
        <4>1. v \in J /\ g["properties"] = d[v]
          BY <2>1, <2>2, <2>3 DEF Has
        <4>2. PICK l : d[v] = Ref(l)
          BY <1>1, <2>3, <4>1, LiftedPatterns
        <4>3. "$ref" \in DOMAIN Ref(l).fields /\ ~ IsObject(Ref(l).fields["$ref"])
          <5>1. DOMAIN Field("$ref", String(l)) = {"$ref"} /\ Field("$ref", String(l))["$ref"] = String(l)
            BY DEF Field
          <5> QED BY <5>1, KindsOfJson DEF Ref
        <4>4. t.fields = g /\ Has(g, "properties")
          BY <2>2, <2>3 DEF g, Has
        <4> HIDE DEF v
        <4> QED BY <4>1, <4>2, <4>3, <4>4 DEF IsSchema
      <3> QED BY <3>1, <3>2
    <2>4. CASE ~ (Has(f, "properties") /\ IsObject(f["properties"]) /\ IsOneOrArray(f["properties"].fields))
      <3>1. ASSUME Has(f, "properties"), IsObject(f["properties"])
            PROVE  LET h == f["properties"].fields
                   IN  d[f["properties"]] = Object([p \in DOMAIN h |-> d[h[p]]])
        <4>1. f["properties"] \in J
          BY <2>1, <3>1 DEF Has
        <4> QED BY <1>1, <2>4, <3>1, <4>1, LiftedObjects
      <3>2. Walked(f, g, J, d, N, E)
        BY <1>1, <1>2, <1>3, <2>1, <2>2, <3>1 DEF Walked
      <3>3. IsSchema(s) <=> IsSchema(t)
        BY <2>1, <2>2, <3>2, WalkedSchema
      <3>4. PlainConstants(f)
        <4>1. s \in Nodes(Object(doc))
          BY <1>1
        <4> QED BY <1>6, <4>1, ConstantsAssumption DEF PlainConstants, f
      <3>5. IsSchema(s) => Carried(f, g, E) /\ Carried(g, f, Back(E))
        BY <2>1, <3>2, <3>4, WalkedCarries
      <3> QED BY <3>3, <3>5 DEF f, g, E
    <2> QED BY <2>3, <2>4
  <1> QED BY <1>5, <1>6


\* The synthesised schema has two branches: the reference, and the array of it.
LEMMA PatternParts ==
    ASSUME NEW r
    PROVE  /\ IsSchema(OneOrArray(r))
           /\ DOMAIN OneOrArray(r).fields = {"anyOf"}
           /\ DOMAIN OneOrArray(r).fields["anyOf"].items = {1, 2}
           /\ OneOrArray(r).fields["anyOf"].items[1] = Ref(r)
           /\ OneOrArray(r).fields["anyOf"].items[2] = Object(ArrayOf(r))
  <1> DEFINE pair == <<Ref(r), Object(ArrayOf(r))>>
             alts == Array(pair)
             f    == Field("anyOf", alts)
  <1>1. DOMAIN f = {"anyOf"} /\ f["anyOf"] = alts
    BY DEF Field
  <1>2. DOMAIN pair = {1, 2} /\ pair[1] = Ref(r) /\ pair[2] = Object(ArrayOf(r))
    OBVIOUS
  <1>3. OneOrArray(r) = Object(f)
    BY DEF OneOrArray
  <1> HIDE DEF f
  <1>4. alts.items = pair /\ IsArray(alts)
    BY KindsOfJson
  <1> HIDE DEF pair, alts
  <1>5. IsObject(OneOrArray(r)) /\ OneOrArray(r).fields = f
    BY <1>3, KindsOfJson
  <1>6. IsSchema(OneOrArray(r))
    BY <1>1, <1>4, <1>5 DEF IsSchema, Has
  <1> QED BY <1>1, <1>2, <1>4, <1>5, <1>6

\* What a pattern says: one of the two.
LEMMA PatternHolds ==
    ASSUME NEW r, NEW x, NEW A, NEW B
    PROVE  Holds(OneOrArray(r).fields, x, A, B)
               <=> <<Ref(r), x>> \in A \/ <<Object(ArrayOf(r)), x>> \in A
  <1> DEFINE f == OneOrArray(r).fields
  <1>1. /\ DOMAIN f = {"anyOf"} /\ DOMAIN f["anyOf"].items = {1, 2}
        /\ f["anyOf"].items[1] = Ref(r) /\ f["anyOf"].items[2] = Object(ArrayOf(r))
    BY PatternParts
  <1> HIDE DEF f
  <1>2. Holds(f, x, A, B) <=> \E i \in DOMAIN f["anyOf"].items : <<f["anyOf"].items[i], x>> \in A
    BY <1>1 DEF Holds, Says, Has
  <1> QED BY <1>1, <1>2 DEF f

\* What a plain reference says.
LEMMA RefHolds ==
    ASSUME NEW l, NEW x, NEW A, NEW B
    PROVE  /\ IsSchema(Ref(l))
           /\ Holds(Ref(l).fields, x, A, B) <=> <<l, x>> \in B
  <1> DEFINE f == Ref(l).fields
  <1>1. DOMAIN f = {"$ref"} /\ IsString(f["$ref"]) /\ f["$ref"].str = l /\ IsObject(Ref(l))
    <2>1. DOMAIN Field("$ref", String(l)) = {"$ref"} /\ Field("$ref", String(l))["$ref"] = String(l)
      BY DEF Field
    <2> QED BY <2>1, KindsOfJson DEF Ref
  <1> HIDE DEF f
  <1>2. IsSchema(Ref(l))
    BY <1>1 DEF IsSchema, Has, Combinators, f
  <1>3. Holds(f, x, A, B) <=> <<l, x>> \in B
    BY <1>1 DEF Holds, Says, Has
  <1> QED BY <1>2, <1>3 DEF f

\* Lifting makes no schema stricter.
LEMMA LiftRelaxes ==
    ASSUME NEW doc \in Specs, NEW doc1, doc1 = LiftInlineOneOrArrayRefs(doc),
           DOMAIN LiftedSchemas(doc) \cap DOMAIN doc = {}
    PROVE  \A n \in Nat : \A s, t, x :
               (<<s, t>> \in LiftedTo(doc) /\ <<s, x>> \in Taken(doc, n + 1))
                   => <<t, x>> \in Taken(doc1, 2 * n + 1)
  <1> DEFINE E == LiftedTo(doc)
             Fine(n, m) == \A s, t, x : (<<s, t>> \in E /\ <<s, x>> \in Taken(doc, n))
                                            => <<t, x>> \in Taken(doc1, m)
             Good == {n \in Nat : Fine(n + 1, 2 * n + 1)}
  <1>1. \A s, t : <<s, t>> \in E => s \in Nodes(Object(doc)) /\ t \in Nodes(Object(doc1))
    BY LiftedToWalk
  <1>2. /\ \A name \in DOMAIN doc1 : doc1[name] \in Nodes(Object(doc1))
        /\ \A name \in DOMAIN doc : name \in DOMAIN doc1 /\ <<doc[name], doc1[name]>> \in E
    BY LiftedDocument
  <1> HIDE DEF E
  <1>3. ASSUME NEW n \in Nat, n # 0 => Fine(n, 2 * n - 1)
        PROVE  Fine(n + 1, 2 * n + 1)
    <2> SUFFICES ASSUME NEW s, NEW t, NEW x, <<s, t>> \in E, <<s, x>> \in Taken(doc, n + 1)
                 PROVE  <<t, x>> \in Taken(doc1, 2 * n + 1)
      OBVIOUS
    <2> DEFINE A == Taken(doc, n)
               C == Taken(doc1, 2 * n)
    <2>1. s \in Nodes(Object(doc)) /\ t \in Nodes(Object(doc1)) /\ x \in Instances
      <3>1. n + 1 \in Nat
        OBVIOUS
      <3> QED BY <1>1, <3>1, Takes
    <2>2. IsSchema(s) /\ Holds(s.fields, x, A, NamedIn(doc, A))
      BY <2>1, Takes
    <2>3. 2 * n \in Nat
      OBVIOUS
    <2>4. Fine(n, 2 * n)
      <3>1. CASE n = 0
        BY <3>1, Takes
      <3>2. CASE n # 0
        <4>1. 2 * n - 1 \in Nat /\ 2 * n - 1 <= 2 * n
          BY <3>2
        <4>2. Taken(doc1, 2 * n - 1) \subseteq Taken(doc1, 2 * n)
          BY <2>3, <4>1, TakenGrows
        <4> QED BY <1>3, <3>2, <4>2
      <3> QED BY <3>1, <3>2
    <2>5. <<t, x>> \in Taken(doc1, 2 * n + 1)
              <=> IsSchema(t) /\ Holds(t.fields, x, C, NamedIn(doc1, C))
      BY <2>1, <2>3, Takes
    <2>6. CASE IsObject(s) /\ IsOneOrArray(s.fields)
      <3>1. PICK r, l : /\ s = OneOrArray(r) /\ t = Ref(l)
                        /\ l \in DOMAIN doc1 /\ doc1[l] = s
                        /\ <<Ref(r), Ref(r)>> \in E
                        /\ <<Object(ArrayOf(r)), Object(ArrayOf(r))>> \in E
        BY <2>6, LiftedPattern DEF E
      <3>2. <<Ref(r), x>> \in A \/ <<Object(ArrayOf(r)), x>> \in A
        BY <2>2, <3>1, PatternHolds
      <3>3. n # 0
        BY <3>2, Takes
      <3> DEFINE k  == 2 * n - 1
                 C1 == Taken(doc1, k)
      <3>4. k \in Nat /\ k + 1 = 2 * n
        BY <3>3
      <3>5. <<Ref(r), x>> \in C1 \/ <<Object(ArrayOf(r)), x>> \in C1
        BY <1>3, <3>1, <3>2, <3>3
      <3> HIDE DEF k
      <3>6. Holds(s.fields, x, C1, NamedIn(doc1, C1))
        BY <3>1, <3>5, PatternHolds
      <3>7. <<s, x>> \in Taken(doc1, k + 1)
        BY <1>2, <2>1, <2>2, <3>1, <3>4, <3>6, Takes
      <3>8. <<l, x>> \in NamedIn(doc1, C)
        BY <2>3, <3>1, <3>4, <3>7, NamedTaken
      <3> QED BY <2>5, <3>1, <3>8, RefHolds
    <2>7. CASE ~ (IsObject(s) /\ IsOneOrArray(s.fields))
      <3>1. IsSchema(t) /\ Carried(s.fields, t.fields, E)
        BY <2>2, <2>7, LiftedOther DEF E
      <3>2. \A name, y : <<name, y>> \in NamedIn(doc, A) => <<name, y>> \in NamedIn(doc1, C)
        BY <1>2, <2>3, <2>4, NamedTaken
      <3> HIDE DEF A, C
      <3>3. \A u, w, y : (<<u, w>> \in E /\ <<u, y>> \in A) => <<w, y>> \in C
        BY <2>4 DEF A, C
      <3> DEFINE f == s.fields
                 g == t.fields
                 B == NamedIn(doc, A)
                 D == NamedIn(doc1, C)
      <3>4. Holds(f, x, A, B) /\ Carried(f, g, E)
        BY <2>2, <3>1
      <3>5. Has(f, "$ref") => (<<f["$ref"].str, x>> \in B => <<f["$ref"].str, x>> \in D)
        BY <3>2
      <3> HIDE DEF f, g, B, D
      <3>6. Holds(g, x, C, D)
        BY <3>3, <3>4, <3>5, CarriedHolds
      <3> QED BY <2>5, <3>1, <3>6 DEF g, D, C
    <2> QED BY <2>6, <2>7
  <1>4. 0 \in Good
    <2>1. Fine(0 + 1, 2 * 0 + 1)
      <3> HIDE DEF Fine
      <3> QED BY <1>3
    <2> HIDE DEF Fine
    <2> QED BY <2>1
  <1>5. ASSUME NEW n \in Nat, n \in Good
        PROVE  n + 1 \in Good
    <2> HIDE DEF Fine
    <2>1. Fine(n + 1, 2 * n + 1) /\ 2 * (n + 1) - 1 = 2 * n + 1 /\ n + 1 \in Nat
      BY <1>5
    <2>2. Fine((n + 1) + 1, 2 * (n + 1) + 1)
      BY <1>3, <2>1
    <2> QED BY <2>1, <2>2
  <1>6. Nat \subseteq Good
    <2> HIDE DEF Good
    <2> QED BY <1>4, <1>5, NatSetInduction
  <1> QED BY <1>6 DEF E


\* Nor does it relax one.
LEMMA LiftTightens ==
    ASSUME NEW doc \in Specs, NEW doc1, doc1 = LiftInlineOneOrArrayRefs(doc),
           DOMAIN LiftedSchemas(doc) \cap DOMAIN doc = {},
           DOMAIN LiftedSchemas(doc) \cap References(doc) = {}
    PROVE  \A n \in Nat : \A s, t, x :
               (<<s, t>> \in LiftedTo(doc) /\ <<t, x>> \in Taken(doc1, n))
                   => <<s, x>> \in Taken(doc, n)
  <1> DEFINE E == LiftedTo(doc)
             Fine(n) == \A s, t, x : (<<s, t>> \in E /\ <<t, x>> \in Taken(doc1, n))
                                         => <<s, x>> \in Taken(doc, n)
             Good == {n \in Nat : \A k \in Nat : k <= n => Fine(k)}
  <1>1. \A s, t : <<s, t>> \in E => s \in Nodes(Object(doc)) /\ t \in Nodes(Object(doc1))
    BY LiftedToWalk
  <1>2. /\ \A name \in DOMAIN doc1 : doc1[name] \in Nodes(Object(doc1))
        /\ \A name \in DOMAIN doc : name \in DOMAIN doc1 /\ <<doc[name], doc1[name]>> \in E
        /\ DOMAIN doc1 = DOMAIN doc \cup DOMAIN LiftedSchemas(doc)
    BY LiftedDocument, LiftedNamesOf
  <1> HIDE DEF E
  <1>3. ASSUME NEW n \in Nat, \A k \in Nat : k <= n => Fine(k)
        PROVE  Fine(n + 1)
    <2> SUFFICES ASSUME NEW s, NEW t, NEW x, <<s, t>> \in E, <<t, x>> \in Taken(doc1, n + 1)
                 PROVE  <<s, x>> \in Taken(doc, n + 1)
      OBVIOUS
    <2> DEFINE A == Taken(doc1, n)
               C == Taken(doc, n)
    <2>1. s \in Nodes(Object(doc)) /\ t \in Nodes(Object(doc1)) /\ x \in Instances
      <3>1. n + 1 \in Nat
        OBVIOUS
      <3> QED BY <1>1, <3>1, Takes
    <2>2. IsSchema(t) /\ Holds(t.fields, x, A, NamedIn(doc1, A))
      BY <2>1, Takes
    <2>3. Fine(n)
      BY <1>3
    <2>4. <<s, x>> \in Taken(doc, n + 1)
              <=> IsSchema(s) /\ Holds(s.fields, x, C, NamedIn(doc, C))
      BY <2>1, Takes
    <2>5. CASE IsObject(s) /\ IsOneOrArray(s.fields)
      <3>1. PICK r, l : /\ s = OneOrArray(r) /\ t = Ref(l)
                        /\ l \in DOMAIN doc1 /\ doc1[l] = s
                        /\ <<Ref(r), Ref(r)>> \in E
                        /\ <<Object(ArrayOf(r)), Object(ArrayOf(r))>> \in E
        BY <2>5, LiftedPattern DEF E
      <3>2. <<s, x>> \in Taken(doc1, n)
        <4>1. <<l, x>> \in NamedIn(doc1, A)
          BY <2>2, <3>1, RefHolds
        <4> QED BY <3>1, <4>1, NamedTaken
      <3>3. n # 0
        BY <3>2, Takes
      <3> DEFINE j == n - 1
      <3>4. j \in Nat /\ j + 1 = n /\ j <= n
        BY <3>3
      <3> HIDE DEF j
      <3>5. Holds(s.fields, x, Taken(doc1, j), NamedIn(doc1, Taken(doc1, j)))
        <4>1. s \in Nodes(Object(doc1))
          BY <1>2, <3>1
        <4> QED BY <2>1, <3>2, <3>4, <4>1, Takes
      <3>6. <<Ref(r), x>> \in Taken(doc, j) \/ <<Object(ArrayOf(r)), x>> \in Taken(doc, j)
        <4>1. <<Ref(r), x>> \in Taken(doc1, j) \/ <<Object(ArrayOf(r)), x>> \in Taken(doc1, j)
          BY <3>1, <3>5, PatternHolds
        <4>2. Fine(j)
          BY <1>3, <3>4
        <4> QED BY <3>1, <4>1, <4>2
      <3>7. Holds(s.fields, x, Taken(doc, j), NamedIn(doc, Taken(doc, j)))
        BY <3>1, <3>6, PatternHolds
      <3>8. <<s, x>> \in Taken(doc, j + 1)
        <4>1. IsSchema(s)
          BY <3>1, PatternParts
        <4> QED BY <2>1, <3>4, <3>7, <4>1, Takes
      <3>9. Taken(doc, n) \subseteq Taken(doc, n + 1)
        <4>1. n + 1 \in Nat /\ n <= n + 1
          OBVIOUS
        <4> QED BY <4>1, TakenGrows
      <3> QED BY <3>4, <3>8, <3>9
    <2>6. CASE ~ (IsObject(s) /\ IsOneOrArray(s.fields))
      <3> DEFINE f == s.fields
                 g == t.fields
                 B == NamedIn(doc1, A)
                 D == NamedIn(doc, C)
      <3>1. IsSchema(s) /\ Carried(g, f, Back(E))
        BY <2>2, <2>6, LiftedOther DEF E
      <3>2. Has(g, "$ref") => (<<g["$ref"].str, x>> \in B => <<g["$ref"].str, x>> \in D)
        <4> SUFFICES ASSUME Has(g, "$ref"), <<g["$ref"].str, x>> \in B
                     PROVE  <<g["$ref"].str, x>> \in D
          OBVIOUS
        <4> DEFINE name == g["$ref"].str
        <4>1. Has(f, "$ref") /\ f["$ref"] = g["$ref"]
          BY <3>1 DEF Carried, Has
        <4>2. IsReference(s)
          BY <3>1, <4>1 DEF IsReference, IsSchema
        <4>3. name \in References(doc)
          BY <2>1, <4>1, <4>2 DEF References
        <4>4. name \in DOMAIN doc1 /\ <<doc1[name], x>> \in A
          BY NamedTaken
        <4> HIDE DEF name
        <4>5. name \in DOMAIN doc
          BY <1>2, <4>3, <4>4
        <4>6. <<doc[name], x>> \in C
          BY <1>2, <2>3, <4>4, <4>5
        <4> QED BY <4>5, <4>6, NamedTaken DEF name
      <3>3. \A u, w, y : (<<u, w>> \in Back(E) /\ <<u, y>> \in A) => <<w, y>> \in C
        <4>1. \A u, w : <<u, w>> \in Back(E) => <<w, u>> \in E
          <5>1. \A p \in E : \E u, w : p = <<u, w>>
            BY LiftedToPairs DEF E
          <5> QED BY <5>1 DEF Back
        <4> HIDE DEF A, C
        <4> QED BY <2>3, <4>1 DEF A, C
      <3>4. Holds(g, x, A, B)
        BY <2>2
      <3> HIDE DEF f, g, B, D, A, C
      <3>5. Holds(f, x, C, D)
        BY <3>1, <3>2, <3>3, <3>4, CarriedHolds
      <3> QED BY <2>4, <3>1, <3>5 DEF f, D, C
    <2> QED BY <2>5, <2>6
  <1>4. Fine(0)
    BY Takes
  <1>5. 0 \in Good
    <2> HIDE DEF Fine
    <2>1. \A k \in Nat : k <= 0 => k = 0
      OBVIOUS
    <2> QED BY <1>4, <2>1
  <1>6. ASSUME NEW n \in Nat, n \in Good
        PROVE  n + 1 \in Good
    <2> HIDE DEF Fine
    <2>1. Fine(n + 1)
      BY <1>3, <1>6
    <2>2. \A k \in Nat : k <= n + 1 => k <= n \/ k = n + 1
      OBVIOUS
    <2> QED BY <1>6, <2>1, <2>2
  <1>7. Nat \subseteq Good
    <2> HIDE DEF Good
    <2> QED BY <1>5, <1>6, NatSetInduction
  <1>8. \A n \in Nat : n <= n
    OBVIOUS
  <1> QED BY <1>7, <1>8 DEF E


-----------------------------------------------------------------------------
\* Relaxing what is required

\* An object with fewer required fields says no more than before.
LEMMA SameCarries ==
    ASSUME NEW f, IsSchema(Object(f)), NEW g, DOMAIN g = DOMAIN f,
           \A k \in DOMAIN f : k # "required" => g[k] = f[k],
           "required" \in DOMAIN f =>
               \A j \in DOMAIN g["required"].items : \E i \in DOMAIN f["required"].items :
                   g["required"].items[j] = f["required"].items[i],
           NEW N, \A v \in N : Parts(v) \subseteq N,
           \A k \in DOMAIN f : k # "required" => f[k] \in N,
           NEW E, \A v \in N : <<v, v>> \in E
    PROVE  Carried(f, g, E)
  <1>1. \A k \in DOMAIN f : k # "required" =>
            /\ g[k] = f[k] /\ <<f[k], g[k]>> \in E
            /\ IsArray(f[k]) => \A i \in DOMAIN f[k].items : <<f[k].items[i], g[k].items[i]>> \in E
            /\ IsObject(f[k]) => \A p \in DOMAIN f[k].fields : <<f[k].fields[p], g[k].fields[p]>> \in E
    BY PartsOf
  <1>2. /\ \A key \in Combinators : Has(f, key) => IsArray(f[key])
        /\ Has(f, "properties") => IsObject(f["properties"])
    BY KindsOfJson DEF IsSchema
  <1>3. \A k : Has(g, k) <=> Has(f, k)
    BY DEF Has
  <1>4. \A key \in Combinators :
           Has(f, key) =>
               /\ DOMAIN g[key].items = DOMAIN f[key].items
               /\ \A i \in DOMAIN f[key].items : <<f[key].items[i], g[key].items[i]>> \in E
    BY <1>1, <1>2 DEF Has, Combinators
  <1>5. Has(f, "properties") =>
           /\ DOMAIN g.properties.fields = DOMAIN f.properties.fields
           /\ \A p \in DOMAIN f.properties.fields :
                  <<f.properties.fields[p], g.properties.fields[p]>> \in E
    BY <1>1, <1>2 DEF Has
  <1>6. /\ Has(f, "type") => g.type = f.type
        /\ Has(f, "const") => g.const = f.const
        /\ Has(f, "enum") => g.enum = f.enum
        /\ Has(f, "$ref") => g["$ref"] = f["$ref"]
        /\ Has(f, "minItems") => g.minItems = f.minItems
        /\ Has(f, "items") => <<f.items, g.items>> \in E
        /\ Has(f, "additionalProperties") =>
               /\ g.additionalProperties = f.additionalProperties
               /\ <<f.additionalProperties, g.additionalProperties>> \in E
    BY <1>1 DEF Has
  <1> QED BY <1>3, <1>4, <1>5, <1>6 DEF Carried, InArray, Has

\* The document that is relaxed, and what it is then.
LEMMA RelaxedDocument ==
    ASSUME NEW doc \in Specs, NEW doc1, doc1 = LiftInlineOneOrArrayRefs(doc),
           NEW doc2, doc2 = RelaxDriftedRequiredFields(doc1)
    PROVE  /\ \A v \in Nodes(Object(doc1)) : Parts(v) \subseteq Nodes(Object(doc1))
           /\ \A v \in Nodes(Object(doc2)) : Parts(v) \subseteq Nodes(Object(doc2))
           /\ \A name \in DOMAIN doc1 : doc1[name] \in Nodes(Object(doc1))
           /\ \A name \in DOMAIN doc2 : doc2[name] \in Nodes(Object(doc2))
           /\ DOMAIN doc2 = DOMAIN doc1
           /\ \A name \in DOMAIN doc1 :
                  \/ doc2[name] = doc1[name]
                  \/ LET f == doc1[name].fields
                         g == doc2[name].fields
                     IN  /\ IsObject(doc1[name]) /\ doc1[name] = Object(f)
                         /\ doc2[name] = Object(g) /\ DOMAIN g = DOMAIN f
                         /\ \A k \in DOMAIN f : k # "required" => g[k] = f[k]
                         /\ "required" \in DOMAIN f
                         /\ IsArray(f["required"]) /\ IsArray(g["required"])
                         /\ \A j \in DOMAIN g["required"].items : \E i \in DOMAIN f["required"].items :
                                g["required"].items[j] = f["required"].items[i]
  <1> DEFINE M == LiftNodes(doc) \cup {Object(doc1)}
  <1>1. Json(M) /\ Object(doc1) \in M
    BY LiftNodesAreJson
  <1>2. Nests(Object(doc1), Depth)
    BY LiftedDocumentNests
  <1> HIDE DEF M
  <1>3. Nests(Object(doc2), Depth)
    BY <1>1, <1>2, RelaxNests
  <1>4. /\ \A v \in Nodes(Object(doc1)) : Parts(v) \subseteq Nodes(Object(doc1))
        /\ \A v \in Nodes(Object(doc2)) : Parts(v) \subseteq Nodes(Object(doc2))
    BY <1>2, <1>3, NodesClosed DEF Nests
  <1>5. /\ \A name \in DOMAIN doc1 : doc1[name] \in Nodes(Object(doc1))
        /\ \A name \in DOMAIN doc2 : doc2[name] \in Nodes(Object(doc2))
    <2>1. Object(doc1) \in Nodes(Object(doc1)) /\ Object(doc2) \in Nodes(Object(doc2))
      BY NodesStart
    <2> QED BY <1>4, <2>1, PartsOfObject
  <1> DEFINE Left(name) == Array(Retained(name, doc1[name].fields.required.items))
             Touched(name) == IsObject(doc1[name]) /\ HasArray(doc1[name].fields, "required")
  <1>6. /\ DOMAIN doc2 = DOMAIN doc1
        /\ \A name \in DOMAIN doc1 : ~ Touched(name) => doc2[name] = doc1[name]
        /\ \A name \in DOMAIN doc1 :
               Touched(name) => doc2[name] = Object(With(doc1[name].fields, "required", Left(name)))
    BY DEF RelaxDriftedRequiredFields
  <1>7. ASSUME NEW name \in DOMAIN doc1, Touched(name)
        PROVE  LET f == doc1[name].fields
                   g == doc2[name].fields
               IN  /\ IsObject(doc1[name]) /\ doc1[name] = Object(f)
                   /\ doc2[name] = Object(g) /\ DOMAIN g = DOMAIN f
                   /\ \A k \in DOMAIN f : k # "required" => g[k] = f[k]
                   /\ "required" \in DOMAIN f
                   /\ IsArray(f["required"]) /\ IsArray(g["required"])
                   /\ \A j \in DOMAIN g["required"].items : \E i \in DOMAIN f["required"].items :
                          g["required"].items[j] = f["required"].items[i]
    <2> DEFINE f == doc1[name].fields
               h == With(f, "required", Left(name))
               r == f["required"]
               g == doc2[name].fields
    <2>1. /\ DOMAIN h = DOMAIN f \cup {"required"} /\ h["required"] = Left(name)
          /\ \A k \in DOMAIN f : k # "required" => h[k] = f[k]
      BY DEF With
    <2>2. IsObject(doc1[name]) /\ "required" \in DOMAIN f /\ IsArray(r)
      BY <1>7 DEF HasArray, Has
    <2>3. doc1[name] \in M
      <3>1. Object(doc1).fields = doc1 /\ IsObject(Object(doc1))
        BY KindsOfJson
      <3> QED BY <1>1, <3>1, JsonParts
    <2>4. doc1[name] = Object(f) /\ r \in M
      BY <1>1, <2>2, <2>3, JsonParts
    <2>5. r.items \in Seq(M)
      BY <1>1, <2>2, <2>4, JsonParts
    <2>6. g = h /\ doc2[name] = Object(g)
      <3>1. doc2[name] = Object(h)
        BY <1>6, <1>7
      <3> HIDE DEF h
      <3> QED BY <3>1, KindsOfJson
    <2>7. Left(name) = Array(Retained(name, r.items))
      OBVIOUS
    <2> HIDE DEF Left, f, r, g, h
    <2>8. IsArray(Left(name)) /\ \A j \in DOMAIN Left(name).items :
              \E i \in DOMAIN r.items : Left(name).items[j] = r.items[i]
      <3>1. IsArray(Left(name))
        BY <2>7, KindsOfJson
      <3>2. \A j \in DOMAIN Left(name).items : Left(name).items[j] \in Parts(r)
        BY <2>2, <2>5, <2>7, <3>1, RetainedParts, PartsOf
      <3>3. \A z \in Parts(r) : \E i \in DOMAIN r.items : z = r.items[i]
        BY <2>2, <2>4, KindsOfJson DEF Parts, IsArray, IsObject
      <3> QED BY <3>1, <3>2, <3>3
    <2>9. g["required"] = Left(name) /\ DOMAIN g = DOMAIN f /\ f["required"] = r
      BY <2>1, <2>2, <2>6 DEF r
    <2>10. /\ IsObject(doc1[name]) /\ doc1[name] = Object(f)
           /\ doc2[name] = Object(g) /\ DOMAIN g = DOMAIN f
           /\ \A k \in DOMAIN f : k # "required" => g[k] = f[k]
           /\ "required" \in DOMAIN f
           /\ IsArray(f["required"]) /\ IsArray(g["required"])
           /\ \A j \in DOMAIN g["required"].items : \E i \in DOMAIN f["required"].items :
                  g["required"].items[j] = f["required"].items[i]
      BY <2>1, <2>2, <2>4, <2>6, <2>8, <2>9
    <2> QED BY <2>10 DEF f, g
  <1> HIDE DEF Left
  <1> QED BY <1>4, <1>5, <1>6, <1>7


\* The schemas of doc that are still there in doc2, and those in their place.
Replaced(doc, doc2) ==
    {<<v, v>> : v \in Nodes(Object(doc)) \cap Nodes(Object(doc2))}
        \cup {<<doc[name], doc2[name]>> : name \in DOMAIN doc}

\* What replaces a schema in the relaxed document says no more than it did.
LEMMA ReplacedCarries ==
    ASSUME NEW doc \in Specs, NEW doc1, doc1 = LiftInlineOneOrArrayRefs(doc),
           NEW doc2, doc2 = RelaxDriftedRequiredFields(doc1),
           NEW s, NEW t, <<s, t>> \in Replaced(doc1, doc2), IsSchema(s)
    PROVE  IsSchema(t) /\ Carried(s.fields, t.fields, Replaced(doc1, doc2))
  <1> DEFINE N1 == Nodes(Object(doc1))
             N2 == Nodes(Object(doc2))
             N  == N1 \cap N2
             E  == Replaced(doc1, doc2)
             f  == s.fields
             g  == t.fields
  <1>1. /\ \A v \in N1 : Parts(v) \subseteq N1
        /\ \A v \in N2 : Parts(v) \subseteq N2
        /\ \A name \in DOMAIN doc1 : doc1[name] \in N1
        /\ \A name \in DOMAIN doc2 : doc2[name] \in N2
        /\ DOMAIN doc2 = DOMAIN doc1
    BY RelaxedDocument
  <1>2. (s = t /\ s \in N) \/ (s \in N1 /\ t \in N2 /\ \E name \in DOMAIN doc1 : s = doc1[name] /\ t = doc2[name])
    BY <1>1 DEF Replaced
  <1>3. \A v \in N : Parts(v) \subseteq N
    BY <1>1
  <1>4. \A v \in N : <<v, v>> \in E
    BY DEF Replaced
  <1>5. IsObject(s)
    BY DEF IsSchema
  <1> HIDE DEF E, N1, N2
  <1>6. CASE s = t /\ s \in N
    <2>1. \A k \in DOMAIN f : f[k] \in N
      BY <1>3, <1>5, <1>6, PartsOf
    <2>2. IsSchema(Object(f))
      <3>1. IsObject(Object(f)) /\ Object(f).fields = f
        BY KindsOfJson
      <3> QED BY <3>1 DEF IsSchema
    <2>3. f = g
      BY <1>6
    <2> HIDE DEF f, g, N
    <2>4. Carried(f, g, E)
      BY <1>3, <1>4, <2>1, <2>2, <2>3, SameCarries
    <2> QED BY <1>6, <2>4 DEF f, g, E
  <1>7. CASE s # t /\ s \in N1 /\ t \in N2 /\ \E name \in DOMAIN doc1 : s = doc1[name] /\ t = doc2[name]
    <2>1. /\ s = Object(f) /\ t = Object(g) /\ DOMAIN g = DOMAIN f
          /\ \A k \in DOMAIN f : k # "required" => g[k] = f[k]
          /\ "required" \in DOMAIN f
          /\ IsArray(f["required"]) /\ IsArray(g["required"])
          /\ \A j \in DOMAIN g["required"].items : \E i \in DOMAIN f["required"].items :
                 g["required"].items[j] = f["required"].items[i]
      <3>1. PICK name \in DOMAIN doc1 : s = doc1[name] /\ t = doc2[name]
        BY <1>7
      <3>2. doc2[name] # doc1[name]
        BY <1>7, <3>1
      <3> QED BY <3>1, <3>2, RelaxedDocument
    <2> HIDE DEF f, g
    <2>2. \A k \in DOMAIN f : k # "required" => f[k] \in N
      <3>1. \A k \in DOMAIN f : f[k] \in N1
        BY <1>1, <1>7, <2>1, PartsOfObject
      <3>2. \A k \in DOMAIN g : g[k] \in N2
        BY <1>1, <1>7, <2>1, PartsOfObject
      <3> QED BY <2>1, <3>1, <3>2
    <2>3. Carried(f, g, E)
      <3> HIDE DEF N
      <3> QED BY <1>3, <1>4, <2>1, <2>2, SameCarries
    <2>4. IsSchema(Object(g))
      <3> DEFINE Kinds(e) ==
              /\ Has(e, "type") => IsString(e["type"]) \/ IsStrings(e["type"])
              /\ Has(e, "$ref") => IsString(e["$ref"])
              /\ \A key \in Combinators \cup {"enum"} : Has(e, key) => IsArray(e[key])
              /\ Has(e, "minItems") => DOMAIN e["minItems"] = {"num"}
              /\ Has(e, "required") => IsStrings(e["required"])
              /\ Has(e, "properties") =>
                     /\ IsObject(e["properties"])
                     /\ \A p \in DOMAIN e["properties"].fields : IsObject(e["properties"].fields[p])
      <3>1. \A e : IsSchema(Object(e)) <=> Kinds(e)
        <4> TAKE e
        <4>1. IsObject(Object(e)) /\ Object(e).fields = e
          BY KindsOfJson
        <4> QED BY <4>1 DEF IsSchema
      <3>2. Kinds(f)
        BY <2>1, <3>1
      <3>3. IsStrings(g["required"])
        BY <2>1, <3>2 DEF IsStrings, Has
      <3>4. Kinds(g)
        BY <2>1, <3>2, <3>3 DEF Has, Combinators
      <3> HIDE DEF Kinds
      <3> QED BY <3>1, <3>4
    <2> QED BY <2>1, <2>3, <2>4 DEF f, g, E
  <1> QED BY <1>2, <1>6, <1>7

\* Requiring less makes no schema stricter.
LEMMA RelaxRelaxes ==
    ASSUME NEW doc \in Specs, NEW doc1, doc1 = LiftInlineOneOrArrayRefs(doc),
           NEW doc2, doc2 = RelaxDriftedRequiredFields(doc1)
    PROVE  \A n \in Nat : \A s, t, x :
               (<<s, t>> \in Replaced(doc1, doc2) /\ <<s, x>> \in Taken(doc1, n))
                   => <<t, x>> \in Taken(doc2, n)
  <1> DEFINE E == Replaced(doc1, doc2)
             Fine(n) == \A s, t, x : (<<s, t>> \in E /\ <<s, x>> \in Taken(doc1, n))
                                         => <<t, x>> \in Taken(doc2, n)
             Good == {n \in Nat : Fine(n)}
  <1>1. \A s, t : <<s, t>> \in E => s \in Nodes(Object(doc1)) /\ t \in Nodes(Object(doc2))
    BY RelaxedDocument DEF Replaced
  <1>2. DOMAIN doc2 = DOMAIN doc1 /\ \A name \in DOMAIN doc1 : <<doc1[name], doc2[name]>> \in E
    BY RelaxedDocument DEF Replaced
  <1> HIDE DEF E
  <1>3. Fine(0)
    BY Takes
  <1>4. ASSUME NEW n \in Nat, Fine(n)
        PROVE  Fine(n + 1)
    <2> SUFFICES ASSUME NEW s, NEW t, NEW x, <<s, t>> \in E, <<s, x>> \in Taken(doc1, n + 1)
                 PROVE  <<t, x>> \in Taken(doc2, n + 1)
      OBVIOUS
    <2> DEFINE A == Taken(doc1, n)
               C == Taken(doc2, n)
               f == s.fields
               g == t.fields
               B == NamedIn(doc1, A)
               D == NamedIn(doc2, C)
    <2>1. s \in Nodes(Object(doc1)) /\ t \in Nodes(Object(doc2)) /\ x \in Instances
      <3>1. n + 1 \in Nat
        OBVIOUS
      <3> QED BY <1>1, <3>1, Takes
    <2>2. IsSchema(s) /\ Holds(f, x, A, B)
      BY <2>1, Takes
    <2>3. IsSchema(t) /\ Carried(f, g, E)
      BY <2>2, ReplacedCarries DEF E
    <2>4. \A name, y : <<name, y>> \in B => <<name, y>> \in D
      BY <1>2, <1>4, NamedTaken
    <2>5. <<t, x>> \in Taken(doc2, n + 1) <=> IsSchema(t) /\ Holds(g, x, C, D)
      BY <2>1, Takes
    <2> HIDE DEF f, g, B, D, A, C
    <2>6. \A u, w, y : (<<u, w>> \in E /\ <<u, y>> \in A) => <<w, y>> \in C
      BY <1>4 DEF A, C
    <2>7. Has(f, "$ref") => (<<f["$ref"].str, x>> \in B => <<f["$ref"].str, x>> \in D)
      BY <2>4
    <2>8. Holds(g, x, C, D)
      BY <2>2, <2>3, <2>6, <2>7, CarriedHolds
    <2> QED BY <2>3, <2>5, <2>8
  <1>5. Nat \subseteq Good
    <2>1. 0 \in Good /\ \A n \in Nat : n \in Good => n + 1 \in Good
      <3> HIDE DEF Fine
      <3> QED BY <1>3, <1>4
    <2> HIDE DEF Good
    <2> QED BY <2>1, NatSetInduction
  <1> QED BY <1>5 DEF E


-----------------------------------------------------------------------------
\* The rules for one object

\* The alternative that `type: x` becomes accepts the values of that type.
LEMMA TypeAccepts ==
    ASSUME NEW x, NEW accepts, NEW named
    PROVE  Holds(Field("type", String(TypeOf(x))), x, accepts, named)
  <1> DEFINE f == Field("type", String(TypeOf(x)))
  <1>1. DOMAIN f = {"type"} /\ f.type = String(TypeOf(x))
    BY DEF Field
  <1>2. ~ IsArray(f.type)
    BY <1>1 DEF IsArray, String
  <1> HIDE DEF f
  <1>3. Holds(f, x, accepts, named)
    BY <1>1, <1>2 DEF Holds, Says, Has
  <1>4. QED
    BY <1>3 DEF f

\* expand_nullable_type_array makes no object stricter.
LEMMA ExpandRelaxes ==
    ASSUME NEW f, NEW x, NEW accepts, NEW named,
           <<Object(Field("type", String(TypeOf(x)))), x>> \in accepts,
           Holds(f, x, accepts, named)
    PROVE  Holds(ExpandNullableTypeArray(f), x, accepts, named)
  <1> DEFINE g == ExpandNullableTypeArray(f)
  <1>1. CASE ~ IsNullableTypeArray(f)
    BY <1>1, ExpandKeeps
  <1>2. CASE IsNullableTypeArray(f)
    <2>1. /\ Keeps(f, g, {"type", "anyOf"})
          /\ ~ Has(g, "type") /\ Has(g, "anyOf")
          /\ g.anyOf = Array([i \in DOMAIN f.type.items |->
                                 Object(Field("type", f.type.items[i]))])
      BY <1>2, ExpandKeeps
    <2>2. PICK i \in DOMAIN f.type.items : f.type.items[i] = String(TypeOf(x))
      BY <1>2 DEF IsNullableTypeArray, HasArray, InArray, Holds, Says
    <2>3. i \in DOMAIN g.anyOf.items /\ <<g.anyOf.items[i], x>> \in accepts
      BY <2>1, <2>2 DEF Array
    <2> HIDE DEF g
    <2>4. Holds(g, x, accepts, named)
      BY <2>1, <2>3 DEF Keeps, Holds, Says, Has, InArray
    <2>5. QED
      BY <2>4 DEF g
  <1>3. QED
    BY <1>1, <1>2

\* `enum: [v]` for `const: v` makes no object stricter.
LEMMA ConstRelaxes ==
    ASSUME NEW f, NEW x, NEW accepts, NEW named, Holds(f, x, accepts, named)
    PROVE  Holds(ConstToEnum(f), x, accepts, named)
  <1> DEFINE g == ConstToEnum(f)
  <1>1. CASE ~ Has(f, "const")
    BY <1>1, ConstKeeps
  <1>2. CASE Has(f, "const")
    <2>1. /\ Keeps(f, g, {"const", "enum"})
          /\ ~ Has(g, "const") /\ Has(g, "enum") /\ g.enum = Array(<<f.const>>)
      BY <1>2, ConstKeeps
    <2>2. x = f.const
      BY <1>2 DEF Holds, Says
    <2>3. InArray(x, g, "enum")
      BY <2>1, <2>2 DEF InArray, Array
    <2> HIDE DEF g
    <2>4. Holds(g, x, accepts, named)
      BY <2>1, <2>3 DEF Keeps, Holds, Says, Has, InArray
    <2>5. QED
      BY <2>4 DEF g
  <1>3. QED
    BY <1>1, <1>2

\* flatten_singleton_all_of makes no object stricter.
LEMMA FlattenRelaxes ==
    ASSUME NEW f, NEW x, NEW accepts, NEW named, Holds(f, x, accepts, named),
           IsSingletonAllOf(f) =>
               (<<f.allOf.items[1], x>> \in accepts =>
                    Holds(f.allOf.items[1].fields, x, accepts, named))
    PROVE  Holds(FlattenSingletonAllOf(f), x, accepts, named)
  <1> DEFINE g == FlattenSingletonAllOf(f)
  <1>1. CASE ~ IsSingletonAllOf(f)
    BY <1>1, FlattenKeeps
  <1>2. CASE IsSingletonAllOf(f)
    <2> DEFINE r == f.allOf.items[1].fields
    <2>1. /\ Keeps(f, g, {"allOf", "additionalProperties", "$ref"})
          /\ ~ Has(g, "allOf") /\ ~ Has(g, "additionalProperties")
          /\ Has(g, "$ref") /\ g["$ref"] = r["$ref"]
      BY <1>2, FlattenKeeps
    <2>2. <<f.allOf.items[1], x>> \in accepts
      <3>1. 1 \in DOMAIN f.allOf.items
        BY <1>2 DEF IsSingletonAllOf
      <3>2. QED
        BY <1>2, <3>1 DEF IsSingletonAllOf, HasArray, Holds, Says
    <2>3. Has(r, "$ref") /\ Holds(r, x, accepts, named)
      BY <1>2, <2>2 DEF IsSingletonAllOf, IsPlainRef, Has
    <2> HIDE DEF g, r
    <2>4. <<g["$ref"].str, x>> \in named
      BY <2>1, <2>3 DEF Holds, Says
    <2>5. Holds(g, x, accepts, named)
      BY <2>1, <2>4 DEF Keeps, Holds, Says, Has, InArray
    <2>6. QED
      BY <2>5 DEF g
  <1>3. QED
    BY <1>1, <1>2

\* A schema with fewer keywords accepts more.
LEMMA DropsRelaxes ==
    ASSUME NEW f, NEW g, NEW x, NEW accepts, NEW named, NEW key,
           key \in {"enum", "additionalProperties"},
           Drops(f, g, {key}), Holds(f, x, accepts, named)
    PROVE  Holds(g, x, accepts, named)
  <1>1. CASE key \in DOMAIN g
    <2>1. DOMAIN f = DOMAIN g /\ \A k \in DOMAIN g : g[k] = f[k]
      BY <1>1 DEF Drops, Keeps
    <2>2. QED
      BY <2>1 DEF Holds, Says, Has, InArray
  <1>2. CASE key \notin DOMAIN g
    <2>1. CASE key = "enum"
      <3>1. /\ "enum" \notin DOMAIN g
            /\ \A k : k # "enum" => (k \in DOMAIN f <=> k \in DOMAIN g)
            /\ \A k \in DOMAIN g : g[k] = f[k]
        BY <1>2, <2>1 DEF Drops, Keeps
      <3>2. QED
        BY <3>1 DEF Holds, Says, Has, InArray
    <2>2. CASE key = "additionalProperties"
      <3>1. /\ "additionalProperties" \notin DOMAIN g
            /\ \A k : k # "additionalProperties" => (k \in DOMAIN f <=> k \in DOMAIN g)
            /\ \A k \in DOMAIN g : g[k] = f[k]
        BY <1>2, <2>2 DEF Drops, Keeps
      <3>2. QED
        BY <3>1 DEF Holds, Says, Has, InArray
    <2>3. QED
      BY <2>1, <2>2
  <1>3. QED
    BY <1>1, <1>2

\* What an object of a schema says, it says after the rules have been applied to
\* it, of a value that has its type as alternative and for which a reference that
\* is a subschema says what it does.
THEOREM RewriteRelaxes ==
    ASSUME NEW f, NEW x, NEW accepts, NEW named, Holds(f, x, accepts, named),
           <<Object(Field("type", String(TypeOf(x)))), x>> \in accepts,
           \A r : (IsPlainRef(r) /\ <<r, x>> \in accepts) => Holds(r.fields, x, accepts, named)
    PROVE  Holds(RewriteObject(f), x, accepts, named)
  <1> DEFINE g1 == ExpandNullableTypeArray(f)
             g2 == ConstToEnum(g1)
             g3 == FlattenSingletonAllOf(g2)
             g4 == StripAdditionalProperties(g3)
             g5 == DropCollisionProneEnum(g4)
             g6 == DropDriftedAudioEnum(g5)
  <1>1. Holds(g1, x, accepts, named)
    BY ExpandRelaxes
  <1>2. Holds(g2, x, accepts, named)
    BY <1>1, ConstRelaxes
  <1>3. Holds(g3, x, accepts, named)
    <2> HIDE DEF g2
    <2>1. IsSingletonAllOf(g2) => IsPlainRef(g2.allOf.items[1])
      BY DEF IsSingletonAllOf
    <2> QED BY <1>2, <2>1, FlattenRelaxes
  <1>4. Holds(g4, x, accepts, named)
    BY <1>3, StripDrops, DropsRelaxes
  <1>5. Holds(g5, x, accepts, named)
    BY <1>4, CollisionDrops, DropsRelaxes
  <1>6. Holds(g6, x, accepts, named)
    BY <1>5, AudioDrops, DropsRelaxes
  <1> QED BY <1>6 DEF RewriteObject


\* The keywords of a schema have values of their kinds, and the constants are
\* scalars.
WellFormed(f) ==
    /\ Has(f, "type") => IsString(f["type"]) \/ IsStrings(f["type"])
    /\ Has(f, "$ref") => IsString(f["$ref"])
    /\ \A key \in Combinators \cup {"enum"} : Has(f, key) => IsArray(f[key])
    /\ Has(f, "minItems") => DOMAIN f["minItems"] = {"num"}
    /\ Has(f, "required") => IsStrings(f["required"])
    /\ Has(f, "properties") =>
           /\ IsObject(f["properties"])
           /\ \A p \in DOMAIN f["properties"].fields : IsObject(f["properties"].fields[p])
    /\ PlainConstants(f)

\* That is a schema with plain constants.
LEMMA WellFormedSchema ==
    ASSUME NEW f
    PROVE  WellFormed(f) <=> IsSchema(Object(f)) /\ PlainConstants(f)
  <1>1. IsObject(Object(f)) /\ Object(f).fields = f
    BY KindsOfJson
  <1> QED BY <1>1 DEF IsSchema, WellFormed

\* expand_nullable_type_array keeps that.
LEMMA ExpandWellFormed ==
    ASSUME NEW f, WellFormed(f)
    PROVE  WellFormed(ExpandNullableTypeArray(f))
  <1> DEFINE g == ExpandNullableTypeArray(f)
  <1>1. CASE ~ IsNullableTypeArray(f)
    BY <1>1, ExpandKeeps
  <1>2. CASE IsNullableTypeArray(f)
    <2>1. /\ Keeps(f, g, {"type", "anyOf"})
          /\ ~ Has(g, "type") /\ Has(g, "anyOf")
          /\ g.anyOf = Array([i \in DOMAIN f.type.items |->
                                 Object(Field("type", f.type.items[i]))])
      BY <1>2, ExpandKeeps
    <2>2. IsArray(g["anyOf"])
      BY <2>1, KindsOfJson
    <2> HIDE DEF g
    <2>3. WellFormed(g)
      BY <2>1, <2>2 DEF WellFormed, PlainConstants, Keeps, Has, HasArray, Combinators
    <2> QED BY <2>3 DEF g
  <1> QED BY <1>1, <1>2

\* So does the renaming of `const`.
LEMMA ConstWellFormed ==
    ASSUME NEW f, WellFormed(f)
    PROVE  WellFormed(ConstToEnum(f))
  <1> DEFINE g == ConstToEnum(f)
  <1>1. CASE ~ Has(f, "const")
    BY <1>1, ConstKeeps
  <1>2. CASE Has(f, "const")
    <2>1. /\ Keeps(f, g, {"const", "enum"})
          /\ ~ Has(g, "const") /\ Has(g, "enum") /\ g.enum = Array(<<f.const>>)
      BY <1>2, ConstKeeps
    <2>2. IsArray(g["enum"]) /\ \A i \in DOMAIN g["enum"].items : IsScalar(g["enum"].items[i])
      <3>1. IsScalar(f["const"])
        BY <1>2 DEF WellFormed, PlainConstants
      <3> QED BY <2>1, <3>1, KindsOfJson
    <2> HIDE DEF g
    <2>3. PlainConstants(g)
      BY <2>1, <2>2 DEF PlainConstants
    <2>4. WellFormed(g)
      BY <2>1, <2>2, <2>3 DEF WellFormed, Keeps, Has, Combinators
    <2> QED BY <2>4 DEF g
  <1> QED BY <1>1, <1>2

\* So does flatten_singleton_all_of.
LEMMA FlattenWellFormed ==
    ASSUME NEW f, WellFormed(f)
    PROVE  WellFormed(FlattenSingletonAllOf(f))
  <1> DEFINE g == FlattenSingletonAllOf(f)
  <1>1. CASE ~ IsSingletonAllOf(f)
    BY <1>1, FlattenKeeps
  <1>2. CASE IsSingletonAllOf(f)
    <2>1. /\ Keeps(f, g, {"allOf", "additionalProperties", "$ref"})
          /\ ~ Has(g, "allOf") /\ Has(g, "$ref")
          /\ g["$ref"] = f.allOf.items[1].fields["$ref"]
      BY <1>2, FlattenKeeps
    <2>2. IsString(g["$ref"])
      BY <1>2, <2>1 DEF IsSingletonAllOf, IsPlainRef
    <2> HIDE DEF g
    <2>3. WellFormed(g)
      BY <2>1, <2>2 DEF WellFormed, PlainConstants, Keeps, Has, HasArray, Combinators
    <2> QED BY <2>3 DEF g
  <1> QED BY <1>1, <1>2

\* So do the rules that only remove keywords.
LEMMA DropsWellFormed ==
    ASSUME NEW f, NEW g, NEW keys, WellFormed(f), Drops(f, g, keys)
    PROVE  WellFormed(g)
BY DEF WellFormed, PlainConstants, Drops, Has, HasArray, Combinators

\* What the rules make of a schema is one, with the same properties.
LEMMA RewriteWellFormed ==
    ASSUME NEW f, WellFormed(f)
    PROVE  /\ WellFormed(RewriteObject(f))
           /\ Has(RewriteObject(f), "properties") =>
                  Has(f, "properties") /\ RewriteObject(f)["properties"] = f["properties"]
  <1> DEFINE g1 == ExpandNullableTypeArray(f)
             g2 == ConstToEnum(g1)
             g3 == FlattenSingletonAllOf(g2)
             g4 == StripAdditionalProperties(g3)
             g5 == DropCollisionProneEnum(g4)
             g6 == DropDriftedAudioEnum(g5)
             Same(g, h) == Has(h, "properties") =>
                               Has(g, "properties") /\ h["properties"] = g["properties"]
  <1>1. WellFormed(g3)
    BY ExpandWellFormed, ConstWellFormed, FlattenWellFormed
  <1>2. WellFormed(g4)
    BY <1>1, StripDrops, DropsWellFormed
  <1>3. WellFormed(g5)
    BY <1>2, CollisionDrops, DropsWellFormed
  <1>4. WellFormed(g6)
    BY <1>3, AudioDrops, DropsWellFormed
  <1>5. \A g, h, keys : (Keeps(g, h, keys) /\ "properties" \notin keys) => Same(g, h)
    BY DEF Keeps, Has
  <1>6. /\ Keeps(f, g1, {"type", "anyOf"}) /\ Keeps(g1, g2, {"const", "enum"})
        /\ Keeps(g2, g3, {"allOf", "additionalProperties", "$ref"})
        /\ Keeps(g3, g4, {"additionalProperties"})
        /\ Keeps(g4, g5, {"enum"}) /\ Keeps(g5, g6, {"enum"})
    <2>1. Keeps(f, g1, {"type", "anyOf"})
      BY ExpandKeeps
    <2>2. Keeps(g1, g2, {"const", "enum"})
      BY ConstKeeps
    <2>3. Keeps(g2, g3, {"allOf", "additionalProperties", "$ref"})
      BY FlattenKeeps
    <2>4. Keeps(g3, g4, {"additionalProperties"})
      BY StripDrops DEF Drops
    <2>5. Keeps(g4, g5, {"enum"})
      BY CollisionDrops DEF Drops
    <2>6. Keeps(g5, g6, {"enum"})
      BY AudioDrops DEF Drops
    <2> QED BY <2>1, <2>2, <2>3, <2>4, <2>5, <2>6
  <1>7. g6 = RewriteObject(f)
    BY DEF RewriteObject
  <1> HIDE DEF g1, g2, g3, g4, g5, g6, Same
  <1>8. Same(f, g1) /\ Same(g1, g2) /\ Same(g2, g3) /\ Same(g3, g4) /\ Same(g4, g5) /\ Same(g5, g6)
    BY <1>5, <1>6
  <1>9. Same(f, g6)
    BY <1>8 DEF Same
  <1> QED BY <1>4, <1>7, <1>9 DEF Same

\* The rules leave the map of the properties alone.
LEMMA PropertiesStay ==
    ASSUME NEW h, \A p \in DOMAIN h : IsObject(h[p]), PlainConstants(h)
    PROVE  RewriteObject(h) = h
  <1>1. \A p \in DOMAIN h : ~ IsArray(h[p]) /\ ~ IsScalar(h[p]) /\ h[p] # False
    BY DEF IsObject, IsArray, IsScalar, False
  <1>2. \A p : ~ HasArray(h, p)
    BY <1>1 DEF HasArray, Has
  <1>3. ~ Has(h, "const")
    BY <1>1 DEF PlainConstants, Has
  <1>4. ExpandNullableTypeArray(h) = h
    BY <1>2 DEF ExpandNullableTypeArray, IsNullableTypeArray
  <1>5. ConstToEnum(h) = h
    BY <1>3 DEF ConstToEnum
  <1>6. FlattenSingletonAllOf(h) = h
    BY <1>2 DEF FlattenSingletonAllOf, IsSingletonAllOf
  <1>7. StripAdditionalProperties(h) = h
    BY <1>1 DEF StripAdditionalProperties, Has
  <1>8. DropCollisionProneEnum(h) = h /\ DropDriftedAudioEnum(h) = h
    BY <1>2 DEF DropCollisionProneEnum, DropDriftedAudioEnum
  <1> QED BY <1>4, <1>5, <1>6, <1>7, <1>8 DEF RewriteObject


-----------------------------------------------------------------------------
\* The traversal

\* descend is a walk, after the rules.
LEMMA DescendsWalks ==
    ASSUME NEW J, NEW D, Descends(D, J)
    PROVE  Walks(D, J)
  <1>1. \A u \in J : IsObject(u) => IsObject(D[u])
    BY ObjectsDescend
  <1>2. \A u \in J : IsArray(u) => D[u] = Array([i \in DOMAIN u.items |-> D[u.items[i]]])
    BY ArraysDescend
  <1>3. \A u \in J : IsScalar(u) => D[u] = u
    BY ScalarsStay DEF IsScalar
  <1> QED BY <1>1, <1>2, <1>3 DEF Walks

\* The first two passes leave the constants scalar.
LEMMA RelaxedPlain ==
    ASSUME NEW doc \in Specs
    PROVE  Plain(Nodes(Object(Relaxed(doc))))
  <1> DEFINE doc2  == Relaxed(doc)
             names == References(doc)
  <1>1. Plain(Nodes(Object(doc)))
    BY ConstantsAssumption DEF Plain, PlainConstants
  <1>2. PICK M : Sound(M, doc2, names \cup DOMAIN LiftedSchemas(doc)) /\ Plain(M)
    <2>1. \E M : /\ Sound(M, Relaxed(doc), names \cup DOMAIN LiftedSchemas(doc))
                 /\ Plain(Nodes(Object(doc))) => Plain(M)
      BY RelaxedIsSound
    <2> QED BY <1>1, <2>1
  <1> HIDE DEF doc2
  <1>3. Json(M) /\ Object(doc2) \in M
    BY <1>2 DEF Sound
  <1>4. \A v \in M : Parts(v) \subseteq M
    BY <1>3, JsonInParts DEF Json
  <1>5. Nodes(Object(doc2)) \subseteq M
    BY <1>3, <1>4, NodesLeast
  <1> QED BY <1>2, <1>5 DEF Plain, doc2

\* The rewritten document: what each schema was walked to, closed under parts.
LEMMA PreprocessedDocument ==
    ASSUME NEW doc \in Specs, NEW doc2, doc2 = Relaxed(doc), ShallowRewrite(doc2),
           NEW doc3, doc3 = Descend(Object(doc2)).fields
    PROVE  LET J == RewriteNodes(Object(doc2))
               N == Nodes(Object(doc3))
           IN  \E D : /\ Documents(J) /\ Descends(D, J)
                      /\ Nodes(Object(doc2)) \subseteq J
                      /\ \A v \in N : Parts(v) \subseteq N
                      /\ DOMAIN doc3 = DOMAIN doc2
                      /\ \A name \in DOMAIN doc2 : /\ doc2[name] \in J /\ doc3[name] = D[doc2[name]]
                                                   /\ doc3[name] \in N
  <1> DEFINE J == RewriteNodes(Object(doc2))
             N == Nodes(Object(doc3))
             names == References(doc)
  <1>1. PICK M : Sound(M, doc2, names \cup DOMAIN LiftedSchemas(doc))
    BY RelaxedIsSound
  <1>2. J \subseteq Grown(M) /\ Documents(J) /\ Object(doc2) \in J
    BY <1>1, RewriteNodesAreDocuments
  <1>3. PICK D : Descends(D, J) /\ Descend(Object(doc2)) = D[Object(doc2)]
    BY DescendsThere DEF ShallowRewrite
  <1>4. \A u \in J : RewriteParts(u) \subseteq J
    BY RewriteNodesClosed DEF ShallowRewrite
  <1>5. \A u : Parts(u) \subseteq RewriteParts(u)
    BY DEF RewriteParts
  <1>6. Nodes(Object(doc2)) \subseteq J
    BY <1>2, <1>4, <1>5, NodesLeast
  <1>7. RewriteObject(doc2) = doc2
    <2>1. DOMAIN doc2 = DOMAIN LiftInlineOneOrArrayRefs(doc)
      BY RelaxedDocument DEF Relaxed
    <2> QED BY <2>1, NamesAssumption, RulesNeedKeys
  <1>8. /\ D[Object(doc2)] = Object(doc3)
        /\ DOMAIN doc3 = DOMAIN doc2
        /\ \A name \in DOMAIN doc2 : doc3[name] = D[doc2[name]]
    <2> DEFINE h == [k \in DOMAIN doc2 |-> D[doc2[k]]]
    <2>1. IsObject(Object(doc2)) /\ Object(doc2).fields = doc2
      BY KindsOfJson
    <2>2. D[Object(doc2)] = Object(h)
      BY <1>2, <1>3, <1>7, <2>1, ObjectsDescend
    <2>3. DOMAIN h = DOMAIN doc2 /\ \A k \in DOMAIN doc2 : h[k] = D[doc2[k]]
      OBVIOUS
    <2> HIDE DEF h
    <2>4. doc3 = h
      BY <1>3, <2>2, KindsOfJson
    <2> QED BY <2>2, <2>3, <2>4
  <1> HIDE DEF J
  <1>9. Nests(Object(doc3), Depth)
    <2>1. Depth \in 0..Depth /\ RewriteLevels(Object(doc2))[Depth] = {}
      BY DepthAssumption DEF ShallowRewrite
    <2>2. Nests(D[Object(doc2)], Depth)
      BY <1>2, <1>3, <1>4, <2>1, DescendNests
    <2> QED BY <1>8, <2>2
  <1>10. \A v \in N : Parts(v) \subseteq N
    BY <1>9, NodesClosed DEF Nests
  <1>11. \A name \in DOMAIN doc2 : doc2[name] \in J
    BY <1>2, <1>4, <1>5, PartsOfObject
  <1>12. \A name \in DOMAIN doc3 : doc3[name] \in N
    <2>1. Object(doc3) \in N
      BY NodesStart
    <2> QED BY <1>10, <2>1, PartsOfObject
  <1> QED BY <1>2, <1>3, <1>6, <1>8, <1>10, <1>11, <1>12 DEF J


\* What the walk makes of the values of J that are still in N then.
DescendedTo(J, D, N) == {<<u, D[u]>> : u \in {w \in J : D[w] \in N}}

\* The walk after the rules carries a schema on to the rewritten document.
LEMMA DescendedSchema ==
    ASSUME NEW J, Documents(J), NEW D, Descends(D, J), NEW K, Plain(K), Json(K),
           \A v \in K : Parts(v) \subseteq K,
           NEW N, \A v \in N : Parts(v) \subseteq N,
           NEW s, s \in J, s \in K, IsSchema(s), D[s] \in N
    PROVE  /\ IsSchema(D[s])
           /\ Carried(RewriteObject(s.fields), D[s].fields, DescendedTo(J, D, N))
  <1> DEFINE f == RewriteObject(s.fields)
             h == [k \in DOMAIN f |-> D[f[k]]]
             g == D[s].fields
             E == DescendedTo(J, D, N)
  <1>1. Json(J) /\ Walks(D, J)
    BY DescendsWalks DEF Documents
  <1>2. IsObject(s) /\ s = Object(s.fields)
    BY <1>1, JsonParts DEF IsSchema
  <1>3. PlainConstants(s.fields)
    BY <1>2 DEF Plain
  <1>4. WellFormed(s.fields)
    BY <1>2, <1>3, WellFormedSchema
  <1>5. /\ WellFormed(f)
        /\ Has(f, "properties") =>
               Has(s.fields, "properties") /\ f["properties"] = s.fields["properties"]
    BY <1>4, RewriteWellFormed
  <1>6. \A k \in DOMAIN f : f[k] \in J
    BY <1>2 DEF Documents
  <1>7. D[s] = Object(g) /\ DOMAIN g = DOMAIN f /\ \A k \in DOMAIN f : g[k] = D[f[k]]
    <2>1. D[s] = Object(h)
      BY <1>2, ObjectsDescend
    <2>2. DOMAIN h = DOMAIN f /\ \A k \in DOMAIN f : h[k] = D[f[k]]
      OBVIOUS
    <2> HIDE DEF h, f
    <2>3. g = h
      BY <2>1, KindsOfJson
    <2> QED BY <2>1, <2>2, <2>3
  <1>8. \A u \in J : D[u] \in N => <<u, D[u]>> \in E
    BY DEF DescendedTo
  <1> HIDE DEF f, g, E
  <1>9. ASSUME Has(f, "properties"), IsObject(f["properties"])
        PROVE  LET q == f["properties"].fields
               IN  D[f["properties"]] = Object([p \in DOMAIN q |-> D[q[p]]])
    <2> DEFINE v == f["properties"]
               q == v.fields
    <2>1. v \in J /\ v \in K
      <3>1. v \in Parts(s)
        BY <1>2, <1>5, <1>9, PartsOf DEF Has
      <3> QED BY <1>6, <1>9, <3>1 DEF Has
    <2>2. PlainConstants(q)
      BY <1>9, <2>1 DEF Plain
    <2>3. \A p \in DOMAIN q : IsObject(q[p])
      BY <1>5, <1>9 DEF WellFormed
    <2> HIDE DEF v
    <2>4. RewriteObject(q) = q
      BY <2>2, <2>3, PropertiesStay
    <2>5. D[v] = Object([p \in DOMAIN q |-> D[q[p]]])
      <3>1. IsObject(v)
        BY <1>9 DEF v
      <3> QED BY <2>1, <2>4, <3>1, ObjectsDescend
    <2> QED BY <2>5 DEF v
  <1>10. Walked(f, g, J, D, N, E)
    <2>1. Object(g) \in N
      BY <1>7
    <2> QED BY <1>1, <1>6, <1>7, <1>8, <1>9, <2>1 DEF Walked
  <1>11. IsSchema(Object(f)) /\ PlainConstants(f)
    BY <1>5, WellFormedSchema
  <1>12. IsSchema(D[s])
    BY <1>7, <1>10, <1>11, WalkedSchema
  <1>13. Carried(f, g, E)
    BY <1>10, <1>11, WalkedCarries
  <1> QED BY <1>12, <1>13 DEF f, g, E

\* The alternative in place of a type.
LEMMA TypeObject ==
    ASSUME NEW J, NEW D, Descends(D, J), NEW y, NEW A, NEW B,
           LET u == Object(Field("type", String(TypeOf(y)))) IN u \in J /\ String(TypeOf(y)) \in J
    PROVE  LET u == Object(Field("type", String(TypeOf(y))))
           IN  /\ D[u] = u /\ IsSchema(u)
               /\ Holds(u.fields, y, A, B)
  <1> DEFINE v == String(TypeOf(y))
             f == Field("type", v)
             u == Object(f)
  <1>1. DOMAIN f = {"type"} /\ f["type"] = v /\ f = [k \in {"type"} |-> v]
    BY DEF Field
  <1>2. IsString(v) /\ ~ IsArray(v) /\ ~ IsObject(v)
    BY KindsOfJson
  <1>3. IsObject(u) /\ u.fields = f
    BY KindsOfJson
  <1>4. Holds(f, y, A, B)
    BY TypeAccepts
  <1>5. D[v] = v
    BY <1>2, ScalarsStay
  <1> HIDE DEF v, f
  <1>6. RewriteObject(f) = f
    <2>1. ~ HasArray(f, "type") /\ ~ HasArray(f, "allOf") /\ ~ HasArray(f, "enum")
      BY <1>1, <1>2 DEF HasArray, Has
    <2>2. ~ Has(f, "const") /\ ~ Has(f, "additionalProperties")
      BY <1>1 DEF Has
    <2>3. ExpandNullableTypeArray(f) = f
      BY <2>1 DEF ExpandNullableTypeArray, IsNullableTypeArray
    <2>4. ConstToEnum(f) = f
      BY <2>2 DEF ConstToEnum
    <2>5. FlattenSingletonAllOf(f) = f
      BY <2>1 DEF FlattenSingletonAllOf, IsSingletonAllOf
    <2>6. StripAdditionalProperties(f) = f
      BY <2>2 DEF StripAdditionalProperties
    <2>7. DropCollisionProneEnum(f) = f /\ DropDriftedAudioEnum(f) = f
      BY <2>1 DEF DropCollisionProneEnum, DropDriftedAudioEnum
    <2> QED BY <2>3, <2>4, <2>5, <2>6, <2>7 DEF RewriteObject
  <1>7. D[u] = u
    <2>1. u \in J
      BY DEF v, f
    <2>2. D[u] = Object([k \in DOMAIN f |-> D[f[k]]])
      BY <1>3, <1>6, <2>1, ObjectsDescend
    <2>3. [k \in DOMAIN f |-> D[f[k]]] = f
      BY <1>1, <1>5
    <2> QED BY <2>2, <2>3
  <1>8. IsSchema(u)
    BY <1>1, <1>2, <1>3 DEF IsSchema, Has, Combinators
  <1> QED BY <1>3, <1>4, <1>7, <1>8 DEF u, f, v


\* The traversal makes no schema stricter: an alternative takes one step more.
LEMMA DescendRelaxes ==
    ASSUME NEW doc \in Specs, NEW doc2, doc2 = Relaxed(doc), ShallowRewrite(doc2),
           NEW doc3, doc3 = Descend(Object(doc2)).fields
    PROVE  \A n \in Nat : \A name \in DOMAIN doc2 : \A x :
               <<doc2[name], x>> \in Taken(doc2, n) => <<doc3[name], x>> \in Taken(doc3, n + 1)
  <1> DEFINE J == RewriteNodes(Object(doc2))
             K == Nodes(Object(doc2))
             N == Nodes(Object(doc3))
  <1>1. PICK D : /\ Documents(J) /\ Descends(D, J)
                 /\ K \subseteq J
                 /\ \A v \in N : Parts(v) \subseteq N
                 /\ DOMAIN doc3 = DOMAIN doc2
                 /\ \A name \in DOMAIN doc2 : /\ doc2[name] \in J /\ doc3[name] = D[doc2[name]]
                                              /\ doc3[name] \in N
    BY PreprocessedDocument
  <1>2. /\ Plain(K) /\ Json(K) /\ \A v \in K : Parts(v) \subseteq K
    <2>1. Plain(K)
      BY RelaxedPlain
    <2>2. \A v \in K : Parts(v) \subseteq K
      BY RelaxedDocument DEF Relaxed
    <2>3. Json(K)
      BY <1>1, <2>2, JsonSub DEF Documents
    <2> QED BY <2>1, <2>2, <2>3
  <1> DEFINE E == DescendedTo(J, D, N)
             Fine(n) == \A s, t, x : (<<s, t>> \in E /\ <<s, x>> \in Taken(doc2, n))
                                         => <<t, x>> \in Taken(doc3, n + 1)
             Good == {n \in Nat : Fine(n)}
  <1>3. \A s, t : <<s, t>> \in E <=> s \in J /\ t = D[s] /\ t \in N
    BY DEF DescendedTo
  <1>4. \A n \in Nat : \A s, x : <<s, x>> \in Taken(doc2, n) => s \in K /\ x \in Instances
    BY Takes
  <1> HIDE DEF J, K, E
  <1>5. Fine(0)
    BY Takes
  <1>6. ASSUME NEW n \in Nat, Fine(n)
        PROVE  Fine(n + 1)
    <2> SUFFICES ASSUME NEW s, NEW t, NEW x, <<s, t>> \in E, <<s, x>> \in Taken(doc2, n + 1)
                 PROVE  <<t, x>> \in Taken(doc3, (n + 1) + 1)
      OBVIOUS
    <2> DEFINE A0 == Taken(doc2, n)
               TypePairs == {<<Object(Field("type", String(TypeOf(y)))), y>> : y \in Instances}
               A == A0 \cup TypePairs
               B == NamedIn(doc2, A0)
               C == Taken(doc3, n + 1)
               S == NamedIn(doc3, C)
               f == RewriteObject(s.fields)
               g == t.fields
    <2>0. n + 1 \in Nat
      OBVIOUS
    <2>1. s \in J /\ s \in K /\ t = D[s] /\ t \in N /\ x \in Instances
      BY <1>3, <1>4, <2>0
    <2>2. IsSchema(s) /\ Holds(s.fields, x, A0, B)
      BY <2>1, Takes DEF K
    <2>3. IsSchema(t) /\ Carried(f, g, E)
      BY <1>1, <1>2, <2>1, <2>2, DescendedSchema DEF E
    <2>4. <<t, x>> \in Taken(doc3, (n + 1) + 1) <=> IsSchema(t) /\ Holds(g, x, C, S)
      BY <2>0, <2>1, Takes
    <2>5. ASSUME NEW r, IsPlainRef(r), <<r, x>> \in A
          PROVE  Holds(r.fields, x, A, B)
      <3>1. <<r, x>> \in A0
        <4>1. <<r, x>> \notin TypePairs
          <5>1. \A y : DOMAIN Object(Field("type", String(TypeOf(y)))).fields = {"type"}
            BY KindsOfJson DEF Field
          <5>2. DOMAIN r.fields = {"$ref"}
            BY <2>5 DEF IsPlainRef
          <5> QED BY <5>1, <5>2
        <4> QED BY <2>5, <4>1
      <3>2. n # 0
        BY <3>1, Takes
      <3> DEFINE m == n - 1
      <3>3. m \in Nat /\ m + 1 = n /\ m <= n
        BY <3>2
      <3> HIDE DEF m
      <3> DEFINE A1 == Taken(doc2, m)
                 B1 == NamedIn(doc2, A1)
                 e  == r.fields
      <3>4. Holds(e, x, A1, B1)
        <4>1. r \in Nodes(Object(doc2))
          BY <1>4, <3>1 DEF K
        <4> QED BY <2>1, <3>1, <3>3, <4>1, Takes
      <3>5. A1 \subseteq A0
        BY <3>3, TakenGrows
      <3>6. A1 \subseteq A /\ B1 \subseteq B
        BY <3>5 DEF NamedIn
      <3> HIDE DEF A1, B1, A, B, e
      <3>7. Holds(e, x, A, B)
        BY <3>4, <3>6, HoldsMore
      <3> QED BY <3>7 DEF e
    <2>6. Holds(s.fields, x, A, B)
      <3> DEFINE e == s.fields
      <3>1. A0 \subseteq A /\ B \subseteq B /\ Holds(e, x, A0, B)
        BY <2>2
      <3> HIDE DEF A0, A, B, e
      <3>2. Holds(e, x, A, B)
        BY <3>1, HoldsMore
      <3> QED BY <3>2 DEF e
    <2>7. Holds(f, x, A, B)
      <3>1. <<Object(Field("type", String(TypeOf(x)))), x>> \in A
        BY <2>1
      <3> DEFINE e == s.fields
      <3> HIDE DEF A, B, e
      <3>2. Holds(RewriteObject(e), x, A, B)
        BY <2>5, <2>6, <3>1, RewriteRelaxes DEF e
      <3> QED BY <3>2 DEF e
    <2>8. \A u, w, y : (<<u, w>> \in E /\ <<u, y>> \in A) => <<w, y>> \in C
      <3> SUFFICES ASSUME NEW u, NEW w, NEW y, <<u, w>> \in E, <<u, y>> \in A
                   PROVE  <<w, y>> \in C
        OBVIOUS
      <3>1. CASE <<u, y>> \in A0
        BY <1>6, <3>1
      <3>2. CASE <<u, y>> \in TypePairs
        <4>1. y \in Instances /\ u = Object(Field("type", String(TypeOf(y))))
          BY <3>2
        <4>2. u \in J /\ w = D[u] /\ w \in N
          BY <1>3
        <4>3. String(TypeOf(y)) \in J
          <5> DEFINE v == String(TypeOf(y))
          <5>1. DOMAIN Field("type", v) = {"type"} /\ Field("type", v)["type"] = v
            BY DEF Field
          <5>2. Json(J)
            BY <1>1 DEF Documents
          <5>3. IsObject(u) /\ u.fields = Field("type", v)
            BY <4>1, KindsOfJson
          <5> HIDE DEF v
          <5>4. v \in J
            BY <4>2, <5>1, <5>2, <5>3, JsonParts
          <5> QED BY <5>4 DEF v
        <4>4. /\ D[u] = u /\ IsSchema(u)
              /\ Holds(u.fields, y, Taken(doc3, n), NamedIn(doc3, Taken(doc3, n)))
          BY <1>1, <4>1, <4>2, <4>3, TypeObject
        <4> QED BY <4>1, <4>2, <4>4, Takes
      <3> QED BY <3>1, <3>2
    <2>9. \A name, y : <<name, y>> \in B => <<name, y>> \in S
      <3> SUFFICES ASSUME NEW name, NEW y, <<name, y>> \in B
                   PROVE  <<name, y>> \in S
        OBVIOUS
      <3>1. name \in DOMAIN doc2 /\ <<doc2[name], y>> \in A0
        BY NamedTaken
      <3>2. name \in DOMAIN doc3 /\ <<doc2[name], doc3[name]>> \in E
        BY <1>1, <1>3, <3>1
      <3>3. <<doc3[name], y>> \in C
        BY <1>6, <3>1, <3>2
      <3> QED BY <2>0, <3>2, <3>3, NamedTaken
    <2> HIDE DEF A, B, C, S, f, g
    <2>10. Has(f, "$ref") => (<<f["$ref"].str, x>> \in B => <<f["$ref"].str, x>> \in S)
      BY <2>9
    <2>11. Holds(g, x, C, S)
      BY <2>3, <2>7, <2>8, <2>10, CarriedHolds
    <2> QED BY <2>3, <2>4, <2>11
  <1>7. Nat \subseteq Good
    <2>1. 0 \in Good /\ \A n \in Nat : n \in Good => n + 1 \in Good
      <3> HIDE DEF Fine
      <3> QED BY <1>5, <1>6
    <2> HIDE DEF Good
    <2> QED BY <2>1, NatSetInduction
  <1>8. \A name \in DOMAIN doc2 : <<doc2[name], doc3[name]>> \in E
    BY <1>1, <1>3
  <1> QED BY <1>7, <1>8


-----------------------------------------------------------------------------
\* The passes

\* A document holds its schemas.
LEMMA SpecDocument ==
    ASSUME NEW doc \in Specs
    PROVE  \A name \in DOMAIN doc : doc[name] \in Nodes(Object(doc))
  <1>1. Levels(Object(doc))[Depth] = {}
    BY SpecsAssumption
  <1>2. Parts(Object(doc)) \subseteq Nodes(Object(doc))
    BY <1>1, NodesStart, NodesClosed
  <1> QED BY <1>2, PartsOfObject

\* What LiftExact says, for every document.
LEMMA LiftIsExact ==
    ASSUME NEW doc \in Specs, NEW doc1, doc1 = LiftInlineOneOrArrayRefs(doc),
           DOMAIN LiftedSchemas(doc) \cap DOMAIN doc = {}, NEW name \in DOMAIN doc
    PROVE  /\ Means(doc, name, Steps) \subseteq Means(doc1, name, 2 * Steps)
           /\ DOMAIN LiftedSchemas(doc) \cap References(doc) = {} =>
                  Means(doc1, name, Steps) \subseteq Means(doc, name, Steps)
  <1>1. Steps \in Nat /\ 2 * Steps \in Nat /\ Steps + 1 \in Nat
    BY StepsAssumption
  <1>2. doc[name] \in Nodes(Object(doc))
    BY SpecDocument
  <1>3. /\ name \in DOMAIN doc1 /\ doc1[name] \in Nodes(Object(doc1))
        /\ <<doc[name], doc1[name]>> \in LiftedTo(doc)
    BY LiftedDocument
  <1>4. \A x : x \in Means(doc, name, Steps) <=> <<doc[name], x>> \in Taken(doc, Steps + 1)
    BY <1>1, <1>2, MeansTaken
  <1>5. \A x : x \in Means(doc1, name, Steps) <=> <<doc1[name], x>> \in Taken(doc1, Steps + 1)
    BY <1>1, <1>3, MeansTaken
  <1>6. \A x : x \in Means(doc1, name, 2 * Steps) <=> <<doc1[name], x>> \in Taken(doc1, 2 * Steps + 1)
    BY <1>1, <1>3, MeansTaken
  <1>7. \A x : <<doc[name], x>> \in Taken(doc, Steps + 1) => <<doc1[name], x>> \in Taken(doc1, 2 * Steps + 1)
    BY <1>1, <1>3, LiftRelaxes
  <1>8. DOMAIN LiftedSchemas(doc) \cap References(doc) = {} =>
            \A x : <<doc1[name], x>> \in Taken(doc1, Steps + 1) => <<doc[name], x>> \in Taken(doc, Steps + 1)
    BY <1>1, <1>3, LiftTightens
  <1> QED BY <1>4, <1>5, <1>6, <1>7, <1>8

\* Lifting keeps the meaning of every schema that it finds, in every document
\* where it overwrites and captures no name: what was accepted in some number of
\* steps still is, and what is accepted was.
THEOREM LiftExactHolds == Spec => []LiftExact
  <1>1. IInv => LiftExact
    <2> SUFFICES ASSUME IInv, stage = "lifted", ~ DefinesLifted, ~ RefersToLifted,
                        NEW name \in DOMAIN original
                 PROVE  /\ Means(original, name, Steps) \subseteq Means(schemas, name, 2 * Steps)
                        /\ Means(schemas, name, Steps) \subseteq Means(original, name, Steps)
      BY DEF LiftExact
    <2>1. original \in Specs /\ schemas = LiftInlineOneOrArrayRefs(original)
      BY DEF IInv
    <2> QED BY <2>1, LiftIsExact DEF DefinesLifted, RefersToLifted
  <1> QED BY <1>1, Passes, PTL

\* No pass makes a schema of the document stricter, in every document where no
\* schema has a name that lifting makes: the code that is generated accepts what
\* the document says the server may send.
THEOREM OnlyRelaxedHolds == Spec => []OnlyRelaxed
  <1>1. IInv => OnlyRelaxed
    <2> SUFFICES ASSUME IInv, ~ DefinesLifted, NEW name \in DOMAIN original
                 PROVE  Means(original, name, Steps) \subseteq Means(schemas, name, 2 * Steps + 1)
      BY DEF OnlyRelaxed
    <2> DEFINE doc  == original
               doc1 == LiftInlineOneOrArrayRefs(doc)
               doc2 == Relaxed(doc)
               n    == Steps + 1
               m    == 2 * Steps + 1
    <2>1. /\ Steps \in Nat /\ n \in Nat /\ m \in Nat /\ m + 1 \in Nat
          /\ n <= m + 1 /\ m <= m + 1
      BY StepsAssumption
    <2>2. /\ doc \in Specs /\ DOMAIN LiftedSchemas(doc) \cap DOMAIN doc = {}
          /\ doc2 = RelaxDriftedRequiredFields(doc1)
      BY DEF IInv, DefinesLifted, Relaxed
    <2>3. doc[name] \in Nodes(Object(doc))
      BY <2>2, SpecDocument
    <2>4. /\ name \in DOMAIN doc1 /\ doc1[name] \in Nodes(Object(doc1))
          /\ <<doc[name], doc1[name]>> \in LiftedTo(doc)
      BY <2>2, LiftedDocument
    <2> HIDE DEF doc1, doc2
    <2>5. /\ name \in DOMAIN doc2 /\ doc2[name] \in Nodes(Object(doc2))
          /\ <<doc1[name], doc2[name]>> \in Replaced(doc1, doc2)
      <3>1. name \in DOMAIN doc2 /\ doc2[name] \in Nodes(Object(doc2))
        BY <2>2, <2>4, RelaxedDocument DEF doc1
      <3> QED BY <2>4, <3>1 DEF Replaced
    <2>6. \A x : x \in Means(doc, name, Steps) <=> <<doc[name], x>> \in Taken(doc, n)
      BY <2>1, <2>3, MeansTaken
    <2>7. \A x : <<doc[name], x>> \in Taken(doc, n) => <<doc1[name], x>> \in Taken(doc1, m)
      BY <2>1, <2>2, <2>4, LiftRelaxes DEF doc1
    <2>8. \A x : <<doc1[name], x>> \in Taken(doc1, m) => <<doc2[name], x>> \in Taken(doc2, m)
      BY <2>1, <2>2, <2>5, RelaxRelaxes DEF doc1
    <2>9. /\ name \in DOMAIN schemas /\ schemas[name] \in Nodes(Object(schemas))
          /\ \A x : <<doc[name], x>> \in Taken(doc, n) => <<schemas[name], x>> \in Taken(schemas, m + 1)
      <3>1. CASE stage = "raw"
        <4>1. schemas = doc
          BY <3>1 DEF IInv
        <4>2. Taken(doc, n) \subseteq Taken(doc, m + 1)
          BY <2>1, TakenGrows
        <4> QED BY <2>3, <4>1, <4>2
      <3>2. CASE stage = "lifted"
        <4>1. schemas = doc1
          BY <3>2 DEF IInv, doc1
        <4>2. Taken(doc1, m) \subseteq Taken(doc1, m + 1)
          BY <2>1, TakenGrows
        <4> QED BY <2>4, <2>7, <4>1, <4>2
      <3>3. CASE stage = "relaxed"
        <4>1. schemas = doc2
          BY <3>3 DEF IInv, doc2
        <4>2. Taken(doc2, m) \subseteq Taken(doc2, m + 1)
          BY <2>1, TakenGrows
        <4> QED BY <2>5, <2>7, <2>8, <4>1, <4>2
      <3>4. CASE stage = "done"
        <4>1. ShallowRewrite(doc2) /\ schemas = Descend(Object(doc2)).fields
          BY <3>4 DEF IInv, doc2
        <4>2. \A x : <<doc2[name], x>> \in Taken(doc2, m) => <<schemas[name], x>> \in Taken(schemas, m + 1)
          BY <2>1, <2>2, <2>5, <4>1, DescendRelaxes DEF doc2
        <4>3. name \in DOMAIN schemas /\ schemas[name] \in Nodes(Object(schemas))
          BY <2>2, <2>5, <4>1, PreprocessedDocument DEF doc2
        <4> QED BY <2>7, <2>8, <4>2, <4>3
      <3> QED BY <3>1, <3>2, <3>3, <3>4 DEF IInv
    <2>10. \A x : x \in Means(schemas, name, m) <=> <<schemas[name], x>> \in Taken(schemas, m + 1)
      BY <2>1, <2>9, MeansTaken
    <2> QED BY <2>6, <2>9, <2>10
  <1> QED BY <1>1, Passes, PTL


=============================================================================
